---------------------------- MODULE OneDecision -----------------------------
(***************************************************************************)
(* One decision of the rerouter on any snapshot of scores, and what must   *)
(* hold of its advice.                                                     *)
(***************************************************************************)
EXTENDS RerouteDecision, SequencesExt

CONSTANT NoRoad   \* the "" the search starts from

ASSUME NoRoadAssumption == NoRoad \notin Roads

VARIABLES scores, advice,
          decided   \* the cycle has gone through its roads
vars == <<scores, advice, decided>>

Init == scores \in Snapshots /\ advice = {} /\ decided = FALSE
Next == advice' \in Recommendations(scores) /\ decided' = TRUE /\ UNCHANGED scores
Spec == Init /\ [][Next]_vars

\* The search for the best alternative as the loop runs it: bestAlt and
\* bestAltScore start at "" and 1.0 and are replaced by a strictly lower score.
LoopBest(r) ==
    FoldLeft(LAMBDA best, alt :
                IF alt \in DOMAIN scores /\ scores[alt] < best.score
                THEN [alt |-> alt, score |-> scores[alt]] ELSE best,
             [alt |-> NoRoad, score |-> One], Adjacency[r])

\* Advice is a set of recommendations on known roads.
TypeOK == scores \in Snapshots /\ advice \subseteq Advice /\ decided \in BOOLEAN

\* BestAlt, stated by what it returns, is what the loop of runCycle computes,
\* ties, unknown roads and roads at 1.0 included.
LoopAgrees ==
    \A r \in DOMAIN Adjacency :
        BestAlt(r, scores) = {LoopBest(r).alt} \ {NoRoad}

\* No driver is sent to a road that is not an alternative, not known, not better
\* by the required margin, or worse than another alternative known to the cycle.
AdviceSound ==
    \A a \in advice :
        /\ scores[a.route] > Threshold
        /\ \E n \in DOMAIN Adjacency[a.route] : Adjacency[a.route][n] = a.alt
        /\ a.alt \in DOMAIN scores /\ scores[a.alt] + MinGain <= scores[a.route]
        /\ \A n \in DOMAIN Adjacency[a.route] :
              Adjacency[a.route][n] \in DOMAIN scores =>
                  scores[a.alt] <= scores[Adjacency[a.route][n]]

\* A congested road is sent one way only: (route, alt) pairs of one cycle never
\* compete for the same drivers.
OneAdvicePerRoute == \A a, b \in advice : a.route = b.route => a = b

\* Following advice from road to road never leads back: no set of advised roads
\* is closed under its advice, however long the detour.
NoCircularAdvice ==
    \A routes \in SUBSET {a.route : a \in advice} : routes # {} =>
        \E a \in advice : a.route \in routes /\ a.alt \notin routes

\* The other direction: once a cycle has decided, be it that it recommends nothing,
\* a road of the map that is above the threshold and has a known alternative better
\* by more than the margin has advice.
ReliefFound ==
    decided =>
        \A r \in DOMAIN scores \cap DOMAIN Adjacency :
            /\ scores[r] > Threshold
            /\ \E n \in DOMAIN Adjacency[r] :
                  /\ Adjacency[r][n] \in DOMAIN scores
                  /\ scores[Adjacency[r][n]] + MinGain < scores[r]
            => \E a \in advice : a.route = r
=============================================================================

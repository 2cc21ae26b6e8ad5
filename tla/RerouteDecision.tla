-------------------------- MODULE RerouteDecision ---------------------------
(***************************************************************************)
(* The decision of services/rerouter: from one snapshot of congestion      *)
(* scores, which congested roads get which alternative.                    *)
(*                                                                         *)
(* Scores are congestion in units of 1/One (the predictor rounds them to   *)
(* thousandths, so nothing is lost at One = 1000).  The code compares      *)
(* score - altScore with 0.1 in binary floating point: a difference of     *)
(* exactly MinGain in decimal may fall on either side (0.6 - 0.5 does not  *)
(* pass, 0.8 - 0.7 does), so there the decision is either.                 *)
(***************************************************************************)
EXTENDS Naturals, Sequences

CONSTANTS Roads,
          Adjacency,   \* adjacencyMap: [known roads -> Seq(Roads)]
          One,         \* the score 1.0
          Threshold,   \* CONGESTION_THRESHOLD
          MinGain      \* the difference 0.1

ASSUME DecisionAssumption ==
    /\ One \in Nat \ {0} /\ Threshold \in Nat /\ MinGain \in Nat \ {0}
    /\ DOMAIN Adjacency \subseteq Roads
    /\ \A r \in DOMAIN Adjacency : Adjacency[r] \in Seq(Roads)

\* A snapshot knows the score of some roads only.
Snapshots == UNION {[known -> 0..One] : known \in SUBSET Roads}
Advice    == [route : Roads, alt : Roads, gain : 0..One]

Congested_Slip(scores)  == {r \in DOMAIN scores : scores[r] >= Threshold /\ r \in DOMAIN Adjacency}
Congested(scores) == {r \in DOMAIN scores : scores[r] > Threshold /\ r \in DOMAIN Adjacency}

\* Places in the list of alternatives of a road that can be taken: the score is
\* known, and below the 1.0 the search starts from.
Usable(r, scores) == {n \in DOMAIN Adjacency[r] :
                         Adjacency[r][n] \in DOMAIN scores /\ scores[Adjacency[r][n]] < One}

\* The search keeps the first of the least congested: a later one must be
\* strictly better to replace it.
FirstUsable_Slip(r, scores) ==
    {Adjacency[r][n] : n \in {n \in Usable(r, scores) : \A m \in Usable(r, scores) : n <= m}}
BestAlt(r, scores) ==
    {Adjacency[r][n] : n \in
        {n \in Usable(r, scores) : \A m \in Usable(r, scores) :
            LET here  == scores[Adjacency[r][n]]
                there == scores[Adjacency[r][m]]
            IN  here < there \/ (here = there /\ n <= m)}}

Candidates_Slip(scores) ==
    {[route |-> r, alt |-> b, gain |-> IF scores[r] >= scores[b] THEN scores[r] - scores[b]
                                                                ELSE scores[b] - scores[r]] :
        r \in Congested(scores), b \in DOMAIN scores}

\* The congested roads with their best alternative, when that is no worse (a
\* negative delta is never enough, and gain stays a natural number).  The minutes
\* and the CO2 of the row, 15 and 2.5 times the gain, are not kept.
Candidates(scores) ==
    UNION {{[route |-> r, alt |-> b, gain |-> scores[r] - scores[b]] :
               b \in {b \in BestAlt(r, scores) : scores[b] <= scores[r]}} :
           r \in Congested(scores)}

Certain_Slip(scores) == {a \in Candidates(scores) : a.gain > 2 * MinGain}
Certain(scores)    == {a \in Candidates(scores) : a.gain > MinGain}
Borderline(scores) == {a \in Candidates(scores) : a.gain = MinGain}

\* What one cycle may recommend.
Recommendations(scores) == {Certain(scores) \union some : some \in SUBSET Borderline(scores)}
=============================================================================

---------------------------- MODULE Intelligence ----------------------------
(***************************************************************************)
(* The predictor with the rerouter beside it: two services that share the  *)
(* predictions table and nothing else, each on its own ticker.             *)
(***************************************************************************)
EXTENDS Predictor, Sequences

CONSTANTS Rerouters, Adjacency, One, Threshold, MinGain

\* What the rerouter assumes, and that the predictor's scores are on its scale.
ASSUME IntelligenceAssumption ==
    /\ One \in Nat \ {0} /\ Threshold \in Nat /\ MinGain \in Nat \ {0}
    /\ DOMAIN Adjacency \subseteq Roads
    /\ \A r \in DOMAIN Adjacency : Adjacency[r] \in Seq(Roads)
    /\ Scores \subseteq 0..One

VARIABLES reroutes, rpc, rnow, advices, unsaved

R == INSTANCE Rerouter

predictorVars == <<window, shifts, ppc, pnow, forecasts, pending>>
rerouterVars  == <<reroutes, rpc, rnow, advices, unsaved>>
bothVars == <<clock, faults, predictions, predictorVars, rerouterVars>>

BothInit == Init /\ R!Init

\* A step of one service leaves the other's process alone.
ByPredictor(step) == step /\ UNCHANGED rerouterVars
ByRerouter(step)  == step /\ UNCHANGED predictorVars

BothNext ==
    \/ ByPredictor(Environment)
    \/ \E p \in Predictors : ByPredictor(Process(p))
    \/ \E i \in Rerouters : ByRerouter(R!Process(i))

BothSpec == BothInit /\ [][BothNext]_bothVars

\* Of each service: it is restarted, its ticker keeps firing, its statements
\* return.  Nothing is assumed of the traffic.
BothFairness ==
    /\ \A p \in Predictors : /\ WF_bothVars(ByPredictor(Start(p)))
                             /\ WF_bothVars(ByPredictor(BeginCycle(p)))
                             /\ WF_bothVars(ByPredictor(Query(p) \/ QueryFails(p)))
                             /\ WF_bothVars(ByPredictor(StoreAny(p)))
                             /\ WF_bothVars(ByPredictor(Publish(p)))
    /\ \A i \in Rerouters : /\ WF_bothVars(ByRerouter(R!Start(i)))
                            /\ WF_bothVars(ByRerouter(R!BeginCycle(i)))
                            /\ WF_bothVars(ByRerouter(R!Query(i) \/ R!QueryFails(i)))
                            /\ WF_bothVars(ByRerouter(R!StoreAny(i)))
                            /\ WF_bothVars(ByRerouter(R!Publish(i)))

BothFairSpec == BothSpec /\ BothFairness

-----------------------------------------------------------------------------
(* What must hold. *)

\* Both services are typed.
BothTypeOK == TypeOK /\ R!TypeOK

\* rerouter/main.go:211-224: the recommendations of a batch are stored each by a
\* statement of its own.  One that fails costs no other its row, also while
\* the predictor rewrites the table the batch was decided on.
AdviceLossContained == R!AdviceLossContained

AllReporting == \A r \in Roads : window[r] # NoData

\* The scores the current traffic calls for.
Current == [r \in {r \in Roads : window[r] # NoData} |-> window[r]]

\* Whatever failed, died, or was read in the middle of a batch: once every road
\* reports and the window stays as it is, each cycle of the rerouter recommends
\* what the current traffic calls for and nothing else.
AdviceSettles ==
    <>[]AllReporting =>
        <>[](\A i \in Rerouters :
                rpc[i] = "store" => advices[i] \in R!Recommendations(Current))

\* The two services together do what the project is for: once every road reports
\* and the traffic stays as it is, every congested road with a better way out
\* has a recommendation that gains more than the margin.
CongestionRelieved ==
    <>[]AllReporting =>
        <>[](\A a \in R!Certain(Current) :
                \E row \in reroutes : row.route = a.route /\ row.gain > MinGain)

Jammed(r) == \E score \in Scores : score > Threshold /\ window[r] = score

\* README.md: "reroutage si congestion > 0.5".  A road that stays above the
\* threshold while every other one is free is rerouted.
CongestedRoadRerouted ==
    \A r \in Roads :
        <>[](Jammed(r) /\ \A other \in Roads \ {r} : window[other] = 0)
            => <>(\E row \in reroutes : row.route = r)
=============================================================================

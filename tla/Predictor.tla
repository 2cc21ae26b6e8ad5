----------------------------- MODULE Predictor ------------------------------
(***************************************************************************)
(* services/predictor: every interval, a cycle reads the readings of the   *)
(* lookback window, forecasts each road that has some, stores one row per  *)
(* road, one statement each, and publishes the batch on Redis.             *)
(*                                                                         *)
(* The arithmetic of the forecast is not in this module: window[r] is the  *)
(* score the model gives road r from the readings now in the window.  It   *)
(* changes as readings arrive and as others leave the window.              *)
(***************************************************************************)
EXTENDS Naturals, FiniteSets

CONSTANTS Predictors,   \* predictor processes: two during a rolling update
          Roads,
          Scores,       \* the scores a forecast may have
          NoData,       \* a road without a reading in the window
          MaxClock,     \* bound: seconds told apart; the clock then stands still
          MaxShifts,    \* bound: changes of the window
          MaxFaults     \* bound: statements that fail and processes that die

ASSUME PredictorAssumption == /\ IsFiniteSet(Roads)
                              /\ MaxClock \in Nat /\ MaxShifts \in Nat /\ MaxFaults \in Nat
                              /\ Scores \subseteq Nat /\ NoData \notin Scores

VARIABLES clock,         \* the time, truncated to seconds
          window, shifts, faults,
          predictions,   \* rows [ts, road, score]
          ppc,           \* [Predictors -> where the process is]
          pnow,          \* [Predictors -> the time of the cycle]
          forecasts,     \* [Predictors -> predictions, the batch of the cycle]
          pending        \* [Predictors -> forecasts not stored yet]

environment == <<clock, window, shifts>>
processVars == <<ppc, pnow, forecasts, pending>>
vars == <<clock, window, shifts, faults, predictions, ppc, pnow, forecasts, pending>>

Forecast   == [road : Roads, score : Scores]
Prediction == [ts : 0..MaxClock, road : Roads, score : Scores]

\* The processes start on a database with any recent readings.
Init ==
    /\ clock = 0 /\ shifts = 0 /\ faults = 0
    /\ window \in [Roads -> Scores \union {NoData}]
    /\ predictions = {}
    /\ ppc = [p \in Predictors |-> "exited"]
    /\ pnow = [p \in Predictors |-> 0]
    /\ forecasts = [p \in Predictors |-> {}]
    /\ pending = [p \in Predictors |-> {}]

Tick == /\ clock < MaxClock
        /\ clock' = clock + 1
        /\ UNCHANGED <<window, shifts, faults, predictions, processVars>>

Shift(r, score) ==
    /\ shifts < MaxShifts
    /\ window[r] # score
    /\ window' = [window EXCEPT ![r] = score]
    /\ shifts' = shifts + 1
    /\ UNCHANGED <<clock, faults, predictions, processVars>>

Fault == faults < MaxFaults /\ faults' = faults + 1

-----------------------------------------------------------------------------
GoTo(p, label) == ppc' = [ppc EXCEPT ![p] = label]

\* The early returns of runCycle: the loop of main waits for the next tick.
Skip_Slip(p) == GoTo(p, "stopped") /\ UNCHANGED <<pnow, forecasts, pending>>
Skip(p)      == GoTo(p, "waiting") /\ UNCHANGED <<pnow, forecasts, pending>>

\* main: the first cycle runs as soon as the process is up.
Start(p) == /\ ppc[p] = "exited"
            /\ GoTo(p, "waiting")
            /\ UNCHANGED <<environment, faults, predictions, pnow, forecasts, pending>>

\* The ticker fires: the time of the cycle is taken before the query.
BeginCycle(p) ==
    /\ ppc[p] = "waiting"
    /\ pnow' = [pnow EXCEPT ![p] = clock]
    /\ GoTo(p, "query")
    /\ UNCHANGED <<environment, faults, predictions, forecasts, pending>>

\* What a cycle forecasts: each road with a reading in the window.
Batch == {[road |-> r, score |-> window[r]] : r \in {r \in Roads : window[r] # NoData}}

\* The window has no upper end: the query sees every reading committed before
\* it runs, later than pnow too.
Query(p) ==
    /\ ppc[p] = "query"
    /\ IF Batch = {} THEN Skip(p)
       ELSE /\ forecasts' = [forecasts EXCEPT ![p] = Batch]
            /\ pending' = [pending EXCEPT ![p] = Batch]
            /\ GoTo(p, "store")
            /\ UNCHANGED pnow
    /\ UNCHANGED <<environment, faults, predictions>>

\* The query fails, or breaks off while its rows are read.
QueryFails(p) ==
    /\ ppc[p] = "query"
    /\ Fault
    /\ Skip(p)
    /\ UNCHANGED <<environment, predictions>>

\* INSERT ... ON CONFLICT (ts, road_id, horizon_min) DO UPDATE
Upserted(rows, row) ==
    {old \in rows : old.ts # row.ts \/ old.road # row.road} \union {row}

RowFor(p, f) == [ts |-> pnow[p], road |-> f.road, score |-> f.score]

\* One statement less to run; after the last one the batch is published.
StepOn(p, left) ==
    /\ pending' = [pending EXCEPT ![p] = left]
    /\ GoTo(p, IF left = {} THEN "publish" ELSE "store")
    /\ UNCHANGED <<pnow, forecasts>>

\* storePredictions: the roads come in no particular order (a Go map).
Store(p, f) ==
    /\ ppc[p] = "store" /\ f \in pending[p]
    /\ predictions' = Upserted(predictions, RowFor(p, f))
    /\ StepOn(p, pending[p] \ {f})
    /\ UNCHANGED <<environment, faults>>

StoreFails_Slip(p, f, applied) ==
    /\ ppc[p] = "store" /\ f \in pending[p]
    /\ Fault
    /\ StepOn(p, {})
    /\ UNCHANGED <<environment, predictions>>

\* A statement that fails is counted and the next road is tried; its row may be
\* there all the same, when only the reply was lost.
StoreFails(p, f, applied) ==
    /\ ppc[p] = "store" /\ f \in pending[p]
    /\ Fault
    /\ predictions' = IF applied THEN Upserted(predictions, RowFor(p, f)) ELSE predictions
    /\ StepOn(p, pending[p] \ {f})
    /\ UNCHANGED environment

\* publishPredictions: every prediction of the batch, stored or not.  Nothing
\* subscribes to cityflow:predictions, so what it relays is not kept.
Publish(p) ==
    /\ ppc[p] = "publish"
    /\ GoTo(p, "waiting")
    /\ forecasts' = [forecasts EXCEPT ![p] = {}]
    /\ UNCHANGED <<environment, faults, predictions, pnow, pending>>

\* The process dies, or SIGTERM ends it: what it had not stored is lost.
Exit(p) ==
    /\ ppc[p] # "exited"
    /\ Fault
    /\ GoTo(p, "exited")
    /\ forecasts' = [forecasts EXCEPT ![p] = {}]
    /\ pending' = [pending EXCEPT ![p] = {}]
    /\ UNCHANGED <<environment, predictions, pnow>>

-----------------------------------------------------------------------------
Environment == Tick \/ \E r \in Roads, score \in Scores \union {NoData} : Shift(r, score)

StoreAny(p) == \E f \in pending[p] : \/ Store(p, f)
                                     \/ \E applied \in BOOLEAN : StoreFails(p, f, applied)

Process(p) == \/ Start(p)
              \/ BeginCycle(p)
              \/ Query(p)
              \/ QueryFails(p)
              \/ StoreAny(p)
              \/ Publish(p)
              \/ Exit(p)

Next == Environment \/ \E p \in Predictors : Process(p)

Spec == Init /\ [][Next]_vars

\* Processes are restarted (restart: unless-stopped, and the Deployment), the
\* ticker keeps firing, and every statement returns, with a result or an error.
Fairness == \A p \in Predictors : /\ WF_vars(Start(p))
                                  /\ WF_vars(BeginCycle(p))
                                  /\ WF_vars(Query(p) \/ QueryFails(p))
                                  /\ WF_vars(StoreAny(p))
                                  /\ WF_vars(Publish(p))

FairSpec == Spec /\ Fairness

-----------------------------------------------------------------------------
(* What must hold. *)

\* Every variable has its type, and a batch names a road once.
TypeOK ==
    /\ clock \in 0..MaxClock /\ shifts \in 0..MaxShifts /\ faults \in 0..MaxFaults
    /\ window \in [Roads -> Scores \union {NoData}]
    /\ predictions \subseteq Prediction
    /\ ppc \in [Predictors -> {"exited", "waiting", "query", "store", "publish"}]
    /\ pnow \in [Predictors -> 0..MaxClock]
    /\ forecasts \in [Predictors -> SUBSET Forecast]
    /\ pending \in [Predictors -> SUBSET Forecast]
    /\ \A p \in Predictors :
          /\ pending[p] \subseteq forecasts[p]
          /\ ppc[p] = "store" <=> pending[p] # {}
          /\ \A f, g \in forecasts[p] : f.road = g.road => f = g

\* A row that cannot be stored costs that road its prediction and no other: the
\* roads of a finished batch without a row are no more than the faults so far.
RowLossContained ==
    \A p \in Predictors : ppc[p] = "publish" =>
        Cardinality({f \in forecasts[p] :
            ~ \E row \in predictions : row.ts = pnow[p] /\ row.road = f.road}) <= faults

\* The newest row of a road: SELECT DISTINCT ON (road_id) ... ORDER BY ts DESC.
IsLatest(row) == /\ row \in predictions
                 /\ \A other \in predictions : other.road = row.road => other.ts <= row.ts

\* Whatever failed, died or overlapped before: once the window stays as it is,
\* the newest prediction of every road in it becomes, and stays, the forecast
\* from that window.
PredictionsSettle ==
    <>[](\A r \in Roads : window[r] # NoData =>
            \E row \in predictions : row.road = r /\ row.score = window[r] /\ IsLatest(row))
=============================================================================

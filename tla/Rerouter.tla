------------------------------ MODULE Rerouter ------------------------------
(***************************************************************************)
(* services/rerouter: every interval, a cycle reads the newest prediction  *)
(* of each road, decides (RerouteDecision), stores its recommendations one *)
(* by one and publishes them on Redis.                                     *)
(***************************************************************************)
EXTENDS RerouteDecision, FiniteSets

CONSTANTS Rerouters,   \* rerouter processes
          MaxClock,    \* bound: seconds told apart
          MaxFaults    \* bound: statements that fail and processes that die

VARIABLES clock, faults,
          predictions,   \* rows [ts, road, score] the predictor writes
          reroutes,      \* rows [ts, route, alt, gain]
          rpc,           \* [Rerouters -> where the process is]
          rnow,          \* [Rerouters -> the time of the cycle]
          advices,       \* [Rerouters -> reroutes, the batch of the cycle]
          unsaved        \* [Rerouters -> advices not stored yet]

processVars == <<rpc, rnow, advices, unsaved>>
vars == <<clock, faults, predictions, reroutes, rpc, rnow, advices, unsaved>>

Reroute == [ts : 0..MaxClock, route : Roads, alt : Roads, gain : 0..One]

Init == /\ reroutes = {}
        /\ rpc = [i \in Rerouters |-> "exited"]
        /\ rnow = [i \in Rerouters |-> 0]
        /\ advices = [i \in Rerouters |-> {}]
        /\ unsaved = [i \in Rerouters |-> {}]

Fault == faults < MaxFaults /\ faults' = faults + 1

GoTo(i, label) == rpc' = [rpc EXCEPT ![i] = label]

\* The early returns of runCycle: the loop of main waits for the next tick.
Skip_Slip(i) == GoTo(i, "stopped") /\ UNCHANGED <<rnow, advices, unsaved>>
Skip(i)      == GoTo(i, "waiting") /\ UNCHANGED <<rnow, advices, unsaved>>

\* main: the first cycle runs as soon as the process is up.
Start(i) == /\ rpc[i] = "exited"
            /\ GoTo(i, "waiting")
            /\ UNCHANGED <<clock, faults, predictions, reroutes, rnow, advices, unsaved>>

BeginCycle(i) ==
    /\ rpc[i] = "waiting"
    /\ rnow' = [rnow EXCEPT ![i] = clock]
    /\ GoTo(i, "query")
    /\ UNCHANGED <<clock, faults, predictions, reroutes, advices, unsaved>>

\* SELECT DISTINCT ON (road_id) ... ORDER BY road_id, ts DESC: however old.
OldestScores_Slip(rows) ==
    [r \in {row.road : row \in rows} |->
        (CHOOSE row \in rows : row.road = r
            /\ \A other \in rows : other.road = r => row.ts <= other.ts).score]
LatestScores(rows) ==
    [r \in {row.road : row \in rows} |->
        (CHOOSE row \in rows : row.road = r
            /\ \A other \in rows : other.road = r => other.ts <= row.ts).score]

\* One statement reads the scores, so a cycle decides on one snapshot of the
\* table; the predictor may be in the middle of a batch at that moment.
Query(i) ==
    /\ rpc[i] = "query"
    /\ \E batch \in Recommendations(LatestScores(predictions)) :
          IF batch = {} THEN Skip(i)
          ELSE /\ advices' = [advices EXCEPT ![i] = batch]
               /\ unsaved' = [unsaved EXCEPT ![i] = batch]
               /\ GoTo(i, "store")
               /\ UNCHANGED rnow
    /\ UNCHANGED <<clock, faults, predictions, reroutes>>

QueryFails(i) ==
    /\ rpc[i] = "query"
    /\ Fault
    /\ Skip(i)
    /\ UNCHANGED <<clock, predictions, reroutes>>

\* INSERT ... ON CONFLICT (ts, route_id, alt_route_id) DO UPDATE
Upserted(rows, row) ==
    {old \in rows : old.ts # row.ts \/ old.route # row.route \/ old.alt # row.alt} \union {row}

RowFor(i, a) == [ts |-> rnow[i], route |-> a.route, alt |-> a.alt, gain |-> a.gain]

StepOn(i, left) ==
    /\ unsaved' = [unsaved EXCEPT ![i] = left]
    /\ GoTo(i, IF left = {} THEN "publish" ELSE "store")
    /\ UNCHANGED <<rnow, advices>>

\* storeReroutes: in the order the map of scores was walked, which is any.
Store(i, a) ==
    /\ rpc[i] = "store" /\ a \in unsaved[i]
    /\ reroutes' = Upserted(reroutes, RowFor(i, a))
    /\ StepOn(i, unsaved[i] \ {a})
    /\ UNCHANGED <<clock, faults, predictions>>

StoreFails_Slip(i, a, applied) ==
    /\ rpc[i] = "store" /\ a \in unsaved[i]
    /\ Fault
    /\ StepOn(i, {})
    /\ UNCHANGED <<clock, predictions, reroutes>>

StoreFails(i, a, applied) ==
    /\ rpc[i] = "store" /\ a \in unsaved[i]
    /\ Fault
    /\ reroutes' = IF applied THEN Upserted(reroutes, RowFor(i, a)) ELSE reroutes
    /\ StepOn(i, unsaved[i] \ {a})
    /\ UNCHANGED <<clock, predictions>>

\* publishReroutes: stored or not.  Nothing subscribes to cityflow:reroutes.
Publish(i) ==
    /\ rpc[i] = "publish"
    /\ GoTo(i, "waiting")
    /\ advices' = [advices EXCEPT ![i] = {}]
    /\ UNCHANGED <<clock, faults, predictions, reroutes, rnow, unsaved>>

Exit(i) ==
    /\ rpc[i] # "exited"
    /\ Fault
    /\ GoTo(i, "exited")
    /\ advices' = [advices EXCEPT ![i] = {}]
    /\ unsaved' = [unsaved EXCEPT ![i] = {}]
    /\ UNCHANGED <<clock, predictions, reroutes, rnow>>

StoreAny(i) == \E a \in unsaved[i] : \/ Store(i, a)
                                     \/ \E applied \in BOOLEAN : StoreFails(i, a, applied)

Process(i) == \/ Start(i)
              \/ BeginCycle(i)
              \/ Query(i)
              \/ QueryFails(i)
              \/ StoreAny(i)
              \/ Publish(i)
              \/ Exit(i)

-----------------------------------------------------------------------------
(* What must hold of this part; Intelligence runs it beside the predictor. *)

\* Every variable has its type, and a batch sends a route one way.
TypeOK ==
    /\ reroutes \subseteq Reroute
    /\ rpc \in [Rerouters -> {"exited", "waiting", "query", "store", "publish"}]
    /\ rnow \in [Rerouters -> 0..MaxClock]
    /\ advices \in [Rerouters -> SUBSET Advice]
    /\ unsaved \in [Rerouters -> SUBSET Advice]
    /\ \A i \in Rerouters :
          /\ unsaved[i] \subseteq advices[i]
          /\ rpc[i] = "store" <=> unsaved[i] # {}
          /\ \A a, b \in advices[i] : a.route = b.route => a = b

\* A recommendation that cannot be stored costs no other its row.
AdviceLossContained ==
    \A i \in Rerouters : rpc[i] = "publish" =>
        Cardinality({a \in advices[i] : ~ \E row \in reroutes :
            row.ts = rnow[i] /\ row.route = a.route /\ row.alt = a.alt}) <= faults
=============================================================================

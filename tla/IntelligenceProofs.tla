-------------------------- MODULE IntelligenceProofs ---------------------------
(***************************************************************************)
(* Theorems about the predictor, the rerouter and the two together, for    *)
(* any processes, roads, networks, scores and faults.                      *)
(***************************************************************************)
EXTENDS Intelligence, TLAPS, FiniteSetTheorems, WellFoundedInduction

\* The rerouter counts with the Cardinality of this module.
LEMMA SameCardinality ==
    ASSUME NEW S
    PROVE  R!Cardinality(S) = Cardinality(S)
BY DEF R!Cardinality, Cardinality

\* A set of losses that gets no larger is counted by faults that do not get fewer,
LEMMA LossKept ==
    ASSUME NEW S, IsFiniteSet(S), NEW n \in Nat, NEW m \in Nat, Cardinality(S) <= n, n <= m,
           NEW T \in SUBSET S
    PROVE  Cardinality(T) <= m
<1>1. Cardinality(T) <= Cardinality(S) /\ Cardinality(T) \in Nat /\ Cardinality(S) \in Nat
  BY FS_Subset, FS_CardinalityType
<1> QED
  BY <1>1

\* and one that may grow by an element by a fault more.
LEMMA LossCounted ==
    ASSUME NEW S, IsFiniteSet(S), NEW n \in Nat, NEW m \in Nat, Cardinality(S) <= n, n <= m,
           NEW f, NEW T \in SUBSET (S \union {f}), f \in T => m = n + 1
    PROVE  Cardinality(T) <= m
<1>1. CASE f \notin T
  BY <1>1, LossKept
<1>2. CASE f \in T
  <2>1. Cardinality(S \union {f}) <= n + 1 /\ IsFiniteSet(S \union {f})
    <3>1. Cardinality(S) \in Nat
      BY FS_CardinalityType
    <3>2. /\ IsFiniteSet(S \union {f})
          /\ Cardinality(S \union {f}) \in {Cardinality(S), Cardinality(S) + 1}
      BY FS_AddElement
    <3> QED
      BY <3>1, <3>2
  <2> QED
    BY <1>2, <2>1, LossKept
<1> QED
  BY <1>1, <1>2

\* The roads of a batch that were tried and have no row of its time.
PStored(p, f) == \E row \in predictions : row.ts = pnow[p] /\ row.road = f.road
PLost(p)      == {f \in forecasts[p] \ pending[p] : ~ PStored(p, f)}

\* While a batch is stored and published, each loss so far was a fault.
PContained ==
    \A p \in Predictors :
        ppc[p] \in {"store", "publish"} =>
            IsFiniteSet(forecasts[p]) /\ Cardinality(PLost(p)) <= faults

PInv == TypeOK /\ PContained

(***************************************************************************)
(* Batches and rows.                                                       *)
(***************************************************************************)

\* A batch is finite, and names a road once.
LEMMA PBatchOK ==
    ASSUME TypeOK
    PROVE  /\ Batch \subseteq Forecast /\ IsFiniteSet(Batch)
           /\ \A f, g \in Batch : f.road = g.road => f = g
<1> DEFINE S == {r \in Roads : window[r] # NoData}
           F == [r \in S |-> [road |-> r, score |-> window[r]]]
<1>1. IsFiniteSet(S)
  BY PredictorAssumption, FS_Subset
<1>2. IsFiniteSet({F[r] : r \in S})
  <2>1. F \in Surjection(S, {F[r] : r \in S})
    BY DEF Surjection
  <2> QED
    BY <1>1, <2>1, FS_Surjection
<1>3. Batch = {F[r] : r \in S}
  BY DEF Batch
<1>4. \A r \in S : window[r] \in Scores
  BY DEF TypeOK
<1>5. Batch \subseteq Forecast
  BY <1>4 DEF Batch, Forecast
<1>6. \A f, g \in Batch : f.road = g.road => f = g
  BY DEF Batch
<1> QED
  BY <1>2, <1>3, <1>5, <1>6

\* A row is stored under its key, and no other key loses its row.
LEMMA PUpsertKeeps ==
    ASSUME NEW rows, NEW row
    PROVE  /\ row \in Upserted(rows, row)
           /\ \A old \in rows : \E new \in Upserted(rows, row) :
                 new.ts = old.ts /\ new.road = old.road
BY DEF Upserted

\* A process that moves on is the only one whose batch changes.
LEMMA POthersContained ==
    ASSUME PInv, NEW p \in Predictors, NEW q \in Predictors, q # p,
           ppc'[q] = ppc[q], pnow'[q] = pnow[q], forecasts'[q] = forecasts[q],
           pending'[q] = pending[q], faults <= faults', faults' \in Nat,
           \A old \in predictions : \E new \in predictions' :
                new.ts = old.ts /\ new.road = old.road,
           ppc[q] \in {"store", "publish"}
    PROVE  IsFiniteSet(forecasts'[q]) /\ Cardinality(PLost(q)') <= faults'
<1>1. IsFiniteSet(forecasts[q]) /\ Cardinality(PLost(q)) <= faults
  BY DEF PInv, PContained
<1>2. PLost(q)' \subseteq PLost(q) /\ PLost(q) \subseteq forecasts[q]
  BY DEF PLost, PStored
<1>3. IsFiniteSet(PLost(q)) /\ faults \in Nat
  BY <1>1, <1>2, FS_Subset, PredictorAssumption DEF PInv, TypeOK
<1> QED
  BY <1>1, <1>2, <1>3, LossKept

\* The invariant after a step of one process: the others keep theirs.
LEMMA PMoved ==
    ASSUME PInv, TypeOK', NEW p \in Predictors,
           \A q \in Predictors \ {p} :
                ppc'[q] = ppc[q] /\ pnow'[q] = pnow[q] /\ forecasts'[q] = forecasts[q]
                /\ pending'[q] = pending[q],
           faults <= faults',
           \A old \in predictions : \E new \in predictions' :
                new.ts = old.ts /\ new.road = old.road,
           ppc'[p] \in {"store", "publish"} =>
                IsFiniteSet(forecasts'[p]) /\ Cardinality(PLost(p)') <= faults'
    PROVE  PInv'
<1>1. faults' \in Nat
  BY PredictorAssumption DEF TypeOK
<1>2. ASSUME NEW q \in Predictors, q # p, ppc'[q] \in {"store", "publish"}
      PROVE  IsFiniteSet(forecasts'[q]) /\ Cardinality(PLost(q)') <= faults'
  <2>1. /\ ppc'[q] = ppc[q] /\ pnow'[q] = pnow[q] /\ forecasts'[q] = forecasts[q]
        /\ pending'[q] = pending[q] /\ ppc[q] \in {"store", "publish"}
    BY <1>2
  <2> QED
    BY <1>1, <1>2, <2>1, POthersContained
<1> QED
  BY <1>2 DEF PInv, PContained

\* A step that leaves the table alone, of a process that is not at a batch then.
LEMMA PMovedApart ==
    ASSUME PInv, TypeOK', NEW p \in Predictors,
           \A q \in Predictors \ {p} :
                ppc'[q] = ppc[q] /\ pnow'[q] = pnow[q] /\ forecasts'[q] = forecasts[q]
                /\ pending'[q] = pending[q],
           faults <= faults', predictions' = predictions,
           ppc'[p] \notin {"store", "publish"}
    PROVE  PInv'
BY PMoved

(***************************************************************************)
(* The steps.                                                              *)
(***************************************************************************)

\* Where a process may be.
Labels == {"exited", "waiting", "query", "store", "publish"}

\* No other process moves.
POnly(p) == /\ ppc' = [ppc EXCEPT ![p] = ppc'[p]]
            /\ pnow' = [pnow EXCEPT ![p] = pnow'[p]]
            /\ forecasts' = [forecasts EXCEPT ![p] = forecasts'[p]]
            /\ pending' = [pending EXCEPT ![p] = pending'[p]]

\* p is in the domain of what a step updates.
LEMMA PDomains ==
    ASSUME TypeOK, NEW p \in Predictors
    PROVE  p \in DOMAIN ppc /\ p \in DOMAIN pnow /\ p \in DOMAIN forecasts /\ p \in DOMAIN pending
BY DEF TypeOK

\* The type of the fields of one process carries over to all.
LEMMA PTypeKept ==
    ASSUME TypeOK, NEW p \in Predictors, POnly(p), environment' = environment,
           faults' \in 0..MaxFaults, predictions' \subseteq Prediction,
           ppc'[p] \in Labels, pnow'[p] \in 0..MaxClock,
           forecasts'[p] \in SUBSET Forecast, pending'[p] \in SUBSET forecasts'[p],
           ppc'[p] = "store" <=> pending'[p] # {},
           \A f, g \in forecasts'[p] : f.road = g.road => f = g
    PROVE  /\ TypeOK'
           /\ \A q \in Predictors \ {p} :
                  ppc'[q] = ppc[q] /\ pnow'[q] = pnow[q] /\ forecasts'[q] = forecasts[q]
                  /\ pending'[q] = pending[q]
<1>1. /\ ppc' \in [Predictors -> Labels] /\ pnow' \in [Predictors -> 0..MaxClock]
      /\ forecasts' \in [Predictors -> SUBSET Forecast]
      /\ pending' \in [Predictors -> SUBSET Forecast]
  BY DEF TypeOK, POnly, Labels
<1>2. \A q \in Predictors \ {p} :
          ppc'[q] = ppc[q] /\ pnow'[q] = pnow[q] /\ forecasts'[q] = forecasts[q]
          /\ pending'[q] = pending[q]
  BY DEF TypeOK, POnly
<1>3. \A q \in Predictors :
          /\ pending'[q] \subseteq forecasts'[q]
          /\ ppc'[q] = "store" <=> pending'[q] # {}
          /\ \A f, g \in forecasts'[q] : f.road = g.road => f = g
  <2> SUFFICES ASSUME NEW q \in Predictors
               PROVE  /\ pending'[q] \subseteq forecasts'[q]
                      /\ ppc'[q] = "store" <=> pending'[q] # {}
                      /\ \A f, g \in forecasts'[q] : f.road = g.road => f = g
    OBVIOUS
  <2>1. CASE q = p
    BY <2>1
  <2>2. CASE q # p
    BY <1>2, <2>2 DEF TypeOK
  <2> QED
    BY <2>1, <2>2
<1> QED
  BY <1>1, <1>2, <1>3 DEF TypeOK, environment, Labels

\* One field updated by its own value is the field.
LEMMA PSame ==
    ASSUME TypeOK, NEW p \in Predictors
    PROVE  /\ pnow = [pnow EXCEPT ![p] = pnow[p]]
           /\ forecasts = [forecasts EXCEPT ![p] = forecasts[p]]
           /\ pending = [pending EXCEPT ![p] = pending[p]]
           /\ pnow[p] \in 0..MaxClock /\ forecasts[p] \in SUBSET Forecast
           /\ pending[p] \in SUBSET forecasts[p]
           /\ \A f, g \in forecasts[p] : f.road = g.road => f = g
           /\ ppc[p] = "store" <=> pending[p] # {}
           /\ faults \in 0..MaxFaults /\ faults \in Nat
BY PredictorAssumption DEF TypeOK

\* Time, and readings, change no batch and no row.
LEMMA PEnvironment == PInv /\ Environment => PInv'
<1> SUFFICES ASSUME PInv, Environment PROVE PInv'
  OBVIOUS
<1>1. UNCHANGED <<faults, predictions, ppc, pnow, forecasts, pending>>
  BY DEF Environment, Tick, Shift, processVars
<1>2. /\ clock' \in 0..MaxClock /\ shifts' \in 0..MaxShifts
      /\ window' \in [Roads -> Scores \union {NoData}]
  <2>1. CASE Tick
    BY <2>1, PredictorAssumption DEF Tick, PInv, TypeOK
  <2>2. ASSUME NEW r \in Roads, NEW score \in Scores \union {NoData}, Shift(r, score)
        PROVE  /\ clock' \in 0..MaxClock /\ shifts' \in 0..MaxShifts
               /\ window' \in [Roads -> Scores \union {NoData}]
    BY <2>2, PredictorAssumption DEF Shift, PInv, TypeOK
  <2> QED
    BY <2>1, <2>2 DEF Environment
<1>3. TypeOK'
  BY <1>1, <1>2 DEF PInv, TypeOK
<1>4. PContained'
  BY <1>1 DEF PInv, PContained, PLost, PStored
<1> QED
  BY <1>3, <1>4 DEF PInv

\* A process that begins a cycle, or returns early from one.
LEMMA PCycleOpens ==
    ASSUME PInv, NEW p \in Predictors, Start(p) \/ BeginCycle(p) \/ QueryFails(p)
    PROVE  PInv'
<1> DEFINE label == IF BeginCycle(p) THEN "query" ELSE "waiting"
           now   == IF BeginCycle(p) THEN clock ELSE pnow[p]
<1>1. /\ GoTo(p, label) /\ label \in Labels \ {"store", "publish"} /\ now \in 0..MaxClock
      /\ pnow' = [pnow EXCEPT ![p] = now]
  <2>1. CASE BeginCycle(p)
    BY <2>1 DEF BeginCycle, Labels, PInv, TypeOK
  <2>2. CASE ~ BeginCycle(p)
    BY <2>2, PSame DEF Start, QueryFails, Skip, Labels, PInv
  <2> QED
    BY <2>1, <2>2
<1>2. /\ UNCHANGED <<environment, predictions, forecasts, pending>>
      /\ ppc[p] # "store"
  BY DEF Start, BeginCycle, QueryFails, Skip, Fault
<1>3. faults' \in 0..MaxFaults /\ faults <= faults'
  BY PredictorAssumption DEF Start, BeginCycle, QueryFails, Fault, PInv, TypeOK
<1> HIDE DEF label, now
<1>4. /\ forecasts' = [forecasts EXCEPT ![p] = forecasts[p]]
      /\ pending' = [pending EXCEPT ![p] = pending[p]]
      /\ forecasts[p] \in SUBSET Forecast /\ pending[p] \in SUBSET forecasts[p]
      /\ pending[p] = {} /\ label # "store"
      /\ \A f, g \in forecasts[p] : f.road = g.road => f = g
      /\ predictions' \subseteq Prediction
  BY <1>1, <1>2, PSame DEF PInv, TypeOK
<1>only. /\ POnly(p) /\ ppc'[p] = label /\ pnow'[p] = now
      /\ forecasts'[p] = forecasts[p] /\ pending'[p] = pending[p]
  <2>1. ppc'[p] = label /\ pnow'[p] = now
    BY <1>1, PDomains DEF GoTo, PInv
  <2>2. forecasts'[p] = forecasts[p] /\ pending'[p] = pending[p]
    BY <1>2
  <2>3. POnly(p)
    BY <1>1, <1>4, <2>1, <2>2 DEF POnly, GoTo
  <2> QED
    BY <2>1, <2>2, <2>3
<1>5. /\ TypeOK' /\ ppc'[p] = label
      /\ \A q \in Predictors \ {p} :
            ppc'[q] = ppc[q] /\ pnow'[q] = pnow[q] /\ forecasts'[q] = forecasts[q]
            /\ pending'[q] = pending[q]
  BY <1>1, <1>2, <1>3, <1>4, <1>only, PTypeKept DEF PInv
<1> QED
  BY <1>1, <1>2, <1>3, <1>5, PMovedApart

\* The end of a cycle, or of its process: the batch is forgotten.
LEMMA PCycleCloses ==
    ASSUME PInv, NEW p \in Predictors, Publish(p) \/ Exit(p)
    PROVE  PInv'
<1> DEFINE label == IF Publish(p) THEN "waiting" ELSE "exited"
<1>1. /\ GoTo(p, label) /\ label \in Labels \ {"store", "publish"}
      /\ forecasts' = [forecasts EXCEPT ![p] = {}]
      /\ UNCHANGED <<environment, predictions, pnow>>
  BY DEF Publish, Exit, Labels
<1>2. pending' = [pending EXCEPT ![p] = {}]
  <2>1. CASE Publish(p)
    BY <2>1, PSame DEF Publish, PInv
  <2>2. CASE Exit(p)
    BY <2>2 DEF Exit
  <2> QED
    BY <2>1, <2>2
<1>3. faults' \in 0..MaxFaults /\ faults <= faults'
  BY PredictorAssumption DEF Publish, Exit, Fault, PInv, TypeOK
<1> HIDE DEF label
<1>4. /\ pnow' = [pnow EXCEPT ![p] = pnow[p]] /\ pnow[p] \in 0..MaxClock
      /\ predictions' \subseteq Prediction
  BY <1>1, PSame DEF PInv, TypeOK
<1>5. /\ POnly(p) /\ ppc'[p] = label /\ pnow'[p] = pnow[p]
      /\ forecasts'[p] = {} /\ pending'[p] = {}
  BY <1>1, <1>2, <1>4 DEF POnly, GoTo, PInv, TypeOK
<1>6. /\ TypeOK' /\ ppc'[p] = label
      /\ \A q \in Predictors \ {p} :
            ppc'[q] = ppc[q] /\ pnow'[q] = pnow[q] /\ forecasts'[q] = forecasts[q]
            /\ pending'[q] = pending[q]
  BY <1>1, <1>2, <1>3, <1>4, <1>5, PTypeKept DEF PInv
<1> QED
  BY <1>1, <1>3, <1>6, PMovedApart

\* A query gives the process a batch of which nothing was tried.
LEMMA PQuery ==
    ASSUME PInv, NEW p \in Predictors, Query(p)
    PROVE  PInv'
<1>1. /\ ppc[p] = "query" /\ UNCHANGED <<environment, faults, predictions, pnow>>
      /\ pnow' = [pnow EXCEPT ![p] = pnow[p]] /\ pnow[p] \in 0..MaxClock
      /\ faults' \in 0..MaxFaults /\ faults <= faults' /\ predictions' \subseteq Prediction
  BY PSame DEF Query, Skip, PInv, TypeOK
<1>2. CASE Batch = {}
  <2>1. /\ GoTo(p, "waiting") /\ "waiting" \in Labels \ {"store", "publish"}
        /\ forecasts' = [forecasts EXCEPT ![p] = forecasts[p]]
        /\ pending' = [pending EXCEPT ![p] = pending[p]]
        /\ forecasts[p] \in SUBSET Forecast /\ pending[p] \in SUBSET forecasts[p]
        /\ pending[p] = {}
        /\ \A f, g \in forecasts[p] : f.road = g.road => f = g
    BY <1>1, <1>2, PSame DEF Query, Skip, Labels, PInv
  <2>only. /\ POnly(p) /\ ppc'[p] = "waiting" /\ pnow'[p] = pnow[p]
        /\ forecasts'[p] = forecasts[p] /\ pending'[p] = pending[p]
    <3>1. ppc'[p] = "waiting" /\ pnow'[p] = pnow[p]
      BY <1>1, <2>1, PDomains DEF GoTo, PInv
    <3>2. forecasts'[p] = forecasts[p] /\ pending'[p] = pending[p]
      BY <2>1, PDomains DEF PInv
    <3>3. POnly(p)
      BY <1>1, <2>1, <3>1, <3>2 DEF POnly, GoTo
    <3> QED
      BY <3>1, <3>2, <3>3
  <2>2. /\ TypeOK' /\ ppc'[p] = "waiting"
        /\ \A q \in Predictors \ {p} :
              ppc'[q] = ppc[q] /\ pnow'[q] = pnow[q] /\ forecasts'[q] = forecasts[q]
              /\ pending'[q] = pending[q]
    BY <1>1, <2>1, <2>only, PTypeKept DEF PInv
  <2> QED
    BY <1>1, <2>2, PMovedApart
<1>3. CASE Batch # {}
  <2>1. /\ GoTo(p, "store") /\ "store" \in Labels
        /\ forecasts' = [forecasts EXCEPT ![p] = Batch]
        /\ pending' = [pending EXCEPT ![p] = Batch]
    BY <1>3 DEF Query, Labels
  <2>2. /\ Batch \in SUBSET Forecast /\ Batch \in SUBSET Batch /\ IsFiniteSet(Batch)
        /\ \A f, g \in Batch : f.road = g.road => f = g
    BY PBatchOK DEF PInv
  <2>only. /\ POnly(p) /\ ppc'[p] = "store" /\ pnow'[p] = pnow[p]
        /\ forecasts'[p] = Batch /\ pending'[p] = Batch
    <3> HIDE DEF Batch
    <3>1. ppc'[p] = "store" /\ pnow'[p] = pnow[p]
      BY <1>1, <2>1, PDomains DEF GoTo, PInv
    <3>2. forecasts'[p] = Batch /\ pending'[p] = Batch
      BY <2>1, PDomains DEF PInv
    <3>3. POnly(p)
      BY <1>1, <2>1, <3>1, <3>2 DEF POnly, GoTo
    <3> QED
      BY <3>1, <3>2, <3>3
  <2>3. /\ TypeOK' /\ forecasts'[p] = Batch /\ pending'[p] = Batch
        /\ \A q \in Predictors \ {p} :
              ppc'[q] = ppc[q] /\ pnow'[q] = pnow[q] /\ forecasts'[q] = forecasts[q]
              /\ pending'[q] = pending[q]
    <3> HIDE DEF Batch
    <3> QED
      BY <1>1, <1>3, <2>1, <2>2, <2>only, PTypeKept DEF PInv
  <2>4. PLost(p)' = {}
    BY <2>3 DEF PLost
  <2>5. Cardinality(PLost(p)') <= faults'
    BY <1>1, <2>4, FS_EmptySet, PredictorAssumption
  <2> QED
    BY <1>1, <2>2, <2>3, <2>5, PMoved
<1> QED
  BY <1>2, <1>3

\* A statement: its road has a row then, or a fault more is counted.
LEMMA PStore ==
    ASSUME PInv, NEW p \in Predictors, NEW f \in pending[p],
           Store(p, f) \/ \E applied \in BOOLEAN : StoreFails(p, f, applied)
    PROVE  PInv'
<1> DEFINE left  == pending[p] \ {f}
           label == IF left = {} THEN "publish" ELSE "store"
           row   == RowFor(p, f)
<1>1. /\ ppc[p] = "store" /\ StepOn(p, left) /\ UNCHANGED environment
      /\ predictions' \in {predictions, Upserted(predictions, row)}
      /\ \/ faults' = faults /\ predictions' = Upserted(predictions, row)
         \/ Fault
  BY DEF Store, StoreFails
<1>2. /\ GoTo(p, label) /\ label \in Labels
      /\ pending' = [pending EXCEPT ![p] = left] /\ UNCHANGED <<pnow, forecasts>>
  BY <1>1 DEF StepOn, Labels
<1>3. /\ pnow' = [pnow EXCEPT ![p] = pnow[p]] /\ pnow[p] \in 0..MaxClock
      /\ forecasts' = [forecasts EXCEPT ![p] = forecasts[p]]
      /\ forecasts[p] \in SUBSET Forecast /\ left \in SUBSET forecasts[p]
      /\ \A g, h \in forecasts[p] : g.road = h.road => g = h
      /\ faults \in 0..MaxFaults /\ faults \in Nat
      /\ f \in Forecast /\ f \in forecasts[p]
  BY <1>2, PSame DEF PInv
<1>4. faults' \in 0..MaxFaults /\ faults <= faults' /\ faults' \in Nat
  BY <1>1, <1>3, PredictorAssumption DEF Fault
<1>5. row \in Prediction /\ row.ts = pnow[p] /\ row.road = f.road
  BY <1>3 DEF RowFor, Forecast, Prediction
<1> HIDE DEF row
<1>6. /\ predictions' \subseteq Prediction
      /\ \A old \in predictions : \E new \in predictions' : new.ts = old.ts /\ new.road = old.road
      /\ faults' = faults => row \in predictions'
  <2>1. predictions \subseteq Prediction
    BY DEF PInv, TypeOK
  <2>2. Upserted(predictions, row) \subseteq Prediction
    BY <1>5, <2>1 DEF Upserted
  <2>3. \A old \in predictions : \E new \in predictions' :
            new.ts = old.ts /\ new.road = old.road
    BY <1>1, PUpsertKeeps
  <2>4. faults' = faults => row \in predictions'
    BY <1>1, <1>3, PUpsertKeeps DEF Fault
  <2> QED
    BY <1>1, <2>1, <2>2, <2>3, <2>4
<1>7. (label = "store") <=> (left # {})
  OBVIOUS
<1> HIDE DEF label, left
<1>only. /\ POnly(p) /\ ppc'[p] = label /\ pnow'[p] = pnow[p]
      /\ forecasts'[p] = forecasts[p] /\ pending'[p] = left
  BY <1>1, <1>2, <1>3 DEF POnly, GoTo, PInv, TypeOK
<1>8. /\ TypeOK' /\ pnow'[p] = pnow[p] /\ forecasts'[p] = forecasts[p] /\ pending'[p] = left
      /\ \A q \in Predictors \ {p} :
            ppc'[q] = ppc[q] /\ pnow'[q] = pnow[q] /\ forecasts'[q] = forecasts[q]
            /\ pending'[q] = pending[q]
  BY <1>1, <1>2, <1>3, <1>4, <1>6, <1>7, <1>only, PTypeKept DEF PInv
<1>9. IsFiniteSet(forecasts[p]) /\ Cardinality(PLost(p)) <= faults
  BY <1>1 DEF PInv, PContained
<1>10. IsFiniteSet(PLost(p))
  BY <1>9, FS_Subset DEF PLost
<1>11. PLost(p)' \subseteq PLost(p) \union {f}
  BY <1>6, <1>8 DEF PLost, PStored, left
<1>12. f \in PLost(p)' => faults' = faults + 1
  BY <1>1, <1>5, <1>6, <1>8 DEF PLost, PStored, Fault
<1>13. Cardinality(PLost(p)') <= faults'
  BY <1>3, <1>4, <1>9, <1>10, <1>11, <1>12, LossCounted
<1> QED
  BY <1>4, <1>6, <1>8, <1>9, <1>13, PMoved

\* Each step of a predictor preserves its invariant.
LEMMA PProcess ==
    ASSUME PInv, NEW p \in Predictors, Process(p)
    PROVE  PInv'
BY PCycleOpens, PCycleCloses, PQuery, PStore DEF Process, StoreAny

LEMMA PSteps == PInv /\ [Next]_vars => PInv'
<1> SUFFICES ASSUME PInv, [Next]_vars PROVE PInv'
  OBVIOUS
<1>1. CASE Environment
  BY <1>1, PEnvironment
<1>2. ASSUME NEW p \in Predictors, Process(p) PROVE PInv'
  BY <1>2, PProcess
<1>3. CASE UNCHANGED vars
  <2>1. TypeOK'
    BY <1>3 DEF vars, PInv, TypeOK
  <2>2. PContained'
    BY <1>3 DEF vars, PInv, PContained, PLost, PStored
  <2> QED
    BY <2>1, <2>2 DEF PInv
<1> QED
  BY <1>1, <1>2, <1>3 DEF Next

LEMMA PInitOK == Init => PInv
<1> SUFFICES ASSUME Init PROVE PInv
  OBVIOUS
<1>1. 0 \in 0..MaxClock /\ 0 \in 0..MaxShifts /\ 0 \in 0..MaxFaults
  BY PredictorAssumption
<1> QED
  BY <1>1 DEF Init, PInv, TypeOK, PContained

\* The inductive invariant: at every moment of a cycle, losses are faults.
THEOREM PredictorInvariant == Spec => []PInv
BY PInitOK, PSteps, PTL DEF Spec

\* Every variable keeps its type, and a batch names a road once.
THEOREM PredictorTypeCorrect == Spec => []TypeOK
BY PredictorInvariant, PTL DEF PInv

\* The invariant, of a batch whose rows are all sent.
LEMMA PLossContained == PInv => RowLossContained
<1> SUFFICES ASSUME PInv, NEW p \in Predictors, ppc[p] = "publish"
             PROVE  Cardinality({f \in forecasts[p] :
                        ~ \E row \in predictions : row.ts = pnow[p] /\ row.road = f.road})
                        <= faults
  BY DEF RowLossContained
<1>1. pending[p] = {}
  BY DEF PInv, TypeOK
<1>2. PLost(p) = {f \in forecasts[p] :
          ~ \E row \in predictions : row.ts = pnow[p] /\ row.road = f.road}
  BY <1>1 DEF PLost, PStored
<1> QED
  BY <1>2 DEF PInv, PContained

\* For any number of predictors, roads and faults: a finished batch lacks no more
\* rows than there were faults.
THEOREM PredictorLossContained == Spec => []RowLossContained
BY PLossContained, PredictorInvariant, PTL

(***************************************************************************)
(* The rerouter's decision, as far as its cycle depends on it.             *)
(***************************************************************************)

\* A set of natural numbers has a least element, and a bounded one a greatest.
LEMMA LeastNumber ==
    ASSUME NEW S \in SUBSET Nat, S # {}
    PROVE  \E x \in S : \A y \in S : x <= y
<1> DEFINE less == {ss \in Nat \X Nat : ss[1] < ss[2]}
<1>1. IsWellFoundedOn(less, Nat)
  BY NatLessThanWellFounded DEF OpToRel
<1>2. PICK x \in S : \A y \in S : <<y, x>> \notin less
  BY <1>1, WFMin
<1>3. \A y \in S : ~ (y < x)
  BY <1>2
<1> QED
  BY <1>3

LEMMA GreatestNumber ==
    ASSUME NEW bound \in Nat, NEW S \in SUBSET (0..bound), S # {}
    PROVE  \E x \in S : \A y \in S : y <= x
<1> DEFINE T == {n \in Nat : \A y \in S : y <= n}
<1>1. T \subseteq Nat /\ bound \in T
  OBVIOUS
<1>2. PICK top \in T : \A n \in T : top <= n
  <2> HIDE DEF T
  <2> QED
    BY <1>1, LeastNumber
<1>3. top \in Nat /\ \A y \in S : y <= top
  BY <1>2
<1>4. top \in S
  <2> SUFFICES ASSUME top \notin S PROVE FALSE
    OBVIOUS
  <2>1. \A y \in S : y \in Nat /\ y < top
    BY <1>3
  <2>2. PICK y \in S : y \in Nat /\ y < top
    BY <2>1
  <2>3. top - 1 \in T
    BY <1>3, <2>1, <2>2
  <2> QED
    BY <1>2, <1>3, <2>3
<1> QED
  BY <1>3, <1>4

\* The road of the snapshot has a newest row, and its score is that of the row.
LEMMA NewestRow ==
    ASSUME TypeOK, NEW row \in predictions
    PROVE  \E new \in predictions :
              new.road = row.road
              /\ \A other \in predictions : other.road = row.road => other.ts <= new.ts
<1> DEFINE S == {other.ts : other \in {r \in predictions : r.road = row.road}}
<1>1. S \in SUBSET (0..MaxClock) /\ S # {}
  BY DEF TypeOK, Prediction
<1>2. PICK t \in S : \A y \in S : y <= t
  <2> HIDE DEF S
  <2> QED
    BY <1>1, GreatestNumber, PredictorAssumption
<1> QED
  BY <1>2

\* What the rerouter reads is a snapshot of scores.
LEMMA ReadsSnapshot ==
    ASSUME TypeOK
    PROVE  R!LatestScores(predictions) \in R!Snapshots
<1> DEFINE known == {row.road : row \in predictions}
           newest(r) == CHOOSE row \in predictions : row.road = r
                           /\ \A other \in predictions : other.road = r => other.ts <= row.ts
<1>1. known \in SUBSET Roads
  BY DEF TypeOK, Prediction
<1>2. ASSUME NEW r \in known
      PROVE  newest(r) \in predictions
  <2>1. PICK row \in predictions : row.road = r
    BY <1>2
  <2>2. \E new \in predictions : new.road = r
            /\ \A other \in predictions : other.road = r => other.ts <= new.ts
    BY <2>1, NewestRow
  <2> QED
    BY <2>2
<1>3. \A r \in known : newest(r).score \in 0..One
  <2>1. \A row \in predictions : row.score \in 0..One
    BY IntelligenceAssumption DEF TypeOK, Prediction
  <2> HIDE DEF newest, known
  <2> QED
    BY <1>2, <2>1
<1>4. R!LatestScores(predictions) = [r \in known |-> newest(r).score]
  BY DEF R!LatestScores
<1> HIDE DEF newest, known
<1>5. R!LatestScores(predictions) \in [known -> 0..One]
  BY <1>3, <1>4
<1> QED
  BY <1>1, <1>5 DEF R!Snapshots

\* One batch of advice is typed, sends each route one way, and is finite.
LEMMA BatchOfAdvice ==
    ASSUME NEW s \in R!Snapshots, NEW batch \in R!Recommendations(s)
    PROVE  /\ batch \subseteq R!Advice /\ IsFiniteSet(batch)
           /\ \A a, b \in batch : a.route = b.route => a = b
<1>1. DOMAIN s \subseteq Roads /\ \A r \in DOMAIN s : s[r] \in 0..One
  BY DEF R!Snapshots
<1>2. batch \subseteq R!Candidates(s)
  BY DEF R!Recommendations, R!Certain, R!Borderline
<1>3. ASSUME NEW a \in R!Candidates(s)
      PROVE  /\ a.route \in R!Congested(s) /\ a.alt \in R!BestAlt(a.route, s)
             /\ s[a.alt] <= s[a.route]
             /\ a = [route |-> a.route, alt |-> a.alt, gain |-> s[a.route] - s[a.alt]]
  BY DEF R!Candidates
<1>4. ASSUME NEW r \in R!Congested(s)
      PROVE  /\ r \in DOMAIN s /\ r \in DOMAIN Adjacency /\ Adjacency[r] \in Seq(Roads)
             /\ \A b \in R!BestAlt(r, s) : b \in DOMAIN s /\ s[b] \in 0..One
  BY <1>1, IntelligenceAssumption DEF R!Congested, R!BestAlt, R!Usable
<1>5. ASSUME NEW r \in R!Congested(s), NEW b \in R!BestAlt(r, s), NEW c \in R!BestAlt(r, s)
      PROVE  b = c
  <2> DEFINE at(k) == s[Adjacency[r][k]]
             first(k) == \A m \in R!Usable(r, s) : at(k) < at(m) \/ (at(k) = at(m) /\ k <= m)
  <2>1. PICK n \in R!Usable(r, s) : b = Adjacency[r][n] /\ first(n)
    BY DEF R!BestAlt
  <2>2. PICK m \in R!Usable(r, s) : c = Adjacency[r][m] /\ first(m)
    BY DEF R!BestAlt
  <2>3. n \in Nat /\ m \in Nat /\ at(n) \in Nat /\ at(m) \in Nat
    BY <1>4, <2>1, <2>2, IntelligenceAssumption DEF R!Usable
  <2>4. n = m
    BY <2>1, <2>2, <2>3
  <2> QED
    BY <2>1, <2>2, <2>4
<1>6. \A a \in R!Candidates(s) : a \in R!Advice
  <2> SUFFICES ASSUME NEW a \in R!Candidates(s) PROVE a \in R!Advice
    OBVIOUS
  <2>1. /\ s[a.route] \in 0..One /\ s[a.alt] \in 0..One /\ a.route \in Roads /\ a.alt \in Roads
        /\ s[a.alt] <= s[a.route]
        /\ a = [route |-> a.route, alt |-> a.alt, gain |-> s[a.route] - s[a.alt]]
    BY <1>1, <1>3, <1>4
  <2>2. s[a.route] - s[a.alt] \in 0..One
    BY <2>1, IntelligenceAssumption
  <2> QED
    BY <2>1, <2>2 DEF R!Advice
<1>7. \A a, b \in batch : a.route = b.route => a = b
  <2> SUFFICES ASSUME NEW a \in batch, NEW b \in batch, a.route = b.route PROVE a = b
    OBVIOUS
  <2>1. a.alt = b.alt
    BY <1>2, <1>3, <1>5
  <2> QED
    BY <1>2, <1>3, <2>1
<1>8. IsFiniteSet(batch)
  <2> DEFINE F == [a \in batch |-> a.route]
  <2>1. F \in Injection(batch, Roads)
    BY <1>2, <1>6, <1>7 DEF Injection, IsInjective, R!Advice
  <2> QED
    BY <2>1, FS_Injection, PredictorAssumption
<1> QED
  BY <1>2, <1>6, <1>7, <1>8

(***************************************************************************)
(* The cycle of the rerouter, along the lines of the predictor's.          *)
(***************************************************************************)
RStored(i, a) ==
    \E row \in reroutes : row.ts = rnow[i] /\ row.route = a.route /\ row.alt = a.alt
RLost(i) == {a \in advices[i] \ unsaved[i] : ~ RStored(i, a)}

RContained ==
    \A i \in Rerouters :
        rpc[i] \in {"store", "publish"} =>
            IsFiniteSet(advices[i]) /\ Cardinality(RLost(i)) <= faults

RInv == R!TypeOK /\ RContained

\* No other rerouter moves.
ROnly(i) == /\ rpc' = [rpc EXCEPT ![i] = rpc'[i]]
            /\ rnow' = [rnow EXCEPT ![i] = rnow'[i]]
            /\ advices' = [advices EXCEPT ![i] = advices'[i]]
            /\ unsaved' = [unsaved EXCEPT ![i] = unsaved'[i]]

\* Rows are replaced by rows of the same key, and faults only grow.
RowsKept == \A old \in reroutes : \E new \in reroutes' :
               new.ts = old.ts /\ new.route = old.route /\ new.alt = old.alt
FaultsGrow == faults \in Nat /\ faults' \in Nat /\ faults <= faults'

\* A rerouter that does not move keeps its part of the invariant.
LEMMA RUnmoved ==
    ASSUME RInv, NEW i \in Rerouters, RowsKept, FaultsGrow,
           rpc'[i] = rpc[i], rnow'[i] = rnow[i],
           advices'[i] = advices[i], unsaved'[i] = unsaved[i],
           rpc[i] \in {"store", "publish"}
    PROVE  IsFiniteSet(advices'[i]) /\ Cardinality(RLost(i)') <= faults'
<1>1. IsFiniteSet(advices[i]) /\ Cardinality(RLost(i)) <= faults
  BY DEF RInv, RContained
<1>2. RLost(i)' \subseteq RLost(i) /\ RLost(i) \subseteq advices[i]
  BY DEF RLost, RStored, RowsKept
<1>3. IsFiniteSet(RLost(i))
  BY <1>1, <1>2, FS_Subset
<1>4. Cardinality(RLost(i)') <= faults'
  BY <1>1, <1>2, <1>3, LossKept DEF FaultsGrow
<1> QED
  BY <1>1, <1>4

\* One that moves keeps it when its new state has it.
LEMMA RMoved ==
    ASSUME RInv, NEW i \in Rerouters, ROnly(i), RowsKept, FaultsGrow,
           reroutes' \subseteq R!Reroute,
           rpc'[i] \in Labels, rnow'[i] \in 0..MaxClock,
           advices'[i] \in SUBSET R!Advice, unsaved'[i] \in SUBSET advices'[i],
           rpc'[i] = "store" <=> unsaved'[i] # {},
           \A a, b \in advices'[i] : a.route = b.route => a = b,
           rpc'[i] \in {"store", "publish"} =>
              IsFiniteSet(advices'[i]) /\ Cardinality(RLost(i)') <= faults'
    PROVE  RInv'
<1>1. /\ rpc' \in [Rerouters -> Labels] /\ rnow' \in [Rerouters -> 0..MaxClock]
      /\ advices' \in [Rerouters -> SUBSET R!Advice]
      /\ unsaved' \in [Rerouters -> SUBSET R!Advice]
  BY DEF RInv, R!TypeOK, ROnly, Labels
<1>2. \A j \in Rerouters \ {i} :
          rpc'[j] = rpc[j] /\ rnow'[j] = rnow[j] /\ advices'[j] = advices[j]
          /\ unsaved'[j] = unsaved[j]
  BY DEF RInv, R!TypeOK, ROnly
<1>3. ASSUME NEW j \in Rerouters
      PROVE  /\ unsaved'[j] \subseteq advices'[j]
             /\ rpc'[j] = "store" <=> unsaved'[j] # {}
             /\ \A a, b \in advices'[j] : a.route = b.route => a = b
  <2>1. CASE j = i
    BY <2>1
  <2>2. CASE j # i
    BY <1>2, <2>2 DEF RInv, R!TypeOK
  <2> QED
    BY <2>1, <2>2
<1>4. R!TypeOK'
  BY <1>1, <1>3 DEF R!TypeOK, Labels
<1>5. ASSUME NEW j \in Rerouters, rpc'[j] \in {"store", "publish"}
      PROVE  IsFiniteSet(advices'[j]) /\ Cardinality(RLost(j)') <= faults'
  <2>1. CASE j = i
    BY <1>5, <2>1
  <2>2. CASE j # i
    BY <1>2, <1>5, <2>2, RUnmoved
  <2> QED
    BY <2>1, <2>2
<1> QED
  BY <1>4, <1>5 DEF RInv, RContained

\* The state of one rerouter, read off the type.
LEMMA RState ==
    ASSUME RInv, NEW i \in Rerouters
    PROVE  /\ rpc[i] \in Labels /\ rnow[i] \in 0..MaxClock
           /\ advices[i] \in SUBSET R!Advice /\ unsaved[i] \in SUBSET advices[i]
           /\ rpc[i] = "store" <=> unsaved[i] # {}
           /\ \A a, b \in advices[i] : a.route = b.route => a = b
           /\ rpc = [rpc EXCEPT ![i] = rpc[i]] /\ rnow = [rnow EXCEPT ![i] = rnow[i]]
           /\ advices = [advices EXCEPT ![i] = advices[i]]
           /\ unsaved = [unsaved EXCEPT ![i] = unsaved[i]]
           /\ i \in DOMAIN rpc /\ i \in DOMAIN rnow /\ i \in DOMAIN advices
           /\ i \in DOMAIN unsaved
           /\ reroutes \subseteq R!Reroute
BY DEF RInv, R!TypeOK, Labels

\* A fault is counted, or none is.
LEMMA FaultsMonotone ==
    ASSUME TypeOK, UNCHANGED faults \/ R!Fault \/ Fault
    PROVE  FaultsGrow /\ faults' \in 0..MaxFaults
BY PredictorAssumption DEF TypeOK, R!Fault, Fault, FaultsGrow

\* A rerouter that begins a cycle, returns early from one, ends it or dies.
LEMMA RCycle ==
    ASSUME TypeOK, RInv, NEW i \in Rerouters,
           \/ R!Start(i) \/ R!BeginCycle(i) \/ R!QueryFails(i) \/ R!Publish(i) \/ R!Exit(i)
           \/ (R!Query(i) /\ R!Skip(i))
    PROVE  RInv'
<1>1. UNCHANGED reroutes /\ (UNCHANGED faults \/ R!Fault)
  BY DEF R!Start, R!BeginCycle, R!QueryFails, R!Publish, R!Exit, R!Query
<1>2. PICK label \in {"waiting", "query", "exited"} : rpc' = [rpc EXCEPT ![i] = label]
  BY DEF R!Start, R!BeginCycle, R!QueryFails, R!Publish, R!Exit, R!Skip, R!GoTo
<1>3. PICK now \in 0..MaxClock : rnow' = [rnow EXCEPT ![i] = now]
  <2>1. CASE R!BeginCycle(i)
    BY <2>1 DEF R!BeginCycle, TypeOK
  <2>2. CASE UNCHANGED rnow
    BY <2>2, RState
  <2> QED
    BY <2>1, <2>2 DEF R!Start, R!QueryFails, R!Publish, R!Exit, R!Query, R!Skip
<1>4. /\ advices' = [advices EXCEPT ![i] = advices'[i]] /\ advices'[i] \in {advices[i], {}}
      /\ unsaved' = [unsaved EXCEPT ![i] = {}]
  <2>1. CASE R!Exit(i)
    BY <2>1, RState DEF R!Exit
  <2>2. CASE R!Publish(i)
    BY <2>2, RState DEF R!Publish
  <2>3. CASE rpc[i] # "store" /\ UNCHANGED <<advices, unsaved>>
    BY <2>3, RState
  <2> QED
    BY <2>1, <2>2, <2>3 DEF R!Start, R!BeginCycle, R!QueryFails, R!Query, R!Skip
<1>5. /\ rpc'[i] = label /\ rnow'[i] = now /\ unsaved'[i] = {} /\ ROnly(i)
  BY <1>2, <1>3, <1>4, RState DEF ROnly
<1>6. label \in Labels \ {"store", "publish"}
  BY DEF Labels
<1>7. RowsKept /\ FaultsGrow
  BY <1>1, FaultsMonotone DEF RowsKept
<1>8. reroutes' \subseteq R!Reroute /\ advices'[i] \in SUBSET R!Advice
      /\ \A a, b \in advices'[i] : a.route = b.route => a = b
  BY <1>1, <1>4, RState
<1> QED
  BY <1>5, <1>6, <1>7, <1>8, RMoved

\* A decision gives it a batch of which nothing was tried.
LEMMA RQuery ==
    ASSUME TypeOK, RInv, NEW i \in Rerouters, R!Query(i)
    PROVE  RInv'
<1>1. PICK batch \in R!Recommendations(R!LatestScores(predictions)) :
          IF batch = {} THEN R!Skip(i)
          ELSE /\ advices' = [advices EXCEPT ![i] = batch]
               /\ unsaved' = [unsaved EXCEPT ![i] = batch]
               /\ R!GoTo(i, "store")
               /\ UNCHANGED rnow
  BY DEF R!Query
<1>2. CASE batch = {}
  BY <1>1, <1>2, RCycle
<1>3. CASE batch # {}
  <2>1. /\ batch \subseteq R!Advice /\ IsFiniteSet(batch)
        /\ \A a, b \in batch : a.route = b.route => a = b
    BY ReadsSnapshot, BatchOfAdvice
  <2>2. UNCHANGED <<faults, reroutes>>
    BY DEF R!Query
  <2>3. /\ rpc'[i] = "store" /\ rnow'[i] = rnow[i] /\ advices'[i] = batch
        /\ unsaved'[i] = batch /\ ROnly(i)
    <3>1. /\ rpc' = [rpc EXCEPT ![i] = "store"] /\ UNCHANGED rnow
          /\ advices' = [advices EXCEPT ![i] = batch]
          /\ unsaved' = [unsaved EXCEPT ![i] = batch]
      BY <1>1, <1>3 DEF R!GoTo
    <3>2. rpc'[i] = "store" /\ rnow'[i] = rnow[i] /\ advices'[i] = batch /\ unsaved'[i] = batch
      BY <3>1, RState
    <3> QED
      BY <3>1, <3>2, RState DEF ROnly
  <2>4. RLost(i)' = {}
    BY <2>3 DEF RLost
  <2>5. RowsKept /\ FaultsGrow
    BY <2>2, FaultsMonotone DEF RowsKept
  <2>6. Cardinality(RLost(i)') <= faults'
    BY <2>4, <2>5, FS_EmptySet DEF FaultsGrow
  <2>7. reroutes' \subseteq R!Reroute /\ "store" \in Labels /\ rnow[i] \in 0..MaxClock
    BY <2>2, RState DEF Labels
  <2> QED
    BY <1>3, <2>1, <2>3, <2>5, <2>6, <2>7, RMoved
<1> QED
  BY <1>2, <1>3

\* A row is stored under its key, and no other key loses its row.
LEMMA RUpsertKeeps ==
    ASSUME NEW rows, NEW row
    PROVE  /\ row \in R!Upserted(rows, row)
           /\ \A old \in rows : \E new \in R!Upserted(rows, row) :
                 new.ts = old.ts /\ new.route = old.route /\ new.alt = old.alt
BY DEF R!Upserted

\* A statement: the route has its row then, or a fault more is counted.
LEMMA RStore ==
    ASSUME TypeOK, RInv, NEW i \in Rerouters, NEW a \in unsaved[i],
           R!Store(i, a) \/ \E applied \in BOOLEAN : R!StoreFails(i, a, applied)
    PROVE  RInv'
<1> DEFINE left  == unsaved[i] \ {a}
           label == IF left = {} THEN "publish" ELSE "store"
           row   == R!RowFor(i, a)
<1>1. /\ rpc[i] = "store" /\ R!StepOn(i, left)
      /\ reroutes' \in {reroutes, R!Upserted(reroutes, row)}
      /\ \/ faults' = faults /\ reroutes' = R!Upserted(reroutes, row)
         \/ R!Fault
  BY DEF R!Store, R!StoreFails
<1>2. /\ rpc'[i] = label /\ rnow'[i] = rnow[i] /\ advices'[i] = advices[i]
      /\ unsaved'[i] = left /\ ROnly(i) /\ label \in Labels
      /\ (label = "store") <=> (left # {})
  <2>1. /\ rpc' = [rpc EXCEPT ![i] = label] /\ unsaved' = [unsaved EXCEPT ![i] = left]
        /\ UNCHANGED <<rnow, advices>> /\ label \in Labels
    BY <1>1 DEF R!StepOn, R!GoTo, Labels
  <2> HIDE DEF label, left
  <2>2. rpc'[i] = label /\ rnow'[i] = rnow[i] /\ advices'[i] = advices[i] /\ unsaved'[i] = left
    BY <2>1, RState
  <2>3. ROnly(i)
    BY <2>1, <2>2, RState DEF ROnly
  <2> QED
    BY <2>1, <2>2, <2>3 DEF label
<1>3. FaultsGrow /\ (faults' = faults \/ faults' = faults + 1)
  BY <1>1, FaultsMonotone DEF R!Fault
<1>4. row \in R!Reroute /\ row.ts = rnow[i] /\ row.route = a.route /\ row.alt = a.alt
  <2>1. a \in R!Advice /\ rnow[i] \in 0..MaxClock
    BY RState
  <2> QED
    BY <2>1 DEF R!RowFor, R!Advice, R!Reroute
<1> HIDE DEF row, label, left
<1>5. RowsKept
  BY <1>1, RUpsertKeeps DEF RowsKept
<1>6. faults' = faults => row \in reroutes'
  BY <1>1, <1>3, RUpsertKeeps DEF R!Fault, FaultsGrow
<1>7. reroutes' \subseteq R!Reroute
  BY <1>1, <1>4, RState DEF R!Upserted
<1>8. IsFiniteSet(advices[i]) /\ Cardinality(RLost(i)) <= faults
  BY <1>1 DEF RInv, RContained
<1>9. IsFiniteSet(RLost(i))
  BY <1>8, FS_Subset DEF RLost
<1>10. RLost(i)' \subseteq RLost(i) \union {a}
  BY <1>2, <1>5 DEF RLost, RStored, RowsKept, left
<1>11. a \in RLost(i)' => faults' = faults + 1
  BY <1>2, <1>3, <1>4, <1>6 DEF RLost, RStored
<1>12. Cardinality(RLost(i)') <= faults'
  BY <1>3, <1>8, <1>9, <1>10, <1>11, LossCounted DEF FaultsGrow
<1>13. left \in SUBSET advices[i]
  BY RState DEF left
<1> QED
  BY <1>2, <1>3, <1>5, <1>7, <1>8, <1>12, <1>13, RState, RMoved

\* Each step of a rerouter preserves its invariant.
LEMMA RProcess ==
    ASSUME TypeOK, RInv, NEW i \in Rerouters, R!Process(i)
    PROVE  RInv'
BY RCycle, RQuery, RStore DEF R!Process, R!StoreAny

(***************************************************************************)
(* The two together.  Neither touches the process of the other; what they  *)
(* share is the table the rerouter only reads, the clock and the faults.   *)
(***************************************************************************)
Inv == PInv /\ RInv

\* A step of the predictor leaves rerouters as they are; faults may have grown.
LEMMA RerouterLeftAlone ==
    ASSUME RInv, UNCHANGED rerouterVars, FaultsGrow
    PROVE  RInv'
<1>1. UNCHANGED <<reroutes, rpc, rnow, advices, unsaved>>
  BY DEF rerouterVars
<1>2. R!TypeOK'
  BY <1>1 DEF RInv, R!TypeOK
<1>3. RowsKept
  BY <1>1 DEF RowsKept
<1>4. RContained'
  BY <1>1, <1>3, RUnmoved DEF RContained
<1> QED
  BY <1>2, <1>4 DEF RInv

\* A step of a rerouter leaves the predictors and their table as they are.
LEMMA PredictorLeftAlone ==
    ASSUME PInv, UNCHANGED <<clock, predictions, predictorVars>>, FaultsGrow,
           faults' \in 0..MaxFaults
    PROVE  PInv'
<1>1. UNCHANGED <<clock, window, shifts, predictions, ppc, pnow, forecasts, pending>>
  BY DEF predictorVars
<1>2. TypeOK'
  BY <1>1 DEF PInv, TypeOK
<1>3. ASSUME NEW p \in Predictors, ppc'[p] \in {"store", "publish"}
      PROVE  IsFiniteSet(forecasts'[p]) /\ Cardinality(PLost(p)') <= faults'
  <2>1. IsFiniteSet(forecasts[p]) /\ Cardinality(PLost(p)) <= faults
    BY <1>1, <1>3 DEF PInv, PContained
  <2>2. PLost(p)' = PLost(p) /\ PLost(p) \subseteq forecasts[p] /\ forecasts'[p] = forecasts[p]
    BY <1>1 DEF PLost, PStored
  <2> QED
    BY <2>1, <2>2, FS_Subset, LossKept DEF FaultsGrow
<1> QED
  BY <1>2, <1>3 DEF PInv, PContained

\* The counted faults of any step of the predictor.
LEMMA PredictorFaults ==
    ASSUME TypeOK, Environment \/ \E p \in Predictors : Process(p)
    PROVE  FaultsGrow
<1>1. UNCHANGED faults \/ Fault
  BY DEF Environment, Tick, Shift, Process, Start, BeginCycle, Query,
         QueryFails, StoreAny, Store, StoreFails, Publish, Exit
<1> QED
  BY <1>1, FaultsMonotone

\* And what any step of a rerouter leaves alone.
LEMMA RerouterFaults ==
    ASSUME TypeOK, NEW i \in Rerouters, R!Process(i)
    PROVE  FaultsGrow /\ faults' \in 0..MaxFaults /\ UNCHANGED <<clock, predictions>>
<1>1. (UNCHANGED faults \/ R!Fault) /\ UNCHANGED <<clock, predictions>>
  BY DEF R!Process, R!Start, R!BeginCycle, R!Query, R!QueryFails, R!StoreAny, R!Store,
         R!StoreFails, R!Publish, R!Exit
<1> QED
  BY <1>1, FaultsMonotone

LEMMA StepsPreserve == Inv /\ [BothNext]_bothVars => Inv'
<1> SUFFICES ASSUME Inv, [BothNext]_bothVars PROVE Inv'
  OBVIOUS
<1>1. TypeOK
  BY DEF Inv, PInv
<1>2. CASE ByPredictor(Environment)
  BY <1>1, <1>2, PEnvironment, PredictorFaults, RerouterLeftAlone DEF Inv, ByPredictor
<1>3. ASSUME NEW p \in Predictors, ByPredictor(Process(p))
      PROVE  Inv'
  <2>1. PInv'
    BY <1>3, PProcess DEF Inv, ByPredictor
  <2>2. RInv'
    BY <1>1, <1>3, PredictorFaults, RerouterLeftAlone DEF Inv, ByPredictor
  <2> QED
    BY <2>1, <2>2 DEF Inv
<1>4. ASSUME NEW i \in Rerouters, ByRerouter(R!Process(i))
      PROVE  Inv'
  <2>1. RInv'
    BY <1>1, <1>4, RProcess DEF Inv, ByRerouter
  <2>2. PInv'
    BY <1>1, <1>4, RerouterFaults, PredictorLeftAlone DEF Inv, ByRerouter
  <2> QED
    BY <2>1, <2>2 DEF Inv
<1>5. CASE UNCHANGED bothVars
  <2>1. /\ UNCHANGED <<clock, predictions, predictorVars>> /\ UNCHANGED rerouterVars
        /\ UNCHANGED faults
    BY <1>5 DEF bothVars
  <2>2. FaultsGrow /\ faults' \in 0..MaxFaults
    BY <1>1, <2>1, FaultsMonotone
  <2> QED
    BY <2>1, <2>2, RerouterLeftAlone, PredictorLeftAlone DEF Inv
<1> QED
  BY <1>2, <1>3, <1>4, <1>5 DEF BothNext

\* Both services start idle, on an empty table.
LEMMA InitOK == BothInit => Inv
<1> SUFFICES ASSUME BothInit PROVE Inv
  OBVIOUS
<1>1. PInv
  BY PInitOK DEF BothInit
<1>2. 0 \in 0..MaxClock
  BY PredictorAssumption
<1>3. RInv
  BY <1>2 DEF BothInit, R!Init, RInv, R!TypeOK, RContained
<1> QED
  BY <1>1, <1>3 DEF Inv

\* The inductive invariant of the two services side by side.
THEOREM Invariant == BothSpec => []Inv
BY InitOK, StepsPreserve, PTL DEF BothSpec

\* Every variable of either service keeps its type; a batch of advice sends a
\* route one way.
THEOREM TypeCorrect == BothSpec => []BothTypeOK
<1>1. Inv => BothTypeOK
  BY DEF Inv, PInv, RInv, BothTypeOK
<1> QED
  BY <1>1, Invariant, PTL

\* The invariant, of advice whose rows are all sent.
LEMMA RLossContained == RInv => R!AdviceLossContained
<1> SUFFICES ASSUME RInv, NEW i \in Rerouters, rpc[i] = "publish"
             PROVE  Cardinality({a \in advices[i] : ~ \E row \in reroutes :
                        row.ts = rnow[i] /\ row.route = a.route /\ row.alt = a.alt}) <= faults
  BY SameCardinality DEF R!AdviceLossContained
<1>1. unsaved[i] = {}
  BY DEF RInv, R!TypeOK
<1>2. RLost(i) = {a \in advices[i] : ~ \E row \in reroutes :
          row.ts = rnow[i] /\ row.route = a.route /\ row.alt = a.alt}
  BY <1>1 DEF RLost, RStored
<1> QED
  BY <1>2 DEF RInv, RContained

\* A statement that fails costs one route its advice, whatever the other service
\* does to the table meanwhile.
THEOREM AdviceLossesContained == BothSpec => []AdviceLossContained
<1>1. Inv => AdviceLossContained
  BY RLossContained DEF Inv, AdviceLossContained
<1> QED
  BY <1>1, Invariant, PTL

===============================================================================

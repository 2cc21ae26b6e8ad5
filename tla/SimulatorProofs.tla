--------------------------- MODULE SimulatorProofs ----------------------------
(* Theorems about Simulator, for any roads, connections, requests and faults. *)
EXTENDS Simulator, TLAPS

\* While real data is used, every active road has records of the last answer,
\* coordinates, and a place to read from.
ActiveReadable ==
    usingRealData => \A r \in activeRoads : dataCache[r] = edition /\ r \in roadMeta \cap cursors

\* A loop stands for a connection, a request for a slot of the bound.
Counted == /\ starting \in Nat /\ refreshing \in Nat /\ loops \in Nat
           /\ starting + refreshing <= MaxFetches
           /\ starting + loops <= connects

Inv == TypeOK /\ ActiveReadable /\ Counted /\ OwnReadings /\ OneEdition

\* A request that returns gives its slot back, and perhaps starts the loops.
LEMMA ReturnCounts ==
    ASSUME TypeOK, Counted, FetchReturns, connects' = connects
    PROVE  Counted'
<1>1. connects \in Nat /\ starting \in Nat /\ refreshing \in Nat /\ loops \in Nat
  BY SimulatorAssumption DEF TypeOK, Counted
<1>2. starting + refreshing <= MaxFetches /\ starting + loops <= connects /\ MaxFetches \in Nat
  BY SimulatorAssumption DEF Counted
<1>3. CASE starting > 0 /\ starting' = starting - 1 /\ loops' = loops + 1 /\ refreshing' = refreshing
  BY <1>1, <1>2, <1>3 DEF Counted
<1>4. CASE refreshing > 0 /\ refreshing' = refreshing - 1 /\ starting' = starting /\ loops' = loops
  BY <1>1, <1>2, <1>4 DEF Counted
<1> QED
  BY <1>3, <1>4 DEF FetchReturns

\* What two numbers add up to bounds each of them.
LEMMA Summands ==
    ASSUME NEW m \in Nat, NEW k \in Nat, NEW n \in Nat, m + k <= n
    PROVE  m \in 0..n /\ k \in 0..n
OBVIOUS

\* Counted, they stay in their bounds.
LEMMA CountsInBounds ==
    ASSUME Counted', connects' \in 0..MaxConnects
    PROVE  /\ starting' \in 0..MaxFetches /\ refreshing' \in 0..MaxFetches
           /\ loops' \in 0..MaxConnects
<1>1. /\ starting' \in Nat /\ refreshing' \in Nat /\ loops' \in Nat
      /\ starting' + refreshing' <= MaxFetches /\ starting' + loops' <= connects'
  BY DEF Counted
<1>2. MaxFetches \in Nat /\ MaxConnects \in Nat /\ connects' \in Nat /\ connects' <= MaxConnects
  BY SimulatorAssumption
<1>3. starting' \in 0..MaxFetches /\ refreshing' \in 0..MaxFetches
  BY <1>1, <1>2, Summands
<1>4. loops' \in 0..connects'
  BY <1>1, <1>2, Summands
<1>5. loops' \in 0..MaxConnects
  BY <1>2, <1>4
<1> QED
  BY <1>3, <1>5

\* The caches after the grouping, whole or broken off, have their types.
LEMMA FillType ==
    ASSUME TypeOK, NEW roads \in SUBSET ParisRoads, NEW located \in SUBSET roads,
           Fill(roads, located)
    PROVE  /\ edition' \in Editions
           /\ dataCache' \in [ParisRoads -> Editions \union {None}]
           /\ roadMeta' \subseteq ParisRoads
           /\ \A r \in roads : dataCache'[r] = edition'
<1>1. edition' \in Editions
  BY DEF TypeOK, Fill, Editions
<1> QED
  BY <1>1 DEF Fill

\* What a tick publishes: random readings of the fallback roads, or a located
\* reading of the last answer for each active road.
LEMMA PayloadsOK ==
    ASSUME TypeOK, ActiveReadable,
           NEW r \in IF usingRealData THEN activeRoads ELSE Fallback
    PROVE  GetPayload(r) = [for |-> r, road |-> r, located |-> TRUE,
                            of |-> IF usingRealData THEN edition ELSE None]
<1>1. CASE usingRealData
  <2>1. r \in ParisRoads /\ r \notin Fallback
    BY <1>1, SimulatorAssumption DEF TypeOK
  <2>2. dataCache[r] = edition /\ r \in roadMeta /\ r \in cursors /\ edition # None
    BY <1>1, SimulatorAssumption DEF ActiveReadable, TypeOK, Editions
  <2> QED
    BY <1>1, <2>1, <2>2 DEF GetPayload
<1>2. CASE ~ usingRealData
  BY <1>2 DEF GetPayload
<1> QED
  BY <1>1, <1>2

\* Every step preserves the invariant.
LEMMA StepsPreserve == Inv /\ [Next]_vars => Inv'
<1> SUFFICES ASSUME Inv, [Next]_vars PROVE Inv'
  OBVIOUS
<1> USE DEF Inv
<1>1. CASE Connect
  <2>1. Counted' /\ connects' \in 0..MaxConnects
    BY <1>1, SimulatorAssumption DEF Connect, Counted, TypeOK
  <2>2. /\ starting' \in 0..MaxFetches /\ refreshing' \in 0..MaxFetches
        /\ loops' \in 0..MaxConnects
    BY <2>1, CountsInBounds
  <2> QED
    BY <1>1, <2>1, <2>2 DEF Connect, TypeOK, ActiveReadable, OwnReadings, OneEdition, caches
<1>2. CASE Disconnect
  BY <1>2 DEF Disconnect, TypeOK, ActiveReadable, Counted, OwnReadings, OneEdition, caches
<1>3. CASE Refresh
  <2>1. Counted' /\ connects' \in 0..MaxConnects
    BY <1>3, SimulatorAssumption DEF Refresh, Counted, TypeOK
  <2>2. /\ starting' \in 0..MaxFetches /\ refreshing' \in 0..MaxFetches
        /\ loops' \in 0..MaxConnects
    BY <2>1, CountsInBounds
  <2> QED
    BY <1>3, <2>1, <2>2 DEF Refresh, TypeOK, ActiveReadable, OwnReadings, OneEdition, caches
<1>4. ASSUME NEW roads \in SUBSET ParisRoads, NEW located \in SUBSET roads,
             FetchSucceeds(roads, located)
      PROVE  Inv'
  <2> DEFINE active == roads \cap located
  <2>1. /\ Fill(roads, located)
        /\ activeRoads' = active /\ cursors' = cursors \union active
        /\ usingRealData' = (active # {})
    BY <1>4 DEF FetchSucceeds, Replace, Active, Placed, Usable
  <2>2. Counted' /\ connects' \in 0..MaxConnects
    BY <1>4, ReturnCounts DEF FetchSucceeds, TypeOK
  <2>3. /\ starting' \in 0..MaxFetches /\ refreshing' \in 0..MaxFetches
        /\ loops' \in 0..MaxConnects
    BY <2>2, CountsInBounds
  <2>4. faults' \in 0..MaxFaults
    BY <1>4, SimulatorAssumption DEF FetchSucceeds, TypeOK
  <2>5. /\ edition' \in Editions
        /\ dataCache' \in [ParisRoads -> Editions \union {None}]
        /\ roadMeta' \subseteq ParisRoads
        /\ \A r \in roads : dataCache'[r] = edition'
    BY <2>1, FillType
  <2>6. ActiveReadable'
    BY <2>1, <2>5 DEF ActiveReadable, Fill
  <2>7. sent' = sent /\ online' = online
    BY <1>4 DEF FetchSucceeds
  <2>8. TypeOK'
    BY <2>1, <2>2, <2>3, <2>4, <2>5, <2>7 DEF TypeOK
  <2> QED
    BY <2>2, <2>6, <2>7, <2>8 DEF OwnReadings, OneEdition
<1>5. CASE FetchEmpty
  <2>1. Counted' /\ connects' \in 0..MaxConnects
    BY <1>5, ReturnCounts DEF FetchEmpty, TypeOK
  <2>2. /\ starting' \in 0..MaxFetches /\ refreshing' \in 0..MaxFetches
        /\ loops' \in 0..MaxConnects
    BY <2>1, CountsInBounds
  <2>3. faults' \in 0..MaxFaults
    BY <1>5, SimulatorAssumption DEF FetchEmpty, TypeOK
  <2> QED
    BY <1>5, <2>1, <2>2, <2>3
       DEF FetchEmpty, TypeOK, ActiveReadable, OwnReadings, OneEdition, caches
<1>6. ASSUME NEW roads \in SUBSET ParisRoads, NEW located \in SUBSET roads,
             FetchFails(roads, located)
      PROVE  Inv'
  <2>1. Counted' /\ connects' \in 0..MaxConnects
    BY <1>6, ReturnCounts DEF FetchFails, TypeOK
  <2>2. /\ starting' \in 0..MaxFetches /\ refreshing' \in 0..MaxFetches
        /\ loops' \in 0..MaxConnects
    BY <2>1, CountsInBounds
  <2>3. faults' \in 0..MaxFaults
    BY <1>6, SimulatorAssumption DEF FetchFails, TypeOK
  <2>4. /\ edition' \in Editions
        /\ dataCache' \in [ParisRoads -> Editions \union {None}]
        /\ roadMeta' \subseteq ParisRoads
    BY <1>6, FillType DEF FetchFails, Replace, TypeOK
  <2>5. /\ usingRealData' = FALSE /\ UNCHANGED <<online, sent>>
        /\ activeRoads' \subseteq ParisRoads /\ cursors' \subseteq ParisRoads
    BY <1>6 DEF FetchFails, Replace, Active, Placed, TypeOK
  <2> QED
    BY <2>1, <2>2, <2>3, <2>4, <2>5 DEF TypeOK, ActiveReadable, OwnReadings, OneEdition
<1>7. CASE Publish
  <2> DEFINE asked == IF usingRealData THEN activeRoads ELSE Fallback
  <2>1. asked \subseteq Roads
    BY DEF TypeOK, Roads
  <2>2. \A m \in sent' : \E r \in asked :
            m = [for |-> r, road |-> r, located |-> TRUE,
                 of |-> IF usingRealData THEN edition ELSE None]
    BY <1>7, PayloadsOK DEF Publish
  <2> HIDE DEF asked
  <2>3. sent' \subseteq Payloads
    <3>1. \A r \in Roads : \A of \in Editions \union {None} :
              [for |-> r, road |-> r, located |-> TRUE, of |-> of] \in Payloads
      BY DEF Payloads
    <3>2. (IF usingRealData THEN edition ELSE None) \in Editions \union {None}
      BY DEF TypeOK
    <3> QED
      BY <2>1, <2>2, <3>1, <3>2
  <2>4. OwnReadings' /\ OneEdition'
    BY <2>2 DEF OwnReadings, OneEdition
  <2> QED
    BY <1>7, <2>3, <2>4 DEF Publish, TypeOK, ActiveReadable, Counted, caches
<1>8. CASE UNCHANGED vars
  BY <1>8 DEF vars, caches, TypeOK, ActiveReadable, Counted, OwnReadings, OneEdition
<1> QED
  BY <1>1, <1>2, <1>3, <1>4, <1>5, <1>6, <1>7, <1>8 DEF Next, Fetch

\* The inductive invariant of a process: what it publishes from can be read.
THEOREM Invariant == Spec => []Inv
<1>1. Init => Inv
  <2> SUFFICES ASSUME Init PROVE Inv
    OBVIOUS
  <2>1. Counted /\ ActiveReadable /\ OwnReadings /\ OneEdition
    BY SimulatorAssumption DEF Init, Counted, ActiveReadable, OwnReadings, OneEdition
  <2>2. TypeOK
    <3>1. dataCache \in [ParisRoads -> Editions \union {None}]
      BY DEF Init
    <3>2. 0 \in 0..MaxConnects /\ 0 \in 0..MaxFaults /\ 0 \in 0..MaxFetches
      BY SimulatorAssumption
    <3> QED
      BY <3>1, <3>2 DEF Init, TypeOK, Editions
  <2> QED
    BY <2>1, <2>2 DEF Inv
<1> QED
  BY <1>1, StepsPreserve, PTL DEF Spec

\* Every variable keeps its type; in particular, no tick throws.
THEOREM TypeCorrect == Spec => []TypeOK
BY Invariant, PTL DEF Inv

\* However many loops, refreshes and failures: a reading is of the road it is
\* published for, and has coordinates.
THEOREM ReadingsOwn == Spec => []OwnReadings
BY Invariant, PTL DEF Inv

\* One tick publishes from one answer.
THEOREM TicksOfOneEdition == Spec => []OneEdition
BY Invariant, PTL DEF Inv

=============================================================================

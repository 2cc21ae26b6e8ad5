------------------------------ MODULE Simulator ------------------------------
(***************************************************************************)
(* simulator/index.js: fetches counts from Paris Open Data, keeps them in  *)
(* caches, and publishes one reading per road at every tick, random ones   *)
(* when it has no data.                                                    *)
(*                                                                         *)
(* Node runs one callback at a time, so an action is what happens between  *)
(* two awaits.  Each "connect" of the MQTT client fetches and then starts  *)
(* a publish loop and a refresh loop of its own.                           *)
(***************************************************************************)
EXTENDS Naturals, FiniteSets

CONSTANTS ParisRoads,    \* roads the API may report
          Fallback,      \* FALLBACK_ROADS
          FirstFallback, \* FALLBACK_ROADS[0]
          None,          \* no entry
          Throws,        \* stands for a payload that cannot be made: getPayload throws
          MaxConnects,   \* bound: connections to the broker
          MaxFetches,    \* bound: requests to the API under way at once
          MaxFaults      \* bound: API answers that are not usable

ASSUME SimulatorAssumption == /\ MaxConnects \in Nat /\ MaxFetches \in Nat /\ MaxFaults \in Nat
                              /\ FirstFallback \in Fallback
                              /\ ParisRoads \cap Fallback = {}
                              /\ {None, Throws} \cap {0, 1} = {} /\ None # Throws

VARIABLES online,        \* the MQTT client is connected
          connects, faults,
          starting,      \* "connect" handlers that await their first fetch
          refreshing,    \* refreshes that await their fetch
          loops,         \* publish loops running, and as many refresh loops
          usingRealData,
          edition,       \* tells an API answer from the one before (history only)
          dataCache,     \* [ParisRoads -> edition of its records, or None]
          roadMeta,      \* roads with coordinates
          activeRoads,
          cursors,       \* roads with a place in their records
          sent           \* what the last tick published, for each road

caches == <<usingRealData, edition, dataCache, roadMeta, activeRoads, cursors>>
vars == <<online, connects, faults, starting, refreshing, loops, caches, sent>>

Editions == {0, 1}
Roads    == ParisRoads \union Fallback
Payloads == [for : Roads, road : Roads, of : Editions \union {None}, located : BOOLEAN]

Init ==
    /\ online = FALSE /\ connects = 0 /\ faults = 0
    /\ starting = 0 /\ refreshing = 0 /\ loops = 0
    /\ usingRealData = FALSE /\ edition = 0
    /\ dataCache = [r \in ParisRoads |-> None]
    /\ roadMeta = {} /\ activeRoads = {} /\ cursors = {}
    /\ sent = {}

-----------------------------------------------------------------------------
(* mqtt.connect with reconnectPeriod, and its "connect" event. *)

Connect == /\ ~online /\ connects < MaxConnects /\ starting + refreshing < MaxFetches
           /\ online' = TRUE
           /\ connects' = connects + 1
           /\ starting' = starting + 1
           /\ UNCHANGED <<faults, refreshing, loops, caches, sent>>

Disconnect == /\ online
              /\ online' = FALSE
              /\ UNCHANGED <<connects, faults, starting, refreshing, loops, caches, sent>>

\* setInterval(fetchParisData, refreshIntervalMs) of some refresh loop fires.
Refresh == /\ loops > 0 /\ starting + refreshing < MaxFetches
           /\ refreshing' = refreshing + 1
           /\ UNCHANGED <<online, connects, faults, starting, loops, caches, sent>>

\* One of the requests under way returns; after its first fetch a "connect"
\* handler starts its loops, whatever the fetch brought.
FetchReturns ==
    \/ /\ starting > 0
       /\ starting' = starting - 1 /\ loops' = loops + 1
       /\ UNCHANGED refreshing
    \/ /\ refreshing > 0
       /\ refreshing' = refreshing - 1
       /\ UNCHANGED <<starting, loops>>

-----------------------------------------------------------------------------
(* fetchParisData, from the answer on: it runs without a pause. *)

\* The caches are cleared and filled, by sensor, with the records of the answer.
Fill(roads, located) ==
    /\ edition' = 1 - edition
    /\ dataCache' = [r \in ParisRoads |-> IF r \in roads THEN 1 - edition ELSE None]
    /\ roadMeta' = located

Active_Slip(roads, located) == roads
\* Only roads with coordinates are published.
Active(roads, located) == roads \cap located

\* An active road starts at its first record; a road no longer active keeps its place.
Placed(active) == cursors \union active

Usable_Slip(active) == usingRealData
Usable(active) == active # {}

\* All records are in the caches, and the active roads are those of the answer.
Replace(roads, located) ==
    /\ Fill(roads, located)
    /\ activeRoads' = Active(roads, located)
    /\ cursors' = Placed(Active(roads, located))

FetchSucceeds(roads, located) ==
    /\ FetchReturns
    /\ Replace(roads, located)
    /\ usingRealData' = Usable(Active(roads, located))
    /\ Active(roads, located) = {} => faults < MaxFaults
    /\ faults' = IF Active(roads, located) = {} THEN faults + 1 ELSE faults
    /\ UNCHANGED <<online, connects, sent>>

\* No records: the previous cache is kept.
FetchEmpty == /\ FetchReturns
              /\ faults < MaxFaults /\ faults' = faults + 1
              /\ UNCHANGED <<online, connects, caches, sent>>

FetchFails_Slip(roads, located) ==
    /\ FetchReturns
    /\ faults < MaxFaults /\ faults' = faults + 1
    /\ \/ UNCHANGED <<edition, dataCache, roadMeta>>
       \/ Fill(roads, located)
    /\ UNCHANGED <<online, connects, usingRealData, activeRoads, cursors, sent>>

\* The catch: the request failed, a record broke the grouping off after some
\* roads, or coordinates that are no numbers broke off the log of the active
\* roads.  Random data until a later fetch succeeds.
FetchFails(roads, located) ==
    /\ FetchReturns
    /\ faults < MaxFaults /\ faults' = faults + 1
    /\ \/ UNCHANGED <<edition, dataCache, roadMeta, activeRoads, cursors>>
       \/ Fill(roads, located) /\ UNCHANGED <<activeRoads, cursors>>
       \/ Replace(roads, located) /\ Usable(Active(roads, located))
    /\ usingRealData' = FALSE
    /\ UNCHANGED <<online, connects, sent>>

-----------------------------------------------------------------------------
\* getPayload: a reading of the road asked for; random when there is no data; of
\* the first fallback road when the road is not one of those either.  A road
\* with records and no cursor makes it throw.
GetPayload(r) ==
    LET random(road) == [for |-> r, road |-> road, of |-> None, located |-> TRUE]
    IN  CASE r \in Fallback -> random(r)
          [] r \notin Fallback /\ (~usingRealData \/ dataCache[r] = None) -> random(FirstFallback)
          [] OTHER -> IF r \in cursors
                      THEN [for |-> r, road |-> r, of |-> dataCache[r], located |-> r \in roadMeta]
                      ELSE [random(r) EXCEPT !.of = Throws]

\* A publish loop ticks.  Offline, mqtt.js keeps the messages for later.
Publish == /\ loops > 0
           /\ sent' = {GetPayload(r) : r \in IF usingRealData THEN activeRoads ELSE Fallback}
           /\ UNCHANGED <<online, connects, faults, starting, refreshing, loops, caches>>

\* What an answer may hold: some roads, some of them with coordinates.
Fetch == \/ \E roads \in (SUBSET ParisRoads) \ {{}} : \E located \in SUBSET roads :
               FetchSucceeds(roads, located) \/ FetchFails(roads, located)
         \/ FetchEmpty

Next == Connect \/ Disconnect \/ Refresh \/ Fetch \/ Publish

Spec == Init /\ [][Next]_vars

\* Requests to the API return, with an answer or an error, and timers fire.
Fairness == WF_vars(Fetch) /\ WF_vars(Refresh) /\ WF_vars(Publish)

FairSpec == Spec /\ Fairness

-----------------------------------------------------------------------------
(* What must hold. *)

\* Every variable has its type, and no tick throws.
TypeOK ==
    /\ online \in BOOLEAN /\ usingRealData \in BOOLEAN /\ edition \in Editions
    /\ connects \in 0..MaxConnects /\ faults \in 0..MaxFaults
    /\ starting \in 0..MaxFetches /\ refreshing \in 0..MaxFetches /\ loops \in 0..MaxConnects
    /\ dataCache \in [ParisRoads -> Editions \union {None}]
    /\ roadMeta \subseteq ParisRoads /\ activeRoads \subseteq ParisRoads
    /\ cursors \subseteq ParisRoads
    /\ sent \subseteq Payloads

\* A reading is published under the road it was asked for, and with coordinates
\* (the collector registers a road by them), although a refresh may have failed
\* half way between two ticks.
OwnReadings == \A m \in sent : m.road = m.for /\ m.located

\* One tick never mixes two answers of the API, nor real with random readings.
OneEdition == \A m, n \in sent : m.of = n.of

\* Once the API answers usably, real readings are back for good, whatever failed
\* before and however many loops there are.
RealDataReturns == (<>[](loops > 0)) => <>[](\A m \in sent : m.of # None)
=============================================================================

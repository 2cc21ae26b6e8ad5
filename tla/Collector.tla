----------------------------- MODULE Collector ------------------------------
(***************************************************************************)
(* services/collector: the process that takes sensor readings from MQTT,   *)
(* stores them in TimescaleDB and relays them to Redis.                    *)
(*                                                                         *)
(* Several instances may run: the Deployment keeps one replica and uses    *)
(* the default rolling update, which starts the new pod before it stops    *)
(* the old one.  Each instance has one MQTT client whose messages are      *)
(* handled in order by one goroutine; its statements reach the shared      *)
(* tables one by one, interleaved with those of the other instance.        *)
(***************************************************************************)
EXTENDS Naturals, Sequences, FiniteSets

CONSTANTS Instances,   \* collector processes
          Sensors, RoadIds, Times,
          Missing,     \* an empty field, or a timestamp that does not parse
          Payloads,    \* the messages sensors may publish
          MaxSent,     \* bound: messages published in a behaviour
          MaxCopies    \* bound: 1 + go-redis's retries of one PUBLISH

Payload == [json : BOOLEAN, ts : Times \union {Missing},
            sensor : Sensors \union {Missing}, road : RoadIds \union {Missing},
            coords : BOOLEAN]

ASSUME CollectorAssumption == /\ MaxSent \in Nat
                              /\ MaxCopies \in Nat
                              /\ Missing \notin Times \union Sensors \union RoadIds
                              /\ Payloads \subseteq Payload

VARIABLES
    topic,         \* every message published to the broker, in order
    link,          \* [Instances -> state of the process and its MQTT client]
    stopping,      \* [Instances -> SIGTERM received: ctx is cancelled]
    redisClient,   \* [Instances -> redisClient # nil]
    inbox,         \* [Instances -> messages received and not yet handled]
    pc,            \* [Instances -> where processMessage is]
    cur, ts,       \* [Instances -> the message in hand (0: none) and its time]
    msgsReceived, msgsStored, msgsFailed,    \* the Prometheus counters
    traffic_raw,   \* rows [ts, sensor, seq]; seq is the message stored
    roads,         \* [RoadIds -> message whose metadata the row holds, or 0]
    live           \* everything relayed on cityflow:live so far
\* A message is known by its position in topic.

clientVars  == <<link, stopping, redisClient>>
handlerVars == <<inbox, pc, cur, ts>>
counterVars == <<msgsReceived, msgsStored, msgsFailed>>
tableVars   == <<traffic_raw, roads>>
vars == <<topic, link, stopping, redisClient, inbox, pc, cur, ts,
          msgsReceived, msgsStored, msgsFailed, traffic_raw, roads, live>>

Links     == {"exited", "connecting", "connected", "deaf", "subscribed"}
Labels    == {"idle", "insert", "upsert", "publish"}
Positions == 1..MaxSent
Key       == [ts : Times, sensor : Sensors]
Row       == [ts : Times, sensor : Sensors, seq : Positions]
Relayed   == [by : Instances, seq : Positions, key : Key]

\* traffic_raw, roads and live belong to TimescaleDB and Redis and outlive any
\* instance; the counters live in the process.
Init ==
    /\ topic = << >>
    /\ link = [i \in Instances |-> "exited"]
    /\ stopping = [i \in Instances |-> FALSE]
    /\ redisClient = [i \in Instances |-> FALSE]
    /\ inbox = [i \in Instances |-> << >>]
    /\ pc = [i \in Instances |-> "idle"]
    /\ cur = [i \in Instances |-> 0]
    /\ ts = [i \in Instances |-> Missing]
    /\ msgsReceived = [i \in Instances |-> 0]
    /\ msgsStored = [i \in Instances |-> 0]
    /\ msgsFailed = [i \in Instances |-> 0]
    /\ traffic_raw = {}
    /\ roads = [r \in RoadIds |-> 0]
    /\ live = << >>

-----------------------------------------------------------------------------
(* Definitions whose names end in _Slip are what a plausible mistake would make *)
(* of the definition of that name; no action uses them.                         *)

-----------------------------------------------------------------------------
(* The broker and the sensors. *)

\* A sensor publishes one message.  QoS 0 and clean sessions: the broker hands
\* it at most once to the clients subscribed now, and may lose it for any.
Publish(body, readers) ==
    /\ Len(topic) < MaxSent
    /\ topic' = Append(topic, body)
    /\ inbox' = [i \in Instances |-> IF i \in readers THEN Append(inbox[i], Len(topic) + 1)
                                                      ELSE inbox[i]]
    /\ UNCHANGED <<clientVars, pc, cur, ts, counterVars, tableVars, live>>

-----------------------------------------------------------------------------
(* The process and its MQTT client: main. *)

\* main up to client.Connect.  Without a database the process ends here
\* (log.Fatalf).  Redis is tried once: if its ping fails, or no URL is
\* configured, the client stays nil for the life of the process.
Start(i, redis) ==
    /\ link[i] = "exited"
    /\ link' = [link EXCEPT ![i] = "connecting"]
    /\ redisClient' = [redisClient EXCEPT ![i] = redis]
    /\ UNCHANGED <<topic, stopping, handlerVars, counterVars, tableVars, live>>

\* The initial connection (SetConnectRetry) or a reconnection (SetAutoReconnect).
Connect(i) ==
    /\ link[i] = "connecting"
    /\ link' = [link EXCEPT ![i] = "connected"]
    /\ UNCHANGED <<topic, stopping, redisClient, handlerVars, counterVars, tableVars, live>>

\* OnConnect.  A subscription the broker refuses is logged and not tried again:
\* the client stays connected and hears nothing until the connection is lost.
Subscribe(i, granted) ==
    /\ link[i] = "connected"
    /\ link' = [link EXCEPT ![i] = IF granted THEN "subscribed" ELSE "deaf"]
    /\ UNCHANGED <<topic, stopping, redisClient, handlerVars, counterVars, tableVars, live>>

\* What the client had read from the socket is still handled; the rest is gone.
ConnectionLost(i, kept) ==
    /\ link[i] \in {"connected", "deaf", "subscribed"}
    /\ link' = [link EXCEPT ![i] = "connecting"]
    /\ inbox' = [inbox EXCEPT ![i] = SubSeq(inbox[i], 1, kept)]
    /\ UNCHANGED <<topic, stopping, redisClient, pc, cur, ts, counterVars, tableVars, live>>

\* SIGTERM cancels ctx, the context of every statement processMessage issues.
Terminate(i) ==
    /\ link[i] # "exited"
    /\ ~stopping[i]
    /\ stopping' = [stopping EXCEPT ![i] = TRUE]
    /\ UNCHANGED <<topic, link, redisClient, handlerVars, counterVars, tableVars, live>>

\* The process ends, after SIGTERM or in a crash, wherever its handler is: the
\* queue, the message in hand and the counters are gone.
Exit(i) ==
    /\ link[i] # "exited"
    /\ link' = [link EXCEPT ![i] = "exited"]
    /\ stopping' = [stopping EXCEPT ![i] = FALSE]
    /\ redisClient' = [redisClient EXCEPT ![i] = FALSE]
    /\ inbox' = [inbox EXCEPT ![i] = << >>]
    /\ pc' = [pc EXCEPT ![i] = "idle"]
    /\ cur' = [cur EXCEPT ![i] = 0]
    /\ ts' = [ts EXCEPT ![i] = Missing]
    /\ msgsReceived' = [msgsReceived EXCEPT ![i] = 0]
    /\ msgsStored' = [msgsStored EXCEPT ![i] = 0]
    /\ msgsFailed' = [msgsFailed EXCEPT ![i] = 0]
    /\ UNCHANGED <<topic, tableVars, live>>

-----------------------------------------------------------------------------
(* processMessage, one action per statement that leaves the process. *)

\* The message carries a reading the collector accepts.
Complete(body) == body.json /\ body.sensor # Missing /\ body.road # Missing

Timestamp_Slip(body, now) == now
\* The reading's own time when it parses, the collector's clock otherwise.
Timestamp(body, now) == IF body.ts # Missing THEN body.ts ELSE now

NextUp_Slip(q) == Len(q)
\* The message the default publish handler is called with: paho runs it in the
\* order of arrival.
NextUp(q) == 1

Without(q, n) == SubSeq(q, 1, n - 1) \o SubSeq(q, n + 1, Len(q))

CountFailed_Slip(i) == UNCHANGED msgsFailed
\* A message that is rejected or could not be stored is counted as failed.
CountFailed(i) == msgsFailed' = [msgsFailed EXCEPT ![i] = @ + 1]

GoTo(i, label) == pc' = [pc EXCEPT ![i] = label] /\ UNCHANGED <<cur, ts>>

Finish(i) == /\ pc' = [pc EXCEPT ![i] = "idle"]
             /\ cur' = [cur EXCEPT ![i] = 0]
             /\ ts' = [ts EXCEPT ![i] = Missing]

\* Decoding and validation: an incomplete message is rejected.
Receive(i, now) ==
    /\ pc[i] = "idle"
    /\ inbox[i] # << >>
    /\ LET n    == NextUp(inbox[i])
           seq  == inbox[i][n]
           body == topic[seq]
       IN  /\ inbox' = [inbox EXCEPT ![i] = Without(inbox[i], n)]
           /\ \/ /\ ~Complete(body)
                 /\ CountFailed(i)
                 /\ UNCHANGED <<pc, cur, ts>>
              \/ /\ Complete(body)
                 /\ pc' = [pc EXCEPT ![i] = "insert"]
                 /\ cur' = [cur EXCEPT ![i] = seq]
                 /\ ts' = [ts EXCEPT ![i] = Timestamp(body, now)]
                 /\ UNCHANGED msgsFailed
    /\ msgsReceived' = [msgsReceived EXCEPT ![i] = @ + 1]
    /\ UNCHANGED <<topic, clientVars, msgsStored, tableVars, live>>

\* INSERT INTO traffic_raw ... ON CONFLICT (ts, sensor_id) DO NOTHING
KeyOfRow(row) == [ts |-> row.ts, sensor |-> row.sensor]
Inserted_Slip(rows, row) == {old \in rows : KeyOfRow(old) # KeyOfRow(row)} \union {row}
Inserted(rows, row) == IF \E old \in rows : KeyOfRow(old) = KeyOfRow(row)
                       THEN rows ELSE rows \union {row}

RowInHand(i) == [ts |-> ts[i], sensor |-> topic[cur[i]].sensor, seq |-> cur[i]]

\* Where processMessage goes once the road metadata is written, and once the
\* reading is stored: without a Redis client the message ends there.
Relay(i) == IF redisClient[i] THEN GoTo(i, "publish") ELSE Finish(i)
AfterInsert(i) == IF topic[cur[i]].coords THEN GoTo(i, "upsert") ELSE Relay(i)

\* The statement returns without error, whether it added a row or met one with
\* the same key; msgsStored counts both.
Insert(i) ==
    /\ pc[i] = "insert"
    /\ ~stopping[i]
    /\ traffic_raw' = Inserted(traffic_raw, RowInHand(i))
    /\ msgsStored' = [msgsStored EXCEPT ![i] = @ + 1]
    /\ AfterInsert(i)
    /\ UNCHANGED <<topic, clientVars, inbox, msgsReceived, msgsFailed, roads, live>>

InsertFailsRelays_Slip(i, applied) ==
    /\ pc[i] = "insert"
    /\ CountFailed(i)
    /\ Relay(i)
    /\ UNCHANGED <<topic, clientVars, inbox, msgsReceived, msgsStored, tableVars, live>>

InsertFailsRetries_Slip(i, applied) ==
    /\ pc[i] = "insert"
    /\ traffic_raw' = IF applied THEN Inserted(traffic_raw, RowInHand(i)) ELSE traffic_raw
    /\ UNCHANGED <<topic, clientVars, handlerVars, counterVars, roads, live>>

\* The statement fails and the message is dropped.  A connection that breaks
\* after the commit, or ctx cancelled in flight, leaves the row behind.
InsertFails(i, applied) ==
    /\ pc[i] = "insert"
    /\ traffic_raw' = IF applied THEN Inserted(traffic_raw, RowInHand(i)) ELSE traffic_raw
    /\ CountFailed(i)
    /\ Finish(i)
    /\ UNCHANGED <<topic, clientVars, inbox, msgsReceived, msgsStored, roads, live>>

\* The road row is overwritten by whichever statement comes last; an error is
\* ignored (and, as above, does not tell whether the row was written).
UpsertRoad(i, applied) ==
    /\ pc[i] = "upsert"
    /\ roads' = IF applied THEN [roads EXCEPT ![topic[cur[i]].road] = cur[i]] ELSE roads
    /\ Relay(i)
    /\ UNCHANGED <<topic, clientVars, inbox, counterVars, traffic_raw, live>>

CopiesRelayed(i) == {n \in DOMAIN live : live[n].by = i /\ live[n].seq = cur[i]}

\* Redis relays the message.  go-redis repeats a PUBLISH whose reply it did not
\* get, so the same message may be relayed again before the call returns.
PublishLive(i) ==
    /\ pc[i] = "publish"
    /\ Cardinality(CopiesRelayed(i)) < MaxCopies
    /\ live' = Append(live, [by |-> i, seq |-> cur[i], key |-> KeyOfRow(RowInHand(i))])
    /\ UNCHANGED <<topic, clientVars, handlerVars, counterVars, tableVars>>

\* The call returns; its error is ignored.
PublishReturns(i) ==
    /\ pc[i] = "publish"
    /\ Finish(i)
    /\ UNCHANGED <<topic, clientVars, inbox, counterVars, tableVars, live>>

-----------------------------------------------------------------------------
Lifecycle(i) == \/ \E redis \in BOOLEAN : Start(i, redis)
                \/ Connect(i)
                \/ \E granted \in BOOLEAN : Subscribe(i, granted)
                \/ \E kept \in 0..Len(inbox[i]) : ConnectionLost(i, kept)
                \/ Terminate(i)
                \/ Exit(i)

ProcessMessage(i) == \/ \E now \in Times : Receive(i, now)
                     \/ Insert(i)
                     \/ \E applied \in BOOLEAN : InsertFails(i, applied)
                     \/ \E applied \in BOOLEAN : UpsertRoad(i, applied)
                     \/ PublishLive(i)
                     \/ PublishReturns(i)

Next == \/ \E body \in Payloads :
              \E readers \in SUBSET {i \in Instances : link[i] = "subscribed"} :
                  Publish(body, readers)
        \/ \E i \in Instances : Lifecycle(i) \/ ProcessMessage(i)

Spec == Init /\ [][Next]_vars

\* The handler goroutine runs, and each statement it issues returns sooner or
\* later, with a result or an error.  Nothing is assumed of the broker, the
\* sensors, the connection or the orchestrator.
Fairness == \A i \in Instances :
    /\ WF_vars(\E now \in Times : Receive(i, now))
    /\ WF_vars(Insert(i) \/ \E applied \in BOOLEAN : InsertFails(i, applied))
    /\ WF_vars(\E applied \in BOOLEAN : UpsertRoad(i, applied))
    /\ WF_vars(PublishReturns(i))

FairSpec == Spec /\ Fairness

-----------------------------------------------------------------------------
(* What must hold. *)

ClientTypeOK  == /\ link \in [Instances -> Links]
                 /\ stopping \in [Instances -> BOOLEAN]
                 /\ redisClient \in [Instances -> BOOLEAN]
HandlerTypeOK == /\ inbox \in [Instances -> Seq(Positions)]
                 /\ pc \in [Instances -> Labels]
                 /\ cur \in [Instances -> 0..MaxSent]
                 /\ ts \in [Instances -> Times \union {Missing}]
CounterTypeOK == /\ msgsReceived \in [Instances -> Nat]
                 /\ msgsStored \in [Instances -> Nat]
                 /\ msgsFailed \in [Instances -> Nat]
StoreTypeOK   == /\ traffic_raw \subseteq Row
                 /\ roads \in [RoadIds -> 0..MaxSent]
                 /\ live \in Seq(Relayed)

\* What waits in a queue was published; what is in hand is complete and timed.
InboxKnown ==
    \A i \in Instances : \A n \in DOMAIN inbox[i] : inbox[i][n] <= Len(topic)
ReadingInHand ==
    \A i \in Instances : pc[i] # "idle" =>
        /\ cur[i] \in 1..Len(topic)
        /\ ts[i] # Missing
        /\ Complete(topic[cur[i]])

\* Every variable has its type, and a handler between two statements holds a
\* complete reading and its time: no row with an empty key or the zero time is
\* ever sent to the database.
TypeOK ==
    /\ topic \in Seq(Payloads) /\ Len(topic) <= MaxSent
    /\ ClientTypeOK /\ HandlerTypeOK /\ CounterTypeOK /\ StoreTypeOK
    /\ InboxKnown /\ ReadingInHand

\* Each message an instance was handed is counted exactly once, as stored or as
\* failed, as soon as the fate of its row is known; so a dashboard that compares
\* the three counters of processMessage sees every loss inside the process.
CountersBalance ==
    \A i \in Instances :
        msgsReceived[i] = msgsStored[i] + msgsFailed[i]
                          + (IF pc[i] = "insert" THEN 1 ELSE 0)

\* A message that carries its own time is stored at most once, although a
\* rolling update hands it to two instances, whose INSERTs interleave and may
\* report failure after they took effect.
StampedStoredOnce ==
    \A m, n \in traffic_raw :
        m.seq = n.seq /\ topic[m.seq].ts # Missing => m = n

\* ON CONFLICT DO NOTHING: the row of a (ts, sensor_id) stays that of the first
\* reading stored under it, whatever is repeated, late or conflicting.
FirstReadingKept ==
    [][\A row \in traffic_raw :
          /\ row \in traffic_raw'
          /\ \A new \in traffic_raw' : KeyOfRow(new) = KeyOfRow(row) => new = row]_vars

\* The collector keeps the promise of LiveFeed: it relays a reading only after
\* its row is in the table, and each instance relays in the order of the topic.
Recorded == {KeyOfRow(row) : row \in traffic_raw}
Feed == INSTANCE LiveFeed WITH Keys <- Key, recorded <- Recorded, announced <- live
ImplementsLiveFeed == Feed!Spec

\* With one instance the metadata of a road is never replaced by that of an
\* older message, although the upsert compares no time.
RoadsMoveForward == [][\A r \in RoadIds : roads'[r] >= roads[r]]_vars

\* No failure of the database or of Redis, and no shutdown, wedges the handler:
\* it always gets back to an empty queue.
HandlerCatchesUp == \A i \in Instances : []<>(pc[i] = "idle" /\ inbox[i] = << >>)
=============================================================================

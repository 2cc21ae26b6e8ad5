--------------------------- MODULE CollectorProofs --------------------------
(* Theorems about Collector, for any number of instances, messages and copies. *)
EXTENDS Collector, TLAPS

(***************************************************************************)
(* Lemmas about the helpers of processMessage and about queues.            *)
(***************************************************************************)

\* The next message is the head of the queue, and the rest is the tail.
LEMMA HeadIsNext ==
    ASSUME NEW S, NEW q \in Seq(S), q # << >>
    PROVE  /\ 1 \in DOMAIN q
           /\ q[NextUp(q)] \in S
           /\ Without(q, NextUp(q)) \in Seq(S)
           /\ Len(Without(q, NextUp(q))) = Len(q) - 1
           /\ \A n \in 1..(Len(q) - 1) : Without(q, NextUp(q))[n] = q[n + 1]
<1>1. Len(q) \in Nat /\ Len(q) > 0
  OBVIOUS
<1>2. SubSeq(q, 1, 0) = << >>
  OBVIOUS
<1>3. /\ SubSeq(q, 2, Len(q)) \in Seq(S)
      /\ Len(SubSeq(q, 2, Len(q))) = Len(q) - 1
      /\ \A n \in 1..(Len(q) - 1) : SubSeq(q, 2, Len(q))[n] = q[n + 1]
  BY <1>1
<1>4. << >> \o SubSeq(q, 2, Len(q)) = SubSeq(q, 2, Len(q))
  BY <1>3
<1>5. Without(q, NextUp(q)) = SubSeq(q, 2, Len(q))
  BY <1>2, <1>4 DEF Without, NextUp
<1>6. 1 \in DOMAIN q /\ q[NextUp(q)] \in S
  BY <1>1 DEF NextUp
<1> QED
  BY <1>3, <1>5, <1>6

\* What survives a lost connection is a prefix of the queue.
LEMMA PrefixKept ==
    ASSUME NEW S, NEW q \in Seq(S), NEW kept \in 0..Len(q)
    PROVE  /\ SubSeq(q, 1, kept) \in Seq(S)
           /\ DOMAIN SubSeq(q, 1, kept) \subseteq DOMAIN q
           /\ \A n \in DOMAIN SubSeq(q, 1, kept) : SubSeq(q, 1, kept)[n] = q[n]
<1>1. Len(q) \in Nat /\ DOMAIN q = 1..Len(q)
  OBVIOUS
<1>2. Len(SubSeq(q, 1, kept)) = kept /\ DOMAIN SubSeq(q, 1, kept) = 1..kept
  BY <1>1
<1> QED
  BY <1>1, <1>2

\* The row of a complete, timed reading is a row of the table.
LEMMA RowInHandIsRow ==
    ASSUME TypeOK, NEW i \in Instances, pc[i] # "idle"
    PROVE  RowInHand(i) \in Row /\ KeyOfRow(RowInHand(i)) \in Key
<1>1. cur[i] \in 1..Len(topic) /\ cur[i] \in Positions
  BY CollectorAssumption DEF TypeOK, ReadingInHand, HandlerTypeOK, Positions
<1>2. topic[cur[i]] \in Payload
  BY <1>1, CollectorAssumption DEF TypeOK
<1>3. topic[cur[i]].sensor \in Sensors /\ ts[i] \in Times
  BY <1>2 DEF TypeOK, ReadingInHand, Complete, Payload, HandlerTypeOK
<1> QED
  BY <1>1, <1>3 DEF RowInHand, KeyOfRow, Row, Key

\* Leaving the handler for a label, or for the next message, keeps its type.
LEMMA GoToType ==
    ASSUME TypeOK, NEW i \in Instances, NEW label \in Labels \ {"idle"}, pc[i] # "idle",
           GoTo(i, label), topic' = topic
    PROVE  /\ pc' \in [Instances -> Labels] /\ UNCHANGED <<cur, ts>>
           /\ ReadingInHand'
BY DEF GoTo, TypeOK, HandlerTypeOK, ReadingInHand

LEMMA FinishType ==
    ASSUME TypeOK, NEW i \in Instances, Finish(i), topic' = topic
    PROVE  /\ pc' \in [Instances -> Labels]
           /\ cur' \in [Instances -> 0..MaxSent]
           /\ ts' \in [Instances -> Times \union {Missing}]
           /\ ReadingInHand'
BY CollectorAssumption DEF Finish, TypeOK, HandlerTypeOK, ReadingInHand, Labels

(***************************************************************************)
(* Type correctness.  The handler's conjunct ReadingInHand is part of it:  *)
(* without it a row or a relayed message would have no type.               *)
(***************************************************************************)
LEMMA TypeInit == Init => TypeOK
BY CollectorAssumption
   DEF Init, TypeOK, ClientTypeOK, HandlerTypeOK, CounterTypeOK, StoreTypeOK,
       InboxKnown, ReadingInHand, Links, Labels

LEMMA TypePublish ==
    ASSUME TypeOK, NEW body \in Payloads, NEW readers \in SUBSET Instances,
           Publish(body, readers)
    PROVE  TypeOK'
<1> DEFINE n == Len(topic)
<1>1. n \in Nat /\ n < MaxSent /\ n + 1 \in Positions
  BY CollectorAssumption DEF TypeOK, Publish, Positions
<1>2. topic' \in Seq(Payloads) /\ Len(topic') = n + 1 /\ Len(topic') <= MaxSent
      /\ \A k \in 1..n : topic'[k] = topic[k]
  BY <1>1, CollectorAssumption DEF Publish, TypeOK
<1>3. ASSUME NEW i \in Instances
      PROVE  /\ inbox'[i] \in Seq(Positions)
             /\ \A k \in DOMAIN inbox'[i] : inbox'[i][k] <= n + 1
  <2>1. inbox[i] \in Seq(Positions) /\ \A k \in DOMAIN inbox[i] : inbox[i][k] <= n
    BY DEF TypeOK, HandlerTypeOK, InboxKnown
  <2>2. \A k \in DOMAIN inbox[i] : inbox[i][k] \in Nat
    BY <2>1, CollectorAssumption DEF Positions
  <2>3. CASE i \in readers
    <3>1. inbox'[i] = Append(inbox[i], n + 1)
      BY <2>3 DEF Publish, TypeOK, HandlerTypeOK
    <3> QED
      BY <1>1, <2>1, <2>2, <3>1
  <2>4. CASE i \notin readers
    <3>1. inbox'[i] = inbox[i]
      BY <2>4 DEF Publish, TypeOK, HandlerTypeOK
    <3> QED
      BY <1>1, <2>1, <2>2, <3>1
  <2> QED
    BY <2>3, <2>4
<1>4. HandlerTypeOK'
  BY <1>3 DEF Publish, TypeOK, HandlerTypeOK
<1>5. InboxKnown'
  BY <1>2, <1>3 DEF InboxKnown
<1>6. ReadingInHand'
  BY <1>1, <1>2 DEF ReadingInHand, Publish, TypeOK
<1> QED
  BY <1>2, <1>4, <1>5, <1>6
     DEF Publish, TypeOK, ClientTypeOK, CounterTypeOK, StoreTypeOK,
         clientVars, counterVars, tableVars

\* Only Exit and ConnectionLost, among the steps of main, touch the handler.
LEMMA TypeLifecycle ==
    ASSUME TypeOK, NEW i \in Instances, Lifecycle(i)
    PROVE  TypeOK'
<1> USE DEF TypeOK, handlerVars, counterVars, tableVars
<1>1. CASE \E redis \in BOOLEAN : Start(i, redis)
  BY <1>1 DEF Start, ClientTypeOK, HandlerTypeOK, CounterTypeOK, StoreTypeOK,
              InboxKnown, ReadingInHand, Links
<1>2. CASE Connect(i)
  BY <1>2 DEF Connect, ClientTypeOK, HandlerTypeOK, CounterTypeOK, StoreTypeOK,
              InboxKnown, ReadingInHand, Links
<1>3. CASE \E granted \in BOOLEAN : Subscribe(i, granted)
  BY <1>3 DEF Subscribe, ClientTypeOK, HandlerTypeOK, CounterTypeOK, StoreTypeOK,
              InboxKnown, ReadingInHand, Links
<1>4. CASE \E kept \in 0..Len(inbox[i]) : ConnectionLost(i, kept)
  <2>1. PICK kept \in 0..Len(inbox[i]) : ConnectionLost(i, kept)
    BY <1>4
  <2>2. inbox[i] \in Seq(Positions)
    BY DEF HandlerTypeOK
  <2>3. /\ SubSeq(inbox[i], 1, kept) \in Seq(Positions)
        /\ DOMAIN SubSeq(inbox[i], 1, kept) \subseteq DOMAIN inbox[i]
        /\ \A n \in DOMAIN SubSeq(inbox[i], 1, kept) :
              SubSeq(inbox[i], 1, kept)[n] = inbox[i][n]
    BY <2>2, PrefixKept
  <2>4. HandlerTypeOK'
    BY <2>1, <2>3 DEF ConnectionLost, HandlerTypeOK
  <2>5. InboxKnown'
    BY <2>1, <2>3 DEF ConnectionLost, InboxKnown, HandlerTypeOK
  <2> QED
    BY <2>1, <2>4, <2>5
       DEF ConnectionLost, ClientTypeOK, CounterTypeOK, StoreTypeOK, ReadingInHand, Links
<1>5. CASE Terminate(i)
  BY <1>5 DEF Terminate, ClientTypeOK, HandlerTypeOK, CounterTypeOK, StoreTypeOK,
              InboxKnown, ReadingInHand
<1>6. CASE Exit(i)
  <2>1. HandlerTypeOK' /\ CounterTypeOK'
    BY <1>6, CollectorAssumption DEF Exit, HandlerTypeOK, CounterTypeOK, Labels
  <2>2. InboxKnown' /\ ReadingInHand'
    BY <1>6 DEF Exit, InboxKnown, ReadingInHand, HandlerTypeOK
  <2> QED
    BY <1>6, <2>1, <2>2 DEF Exit, ClientTypeOK, StoreTypeOK, Links
<1> QED
  BY <1>1, <1>2, <1>3, <1>4, <1>5, <1>6 DEF Lifecycle

\* Storing a row that has the type of a row keeps the table's.
LEMMA InsertedType ==
    ASSUME NEW rows \in SUBSET Row, NEW row \in Row
    PROVE  Inserted(rows, row) \in SUBSET Row /\ rows \subseteq Inserted(rows, row)
BY DEF Inserted

\* Relay and AfterInsert lead to a label of processMessage or back to idle.
LEMMA RelayType ==
    ASSUME TypeOK, NEW i \in Instances, pc[i] # "idle", Relay(i), topic' = topic
    PROVE  /\ pc' \in [Instances -> Labels]
           /\ cur' \in [Instances -> 0..MaxSent]
           /\ ts' \in [Instances -> Times \union {Missing}]
           /\ ReadingInHand'
<1>1. CASE redisClient[i]
  BY <1>1, GoToType DEF Relay, Labels, TypeOK, HandlerTypeOK
<1>2. CASE ~redisClient[i]
  BY <1>2, FinishType DEF Relay
<1> QED
  BY <1>1, <1>2

LEMMA AfterInsertType ==
    ASSUME TypeOK, NEW i \in Instances, pc[i] # "idle", AfterInsert(i), topic' = topic
    PROVE  /\ pc' \in [Instances -> Labels]
           /\ cur' \in [Instances -> 0..MaxSent]
           /\ ts' \in [Instances -> Times \union {Missing}]
           /\ ReadingInHand'
<1>1. CASE topic[cur[i]].coords
  BY <1>1, GoToType DEF AfterInsert, Labels, TypeOK, HandlerTypeOK
<1>2. CASE ~topic[cur[i]].coords
  BY <1>2, RelayType DEF AfterInsert
<1> QED
  BY <1>1, <1>2

LEMMA TypeReceive ==
    ASSUME TypeOK, NEW i \in Instances, NEW now \in Times, Receive(i, now)
    PROVE  TypeOK'
<1> DEFINE q    == inbox[i]
           seq  == q[NextUp(q)]
           body == topic[seq]
<1>1. /\ q \in Seq(Positions) /\ seq \in Positions /\ 1 \in DOMAIN q
      /\ Without(q, NextUp(q)) \in Seq(Positions)
      /\ Len(Without(q, NextUp(q))) = Len(q) - 1
      /\ \A n \in 1..(Len(q) - 1) : Without(q, NextUp(q))[n] = q[n + 1]
  <2>1. q \in Seq(Positions) /\ q # << >>
    BY DEF Receive, TypeOK, HandlerTypeOK
  <2> HIDE DEF q
  <2> QED
    BY <2>1, HeadIsNext
<1>2. seq \in 1..Len(topic)
  BY <1>1, CollectorAssumption DEF TypeOK, InboxKnown, NextUp, Positions
<1>3. body \in Payload
  BY <1>2, CollectorAssumption DEF TypeOK
<1>4. inbox' = [inbox EXCEPT ![i] = Without(q, NextUp(q))]
  BY DEF Receive
<1>5. InboxKnown'
  <2> SUFFICES ASSUME NEW j \in Instances, NEW n \in DOMAIN inbox'[j]
               PROVE  inbox'[j][n] <= Len(topic)
    BY DEF InboxKnown, Receive
  <2>1. CASE j = i
    <3>1. inbox'[i] = Without(q, NextUp(q))
      BY <1>4 DEF TypeOK, HandlerTypeOK
    <3>2. n \in 1..(Len(q) - 1) /\ n + 1 \in DOMAIN q
      BY <1>1, <2>1, <3>1
    <3> QED
      BY <1>1, <2>1, <3>1, <3>2 DEF TypeOK, InboxKnown
  <2>2. CASE j # i
    BY <1>4, <2>2 DEF TypeOK, HandlerTypeOK, InboxKnown
  <2> QED
    BY <2>1, <2>2
<1>6. HandlerTypeOK' /\ ReadingInHand' /\ msgsFailed' \in [Instances -> Nat]
  <2>1. inbox' \in [Instances -> Seq(Positions)]
    BY <1>1, <1>4 DEF TypeOK, HandlerTypeOK
  <2>2. CASE ~Complete(body)
    <3>1. UNCHANGED <<pc, cur, ts, topic>> /\ CountFailed(i)
      BY <2>2 DEF Receive
    <3> QED
      BY <2>1, <3>1 DEF TypeOK, HandlerTypeOK, CounterTypeOK, ReadingInHand, CountFailed
  <2>3. CASE Complete(body)
    <3>1. Timestamp(body, now) \in Times
      BY <1>3 DEF Timestamp, Payload
    <3>2. /\ pc' = [pc EXCEPT ![i] = "insert"]
          /\ cur' = [cur EXCEPT ![i] = seq]
          /\ ts' = [ts EXCEPT ![i] = Timestamp(body, now)]
          /\ UNCHANGED <<msgsFailed, topic>>
      BY <2>3 DEF Receive
    <3>3. Timestamp(body, now) # Missing /\ seq \in 0..MaxSent
      BY <1>1, <3>1, CollectorAssumption DEF Positions
    <3>4. HandlerTypeOK' /\ msgsFailed' \in [Instances -> Nat]
      BY <2>1, <3>1, <3>2, <3>3 DEF TypeOK, HandlerTypeOK, CounterTypeOK, Labels
    <3>5. ReadingInHand'
      BY <1>2, <2>3, <3>2, <3>3 DEF TypeOK, HandlerTypeOK, ReadingInHand
    <3> QED
      BY <3>4, <3>5
  <2> QED
    BY <2>2, <2>3
<1>7. /\ msgsReceived' = [msgsReceived EXCEPT ![i] = @ + 1]
      /\ UNCHANGED <<topic, clientVars, msgsStored, tableVars, live>>
  BY DEF Receive
<1>8. CounterTypeOK'
  BY <1>6, <1>7 DEF TypeOK, CounterTypeOK
<1> QED
  BY <1>5, <1>6, <1>7, <1>8
     DEF TypeOK, ClientTypeOK, StoreTypeOK, clientVars, tableVars

LEMMA TypeProcess ==
    ASSUME TypeOK, NEW i \in Instances, ProcessMessage(i)
    PROVE  TypeOK'
<1> USE DEF TypeOK, clientVars, counterVars, tableVars, handlerVars
<1>1. CASE \E now \in Times : Receive(i, now)
  BY <1>1, TypeReceive
<1>2. CASE Insert(i)
  <2>1. RowInHand(i) \in Row
    BY <1>2, RowInHandIsRow DEF Insert
  <2>2. traffic_raw' \subseteq Row
    BY <1>2, <2>1, InsertedType DEF Insert, StoreTypeOK
  <2>3. HandlerTypeOK' /\ ReadingInHand'
    BY <1>2, AfterInsertType DEF Insert, HandlerTypeOK
  <2>4. InboxKnown' /\ CounterTypeOK'
    BY <1>2 DEF Insert, InboxKnown, CounterTypeOK
  <2> QED
    BY <1>2, <2>2, <2>3, <2>4 DEF Insert, ClientTypeOK, StoreTypeOK
<1>3. CASE \E applied \in BOOLEAN : InsertFails(i, applied)
  <2>1. PICK applied \in BOOLEAN : InsertFails(i, applied)
    BY <1>3
  <2>2. RowInHand(i) \in Row
    BY <2>1, RowInHandIsRow DEF InsertFails
  <2>3. traffic_raw' \subseteq Row
    BY <2>1, <2>2, InsertedType DEF InsertFails, StoreTypeOK
  <2>4. HandlerTypeOK' /\ ReadingInHand'
    BY <2>1, FinishType DEF InsertFails, HandlerTypeOK
  <2>5. InboxKnown' /\ CounterTypeOK'
    BY <2>1 DEF InsertFails, InboxKnown, CounterTypeOK, CountFailed
  <2> QED
    BY <2>1, <2>3, <2>4, <2>5 DEF InsertFails, ClientTypeOK, StoreTypeOK
<1>4. CASE \E applied \in BOOLEAN : UpsertRoad(i, applied)
  <2>1. PICK applied \in BOOLEAN : UpsertRoad(i, applied)
    BY <1>4
  <2>2. roads' \in [RoadIds -> 0..MaxSent]
    BY <2>1 DEF UpsertRoad, StoreTypeOK, HandlerTypeOK
  <2>3. HandlerTypeOK' /\ ReadingInHand'
    BY <2>1, RelayType DEF UpsertRoad, HandlerTypeOK
  <2>4. InboxKnown' /\ CounterTypeOK'
    BY <2>1 DEF UpsertRoad, InboxKnown, CounterTypeOK
  <2> QED
    BY <2>1, <2>2, <2>3, <2>4 DEF UpsertRoad, ClientTypeOK, StoreTypeOK
<1>5. CASE PublishLive(i)
  <2>1. KeyOfRow(RowInHand(i)) \in Key /\ cur[i] \in Positions
    BY <1>5, RowInHandIsRow, CollectorAssumption
       DEF PublishLive, ReadingInHand, Positions
  <2>2. live' \in Seq(Relayed)
    BY <1>5, <2>1 DEF PublishLive, StoreTypeOK, Relayed
  <2> QED
    BY <1>5, <2>2 DEF PublishLive, ClientTypeOK, HandlerTypeOK, CounterTypeOK,
                      StoreTypeOK, InboxKnown, ReadingInHand
<1>6. CASE PublishReturns(i)
  <2>1. HandlerTypeOK' /\ ReadingInHand'
    BY <1>6, FinishType DEF PublishReturns, HandlerTypeOK
  <2> QED
    BY <1>6, <2>1 DEF PublishReturns, ClientTypeOK, CounterTypeOK, StoreTypeOK, InboxKnown
<1> QED
  BY <1>1, <1>2, <1>3, <1>4, <1>5, <1>6 DEF ProcessMessage

LEMMA TypeStep == TypeOK /\ [Next]_vars => TypeOK'
<1> SUFFICES ASSUME TypeOK, [Next]_vars PROVE TypeOK'
  OBVIOUS
<1>1. ASSUME NEW body \in Payloads, NEW readers \in SUBSET Instances,
             Publish(body, readers)
      PROVE  TypeOK'
  BY <1>1, TypePublish
<1>2. ASSUME NEW i \in Instances, Lifecycle(i) PROVE TypeOK'
  BY <1>2, TypeLifecycle
<1>3. ASSUME NEW i \in Instances, ProcessMessage(i) PROVE TypeOK'
  BY <1>3, TypeProcess
<1>4. CASE UNCHANGED vars
  BY <1>4 DEF vars, TypeOK, ClientTypeOK, HandlerTypeOK, CounterTypeOK, StoreTypeOK,
              InboxKnown, ReadingInHand
<1> QED
  BY <1>1, <1>2, <1>3, <1>4 DEF Next

\* Every behaviour of the collector is typed, and never handles an incomplete
\* or untimed reading past validation.
THEOREM TypeCorrect == Spec => []TypeOK
<1> QED
  BY TypeInit, TypeStep, PTL DEF Spec

(***************************************************************************)
(* The collector implements LiveFeed.  The step that relays a message must *)
(* find its row in the table and nothing newer relayed by the same         *)
(* instance: RelayInv carries both facts from the moment the message is    *)
(* stored, and the order of a queue from the moment it is filled.          *)
(***************************************************************************)
StoredBeforeRelay ==
    \A i \in Instances : pc[i] \in {"upsert", "publish"} => KeyOfRow(RowInHand(i)) \in Recorded

RelayedBy(i) == {k \in DOMAIN live : live[k].by = i}

\* Queue, message in hand and relayed messages of an instance are in order.
InOrder(i) ==
    /\ \A m, n \in DOMAIN inbox[i] : m < n => inbox[i][m] < inbox[i][n]
    /\ \A n \in DOMAIN inbox[i] : pc[i] # "idle" => cur[i] < inbox[i][n]
    /\ \A n \in DOMAIN inbox[i], k \in RelayedBy(i) : live[k].seq < inbox[i][n]
    /\ \A k \in RelayedBy(i) : pc[i] # "idle" => live[k].seq <= cur[i]

RelayInv == /\ StoredBeforeRelay
            /\ \A k \in DOMAIN live : live[k].seq <= Len(topic)
            /\ \A i \in Instances : InOrder(i)

LEMMA RelayInit == Init => RelayInv
BY DEF Init, RelayInv, StoredBeforeRelay, InOrder, RelayedBy

\* A row once recorded stays recorded, whatever is inserted after it.
LEMMA InsertedRecords ==
    ASSUME NEW rows, NEW row
    PROVE  {KeyOfRow(r) : r \in Inserted(rows, row)}
              = {KeyOfRow(r) : r \in rows} \union {KeyOfRow(row)}
<1>1. CASE \E old \in rows : KeyOfRow(old) = KeyOfRow(row)
  <2>1. Inserted(rows, row) = rows
    BY <1>1 DEF Inserted
  <2> QED
    BY <1>1, <2>1
<1>2. CASE ~ \E old \in rows : KeyOfRow(old) = KeyOfRow(row)
  <2>1. Inserted(rows, row) = rows \union {row}
    BY <1>2 DEF Inserted
  <2> QED
    BY <2>1
<1> QED
  BY <1>1, <1>2

\* Steps that add rows, keep the queues and the relayed messages, and take the
\* messages in hand no further than they are: what is left to check is that the
\* handlers beyond their INSERT have their row.
LEMMA OrderKept ==
    ASSUME TypeOK, RelayInv, UNCHANGED <<topic, inbox, live>>,
           \A j \in Instances : pc'[j] # "idle" => pc[j] # "idle" /\ cur'[j] = cur[j],
           StoredBeforeRelay'
    PROVE  RelayInv'
BY DEF RelayInv, InOrder, RelayedBy

LEMMA RelayMoves ==
    ASSUME TypeOK, NEW i \in Instances, Relay(i)
    PROVE  \A j \in Instances : pc'[j] # "idle" =>
              /\ cur'[j] = cur[j] /\ ts'[j] = ts[j]
              /\ j # i => pc'[j] = pc[j]
BY DEF Relay, GoTo, Finish, TypeOK, HandlerTypeOK

LEMMA AfterInsertMoves ==
    ASSUME TypeOK, NEW i \in Instances, AfterInsert(i)
    PROVE  \A j \in Instances : pc'[j] # "idle" =>
              /\ cur'[j] = cur[j] /\ ts'[j] = ts[j]
              /\ j # i => pc'[j] = pc[j]
<1>1. CASE topic[cur[i]].coords
  BY <1>1 DEF AfterInsert, GoTo, TypeOK, HandlerTypeOK
<1>2. CASE ~topic[cur[i]].coords
  BY <1>2, RelayMoves DEF AfterInsert
<1> QED
  BY <1>1, <1>2

LEMMA LiveTyped ==
    ASSUME TypeOK, NEW k \in DOMAIN live
    PROVE  live[k].by \in Instances /\ live[k].seq \in Positions /\ live[k].seq \in Nat
<1>1. live \in Seq(Relayed)
  BY DEF TypeOK, StoreTypeOK
<1>2. live[k] \in Relayed
  BY <1>1
<1> QED
  BY <1>2, CollectorAssumption DEF Relayed, Positions

LEMMA RelayPublish ==
    ASSUME TypeOK, RelayInv, NEW body \in Payloads, NEW readers \in SUBSET Instances,
           Publish(body, readers)
    PROVE  RelayInv'
<1> DEFINE n == Len(topic)
<1>1. n \in Nat /\ topic' = Append(topic, body) /\ Len(topic') = n + 1
      /\ \A k \in 1..n : topic'[k] = topic[k]
  BY DEF Publish, TypeOK
<1>2. UNCHANGED <<pc, cur, ts, live, traffic_raw>>
  BY DEF Publish, tableVars
<1>3. StoredBeforeRelay'
  <2> SUFFICES ASSUME NEW i \in Instances, pc[i] \in {"upsert", "publish"}
               PROVE  KeyOfRow(RowInHand(i)') \in Recorded
    BY <1>2 DEF StoredBeforeRelay, Recorded, KeyOfRow
  <2>1. cur[i] \in 1..n
    BY DEF TypeOK, ReadingInHand
  <2>2. RowInHand(i)' = RowInHand(i)
    BY <1>1, <1>2, <2>1 DEF RowInHand
  <2> QED
    BY <2>2 DEF RelayInv, StoredBeforeRelay
<1>4. \A k \in DOMAIN live' : live'[k].seq <= n + 1
  <2>1. \A k \in DOMAIN live : live[k].seq \in Nat /\ live[k].seq <= n
    BY LiveTyped DEF RelayInv
  <2> QED
    BY <1>1, <1>2, <2>1
<1>5. ASSUME NEW i \in Instances PROVE InOrder(i)'
  <2>1. inbox[i] \in Seq(Positions) /\ \A k \in DOMAIN inbox[i] : inbox[i][k] \in Nat /\ inbox[i][k] <= n
    BY CollectorAssumption DEF TypeOK, HandlerTypeOK, InboxKnown, Positions
  <2>2. pc[i] # "idle" => cur[i] \in Nat /\ cur[i] <= n
    BY <1>1 DEF TypeOK, ReadingInHand
  <2>3. \A k \in RelayedBy(i) : live[k].seq \in Nat /\ live[k].seq <= n
    BY LiveTyped DEF RelayInv, RelayedBy
  <2>4. RelayedBy(i)' = RelayedBy(i)
    BY <1>2 DEF RelayedBy
  <2>5. InOrder(i)
    BY DEF RelayInv
  <2>6. CASE i \in readers
    <3>1. inbox'[i] = Append(inbox[i], n + 1)
      BY <2>6 DEF Publish, TypeOK, HandlerTypeOK
    <3>2. /\ DOMAIN inbox'[i] = 1..(Len(inbox[i]) + 1)
          /\ Len(inbox[i]) \in Nat /\ DOMAIN inbox[i] = 1..Len(inbox[i])
          /\ \A k \in DOMAIN inbox[i] : inbox'[i][k] = inbox[i][k]
          /\ inbox'[i][Len(inbox[i]) + 1] = n + 1
      BY <2>1, <3>1
    <3>3. \A k, m \in DOMAIN inbox'[i] : k < m => inbox'[i][k] < inbox'[i][m]
      <4> SUFFICES ASSUME NEW k \in DOMAIN inbox'[i], NEW m \in DOMAIN inbox'[i], k < m
                   PROVE  inbox'[i][k] < inbox'[i][m]
        OBVIOUS
      <4>1. k \in DOMAIN inbox[i]
        BY <3>2
      <4>2. CASE m \in DOMAIN inbox[i]
        BY <2>5, <3>2, <4>1, <4>2 DEF InOrder
      <4>3. CASE m = Len(inbox[i]) + 1
        BY <1>1, <2>1, <3>2, <4>1, <4>3
      <4> QED
        BY <3>2, <4>2, <4>3
    <3>4. \A k \in DOMAIN inbox'[i] : pc'[i] # "idle" => cur'[i] < inbox'[i][k]
      BY <1>1, <1>2, <2>1, <2>2, <2>5, <3>2 DEF InOrder
    <3>5. \A m \in DOMAIN inbox'[i], k \in RelayedBy(i)' : live'[k].seq < inbox'[i][m]
      BY <1>1, <1>2, <2>1, <2>3, <2>4, <2>5, <3>2 DEF InOrder
    <3> QED
      BY <1>2, <2>4, <2>5, <3>3, <3>4, <3>5 DEF InOrder
  <2>7. CASE i \notin readers
    <3>1. inbox'[i] = inbox[i]
      BY <2>7 DEF Publish, TypeOK, HandlerTypeOK
    <3> QED
      BY <1>2, <2>4, <2>5, <3>1 DEF InOrder
  <2> QED
    BY <2>6, <2>7
<1> QED
  BY <1>1, <1>3, <1>4, <1>5 DEF RelayInv

LEMMA RelayLifecycle ==
    ASSUME TypeOK, RelayInv, NEW i \in Instances, Lifecycle(i)
    PROVE  RelayInv'
<1>1. UNCHANGED <<topic, traffic_raw, live>>
  BY DEF Lifecycle, Start, Connect, Subscribe, ConnectionLost, Terminate, Exit, tableVars
<1>2. Recorded' = Recorded /\ \A j \in Instances : RelayedBy(j)' = RelayedBy(j)
  BY <1>1 DEF Recorded, RelayedBy, KeyOfRow
<1>3. CASE UNCHANGED <<inbox, pc, cur, ts>>
  BY <1>1, <1>2, <1>3 DEF RelayInv, StoredBeforeRelay, InOrder, RowInHand, KeyOfRow
<1>4. CASE \E kept \in 0..Len(inbox[i]) : ConnectionLost(i, kept)
  <2>1. PICK kept \in 0..Len(inbox[i]) : ConnectionLost(i, kept)
    BY <1>4
  <2>2. UNCHANGED <<pc, cur, ts>> /\ inbox' = [inbox EXCEPT ![i] = SubSeq(inbox[i], 1, kept)]
    BY <2>1 DEF ConnectionLost
  <2>3. inbox \in [Instances -> Seq(Positions)]
    BY DEF TypeOK, HandlerTypeOK
  <2>4. ASSUME NEW j \in Instances
        PROVE  /\ DOMAIN inbox'[j] \subseteq DOMAIN inbox[j]
               /\ \A n \in DOMAIN inbox'[j] : inbox'[j][n] = inbox[j][n]
    BY <2>2, <2>3, PrefixKept
  <2>5. ASSUME NEW j \in Instances PROVE InOrder(j)'
    BY <1>1, <1>2, <2>2, <2>4 DEF RelayInv, InOrder
  <2>6. StoredBeforeRelay'
    BY <1>1, <1>2, <2>2 DEF RelayInv, StoredBeforeRelay, RowInHand, KeyOfRow
  <2> QED
    BY <1>1, <2>5, <2>6 DEF RelayInv
<1>5. CASE Exit(i)
  <2>1. /\ inbox' = [inbox EXCEPT ![i] = << >>]
        /\ pc' = [pc EXCEPT ![i] = "idle"]
        /\ cur' = [cur EXCEPT ![i] = 0]
        /\ ts' = [ts EXCEPT ![i] = Missing]
    BY <1>5 DEF Exit
  <2>2. ASSUME NEW j \in Instances PROVE InOrder(j)'
    <3>1. CASE j = i
      BY <2>1, <3>1 DEF InOrder, TypeOK, HandlerTypeOK
    <3>2. CASE j # i
      BY <1>1, <1>2, <2>1, <3>2 DEF RelayInv, InOrder, TypeOK, HandlerTypeOK
    <3> QED
      BY <3>1, <3>2
  <2>3. StoredBeforeRelay'
    BY <1>1, <1>2, <2>1
       DEF RelayInv, StoredBeforeRelay, RowInHand, KeyOfRow, TypeOK, HandlerTypeOK
  <2> QED
    BY <1>1, <2>2, <2>3 DEF RelayInv
<1> QED
  BY <1>3, <1>4, <1>5 DEF Lifecycle, Start, Connect, Subscribe, Terminate, handlerVars

\* The head of the queue is newer than everything the instance relayed, so it
\* may be relayed next; what stays queued is newer still.
LEMMA RelayReceive ==
    ASSUME TypeOK, RelayInv, NEW i \in Instances, NEW now \in Times, Receive(i, now)
    PROVE  RelayInv'
<1> DEFINE q == inbox[i]
           r == Without(q, NextUp(q))
<1>1. q \in Seq(Positions) /\ q # << >>
  BY DEF Receive, TypeOK, HandlerTypeOK
<1>2. /\ Len(q) \in Nat /\ DOMAIN q = 1..Len(q) /\ 1 \in DOMAIN q
      /\ r \in Seq(Positions) /\ Len(r) = Len(q) - 1
      /\ \A n \in 1..(Len(q) - 1) : r[n] = q[n + 1]
  <2> HIDE DEF q
  <2> QED
    BY <1>1, HeadIsNext
<1>3. DOMAIN r = 1..(Len(q) - 1)
  BY <1>2
<1>4. /\ inbox' = [inbox EXCEPT ![i] = r]
      /\ pc[i] = "idle"
      /\ UNCHANGED <<topic, traffic_raw, live>>
      /\ \/ UNCHANGED <<pc, cur, ts>>
         \/ /\ pc' = [pc EXCEPT ![i] = "insert"]
            /\ cur' = [cur EXCEPT ![i] = q[1]]
            /\ \E t : ts' = [ts EXCEPT ![i] = t]
  BY DEF Receive, NextUp, tableVars
<1>5. inbox'[i] = r /\ \A j \in Instances \ {i} :
         inbox'[j] = inbox[j] /\ pc'[j] = pc[j] /\ cur'[j] = cur[j] /\ ts'[j] = ts[j]
  BY <1>4 DEF TypeOK, HandlerTypeOK
<1>6. Recorded' = Recorded /\ \A j \in Instances : RelayedBy(j)' = RelayedBy(j)
  BY <1>4 DEF Recorded, RelayedBy, KeyOfRow
<1>7. StoredBeforeRelay'
  <2>1. pc'[i] \in {"idle", "insert"}
    BY <1>4 DEF TypeOK, HandlerTypeOK
  <2> QED
    BY <1>4, <1>5, <1>6, <2>1 DEF RelayInv, StoredBeforeRelay, RowInHand, KeyOfRow
<1>8. InOrder(i)'
  <2>1. InOrder(i)
    BY DEF RelayInv
  <2>2. \A n \in DOMAIN r : n + 1 \in DOMAIN q /\ r[n] = q[n + 1] /\ 1 < n + 1
    BY <1>2, <1>3
  <2>3. \A m, n \in DOMAIN r : m < n => r[m] < r[n]
    BY <1>3, <2>1, <2>2 DEF InOrder
  <2>4. \A n \in DOMAIN r, k \in RelayedBy(i) : live[k].seq < r[n]
    BY <2>1, <2>2 DEF InOrder
  <2>5. pc'[i] # "idle" => cur'[i] = q[1]
    BY <1>4 DEF TypeOK, HandlerTypeOK
  <2>6. \A n \in DOMAIN r : q[1] < r[n]
    BY <1>2, <2>1, <2>2 DEF InOrder
  <2>7. \A k \in RelayedBy(i) : live[k].seq <= q[1]
    <3>1. q[1] \in Nat
      BY <1>1, <1>2, CollectorAssumption DEF Positions
    <3> QED
      BY <1>2, <2>1, <3>1, LiveTyped DEF InOrder, RelayedBy
  <2> QED
    BY <1>4, <1>5, <1>6, <2>3, <2>4, <2>5, <2>6, <2>7 DEF InOrder
<1>9. \A j \in Instances \ {i} : InOrder(j)'
  BY <1>4, <1>5, <1>6 DEF RelayInv, InOrder
<1> QED
  BY <1>4, <1>7, <1>8, <1>9 DEF RelayInv

LEMMA RelayProcess ==
    ASSUME TypeOK, RelayInv, NEW i \in Instances, ProcessMessage(i)
    PROVE  RelayInv'
<1>1. CASE \E now \in Times : Receive(i, now)
  BY <1>1, RelayReceive
<1>2. CASE Insert(i)
  <2>1. /\ UNCHANGED <<topic, inbox, live>> /\ AfterInsert(i) /\ pc[i] = "insert"
        /\ traffic_raw' = Inserted(traffic_raw, RowInHand(i))
    BY <1>2 DEF Insert
  <2>2. Recorded' = Recorded \union {KeyOfRow(RowInHand(i))}
    BY <2>1, InsertedRecords DEF Recorded, KeyOfRow
  <2>3. \A j \in Instances : pc'[j] # "idle" =>
              /\ cur'[j] = cur[j] /\ ts'[j] = ts[j]
              /\ j # i => pc'[j] = pc[j]
    BY <2>1, AfterInsertMoves
  <2>4. StoredBeforeRelay'
    BY <2>1, <2>2, <2>3 DEF RelayInv, StoredBeforeRelay, RowInHand, KeyOfRow
  <2> QED
    BY <2>1, <2>3, <2>4, OrderKept
<1>3. CASE \E applied \in BOOLEAN : InsertFails(i, applied)
  <2>1. PICK applied \in BOOLEAN : InsertFails(i, applied)
    BY <1>3
  <2>2. /\ UNCHANGED <<topic, inbox, live>> /\ Finish(i)
        /\ traffic_raw' = IF applied THEN Inserted(traffic_raw, RowInHand(i)) ELSE traffic_raw
    BY <2>1 DEF InsertFails
  <2>3. Recorded \subseteq Recorded'
    BY <2>2, InsertedRecords DEF Recorded, KeyOfRow
  <2>4. \A j \in Instances : pc'[j] # "idle" =>
              cur'[j] = cur[j] /\ ts'[j] = ts[j] /\ pc'[j] = pc[j]
    BY <2>2 DEF Finish, TypeOK, HandlerTypeOK
  <2>5. StoredBeforeRelay'
    BY <2>2, <2>3, <2>4 DEF RelayInv, StoredBeforeRelay, RowInHand, KeyOfRow
  <2> QED
    BY <2>2, <2>4, <2>5, OrderKept
<1>4. CASE \E applied \in BOOLEAN : UpsertRoad(i, applied)
  <2>1. UNCHANGED <<topic, inbox, live, traffic_raw>> /\ Relay(i) /\ pc[i] = "upsert"
    BY <1>4 DEF UpsertRoad
  <2>2. \A j \in Instances : pc'[j] # "idle" =>
              /\ cur'[j] = cur[j] /\ ts'[j] = ts[j]
              /\ j # i => pc'[j] = pc[j]
    BY <2>1, RelayMoves
  <2>3. StoredBeforeRelay'
    BY <2>1, <2>2 DEF RelayInv, StoredBeforeRelay, Recorded, RowInHand, KeyOfRow
  <2>4. \A j \in Instances : pc'[j] # "idle" => pc[j] # "idle" /\ cur'[j] = cur[j]
    BY <2>1, <2>2
  <2> QED
    BY <2>1, <2>3, <2>4, OrderKept
<1>5. CASE PublishLive(i)
  <2>1. /\ UNCHANGED <<topic, inbox, pc, cur, ts, traffic_raw>> /\ pc[i] = "publish"
        /\ live' = Append(live, [by |-> i, seq |-> cur[i], key |-> KeyOfRow(RowInHand(i))])
    BY <1>5 DEF PublishLive, handlerVars, tableVars
  <2>2. Len(live) \in Nat /\ DOMAIN live = 1..Len(live) /\ live \in Seq(Relayed)
    BY DEF TypeOK, StoreTypeOK
  <2>3. /\ DOMAIN live' = 1..(Len(live) + 1)
        /\ \A k \in DOMAIN live : live'[k] = live[k]
        /\ live'[Len(live) + 1] = [by |-> i, seq |-> cur[i], key |-> KeyOfRow(RowInHand(i))]
    BY <2>1, <2>2
  <2>4. \A k \in DOMAIN live' : k \in DOMAIN live \/ k = Len(live) + 1
    BY <2>2, <2>3
  <2>5. cur[i] \in 1..Len(topic)
    BY <2>1 DEF TypeOK, ReadingInHand
  <2>6. StoredBeforeRelay'
    BY <2>1 DEF RelayInv, StoredBeforeRelay, Recorded, RowInHand, KeyOfRow
  <2>7. \A k \in DOMAIN live' : live'[k].seq <= Len(topic)
    BY <2>3, <2>4, <2>5 DEF RelayInv
  <2>8. ASSUME NEW j \in Instances PROVE InOrder(j)'
    <3>1. InOrder(j)
      BY DEF RelayInv
    <3>2. \A k \in RelayedBy(j)' :
             \/ k \in RelayedBy(j) /\ live'[k].seq = live[k].seq
             \/ j = i /\ live'[k].seq = cur[i]
      BY <2>3, <2>4 DEF RelayedBy
    <3>3. cur[i] <= cur[i]
      BY <2>5 DEF TypeOK
    <3> QED
      BY <2>1, <3>1, <3>2, <3>3 DEF InOrder
  <2> QED
    BY <2>1, <2>6, <2>7, <2>8 DEF RelayInv
<1>6. CASE PublishReturns(i)
  <2>1. UNCHANGED <<topic, inbox, live, traffic_raw>> /\ Finish(i)
    BY <1>6 DEF PublishReturns, tableVars
  <2>2. \A j \in Instances : pc'[j] # "idle" =>
              cur'[j] = cur[j] /\ ts'[j] = ts[j] /\ pc'[j] = pc[j]
    BY <2>1 DEF Finish, TypeOK, HandlerTypeOK
  <2>3. StoredBeforeRelay'
    BY <2>1, <2>2 DEF RelayInv, StoredBeforeRelay, Recorded, RowInHand, KeyOfRow
  <2> QED
    BY <2>1, <2>2, <2>3, OrderKept
<1> QED
  BY <1>1, <1>2, <1>3, <1>4, <1>5, <1>6 DEF ProcessMessage

LEMMA RelayStep == TypeOK /\ RelayInv /\ [Next]_vars => RelayInv'
<1> SUFFICES ASSUME TypeOK, RelayInv, [Next]_vars PROVE RelayInv'
  OBVIOUS
<1>1. ASSUME NEW body \in Payloads, NEW readers \in SUBSET Instances,
             Publish(body, readers)
      PROVE  RelayInv'
  BY <1>1, RelayPublish
<1>2. ASSUME NEW i \in Instances, Lifecycle(i) PROVE RelayInv'
  BY <1>2, RelayLifecycle
<1>3. ASSUME NEW i \in Instances, ProcessMessage(i) PROVE RelayInv'
  BY <1>3, RelayProcess
<1>4. CASE UNCHANGED vars
  BY <1>4 DEF vars, RelayInv, StoredBeforeRelay, InOrder, RelayedBy, Recorded,
              RowInHand, KeyOfRow
<1> QED
  BY <1>1, <1>2, <1>3, <1>4 DEF Next

\* Every instance relays only stored readings, in the order of the topic,
\* across failures, lost connections, crashes and overlapping instances.
THEOREM RelayCorrect == Spec => []RelayInv
<1> QED
  BY RelayInit, RelayStep, TypeCorrect, PTL DEF Spec

LEMMA FeedInit == Init => Feed!Init
BY DEF Init, Feed!Init, Recorded

\* An INSERT that takes effect records its key, whether or not it adds a row.
LEMMA FeedInsert ==
    ASSUME TypeOK, NEW i \in Instances, pc[i] # "idle", UNCHANGED live,
           traffic_raw' = Inserted(traffic_raw, RowInHand(i))
    PROVE  Feed!Next
<1>1. KeyOfRow(RowInHand(i)) \in Key
  BY RowInHandIsRow
<1>2. Recorded' = Recorded \union {KeyOfRow(RowInHand(i))}
  BY InsertedRecords DEF Recorded, KeyOfRow
<1> QED
  BY <1>1, <1>2 DEF Feed!Next, Feed!Record

LEMMA FeedStep == TypeOK /\ RelayInv /\ [Next]_vars => [Feed!Next]_(Feed!vars)
<1> SUFFICES ASSUME TypeOK, RelayInv, [Next]_vars PROVE [Feed!Next]_(Feed!vars)
  OBVIOUS
<1>1. ASSUME UNCHANGED <<traffic_raw, live>> PROVE UNCHANGED Feed!vars
  BY <1>1 DEF Feed!vars, Recorded, KeyOfRow
<1>2. ASSUME NEW body \in Payloads, NEW readers \in SUBSET Instances,
             Publish(body, readers)
      PROVE  [Feed!Next]_(Feed!vars)
  BY <1>1, <1>2 DEF Publish, tableVars
<1>3. ASSUME NEW i \in Instances, Lifecycle(i) PROVE [Feed!Next]_(Feed!vars)
  BY <1>1, <1>3
     DEF Lifecycle, Start, Connect, Subscribe, ConnectionLost, Terminate, Exit, tableVars
<1>4. ASSUME NEW i \in Instances, ProcessMessage(i) PROVE [Feed!Next]_(Feed!vars)
  <2>1. CASE Insert(i)
    BY <2>1, FeedInsert DEF Insert
  <2>2. CASE \E applied \in BOOLEAN : InsertFails(i, applied)
    BY <1>1, <2>2, FeedInsert DEF InsertFails
  <2>3. CASE PublishLive(i)
    <3>1. cur[i] \in Positions /\ KeyOfRow(RowInHand(i)) \in Key
      BY <2>3, RowInHandIsRow, CollectorAssumption
         DEF PublishLive, TypeOK, ReadingInHand, HandlerTypeOK, Positions
    <3>2. KeyOfRow(RowInHand(i)) \in Recorded
      BY <2>3 DEF PublishLive, RelayInv, StoredBeforeRelay
    <3>3. \A k \in DOMAIN live : live[k].by = i => live[k].seq <= cur[i]
      BY <2>3 DEF PublishLive, RelayInv, InOrder, RelayedBy
    <3>4. Recorded' = Recorded
      BY <2>3 DEF PublishLive, tableVars, Recorded, KeyOfRow
    <3>5. Feed!Announce(i, cur[i], KeyOfRow(RowInHand(i)))
      BY <2>3, <3>2, <3>3, <3>4 DEF PublishLive, Feed!Announce
    <3> QED
      BY <3>1, <3>5 DEF Feed!Next, Positions
  <2>4. CASE \/ \E now \in Times : Receive(i, now)
             \/ \E applied \in BOOLEAN : UpsertRoad(i, applied)
             \/ PublishReturns(i)
    BY <1>1, <2>4 DEF Receive, UpsertRoad, PublishReturns, tableVars
  <2> QED
    BY <1>4, <2>1, <2>2, <2>3, <2>4 DEF ProcessMessage
<1>5. CASE UNCHANGED vars
  BY <1>1, <1>5 DEF vars
<1> QED
  BY <1>2, <1>3, <1>4, <1>5 DEF Next

\* The collector keeps the promise of LiveFeed: ImplementsLiveFeed, for every
\* number of instances and every stream of messages.
THEOREM LiveFeedImplemented == Spec => ImplementsLiveFeed
<1> QED
  BY FeedInit, FeedStep, TypeCorrect, RelayCorrect, PTL DEF Spec, ImplementsLiveFeed, Feed!Spec

(***************************************************************************)
(* The counters.                                                           *)
(***************************************************************************)
Balanced(j) == msgsReceived[j] = msgsStored[j] + msgsFailed[j]
                                 + (IF pc[j] = "insert" THEN 1 ELSE 0)

LEMMA BalanceStep == TypeOK /\ CountersBalance /\ [Next]_vars => CountersBalance'
<1> SUFFICES ASSUME TypeOK, CountersBalance, [Next]_vars, NEW j \in Instances
             PROVE  Balanced(j)'
  BY DEF CountersBalance, Balanced
<1> USE DEF TypeOK, CounterTypeOK, HandlerTypeOK
<1>1. /\ msgsReceived[j] \in Nat /\ msgsStored[j] \in Nat /\ msgsFailed[j] \in Nat
      /\ Balanced(j)
  BY DEF CountersBalance, Balanced
<1>2. ASSUME NEW i \in Instances, Lifecycle(i)
      PROVE  Balanced(j)'
  <2>1. CASE Exit(i)
    <3>1. /\ pc' = [pc EXCEPT ![i] = "idle"]
          /\ msgsReceived' = [msgsReceived EXCEPT ![i] = 0]
          /\ msgsStored' = [msgsStored EXCEPT ![i] = 0]
          /\ msgsFailed' = [msgsFailed EXCEPT ![i] = 0]
      BY <2>1 DEF Exit
    <3> QED
      BY <1>1, <3>1 DEF Balanced
  <2>2. CASE UNCHANGED <<pc, msgsReceived, msgsStored, msgsFailed>>
    BY <1>1, <2>2 DEF Balanced
  <2> QED
    BY <1>2, <2>1, <2>2
       DEF Lifecycle, Start, Connect, Subscribe, ConnectionLost, Terminate,
           handlerVars, counterVars
<1>3. ASSUME NEW i \in Instances, ProcessMessage(i)
      PROVE  Balanced(j)'
  <2>1. CASE \E now \in Times : Receive(i, now)
    <3>1. /\ pc[i] = "idle"
          /\ msgsReceived' = [msgsReceived EXCEPT ![i] = @ + 1]
          /\ msgsStored' = msgsStored
          /\ \/ pc' = pc /\ CountFailed(i)
             \/ pc' = [pc EXCEPT ![i] = "insert"] /\ msgsFailed' = msgsFailed
      BY <2>1 DEF Receive
    <3> QED
      BY <1>1, <3>1 DEF Balanced, CountFailed
  <2>2. CASE Insert(i)
    <3>1. /\ pc[i] = "insert" /\ UNCHANGED <<msgsReceived, msgsFailed>>
          /\ msgsStored' = [msgsStored EXCEPT ![i] = @ + 1]
          /\ \E label \in {"upsert", "publish", "idle"} : pc' = [pc EXCEPT ![i] = label]
      BY <2>2 DEF Insert, AfterInsert, Relay, GoTo, Finish
    <3> QED
      BY <1>1, <3>1 DEF Balanced
  <2>3. CASE \E applied \in BOOLEAN : InsertFails(i, applied)
    <3>1. /\ pc[i] = "insert" /\ UNCHANGED <<msgsReceived, msgsStored>>
          /\ msgsFailed' = [msgsFailed EXCEPT ![i] = @ + 1]
          /\ pc' = [pc EXCEPT ![i] = "idle"]
      BY <2>3 DEF InsertFails, Finish, CountFailed
    <3> QED
      BY <1>1, <3>1 DEF Balanced
  <2>4. CASE \/ \E applied \in BOOLEAN : UpsertRoad(i, applied)
             \/ PublishLive(i) \/ PublishReturns(i)
    <3>1. /\ pc[i] # "insert" /\ UNCHANGED <<msgsReceived, msgsStored, msgsFailed>>
          /\ \E label \in {"publish", "idle"} : pc' = [pc EXCEPT ![i] = label]
      BY <2>4 DEF UpsertRoad, PublishLive, PublishReturns, Relay, GoTo, Finish,
                  counterVars, handlerVars
    <3> QED
      BY <1>1, <3>1 DEF Balanced
  <2> QED
    BY <1>3, <2>1, <2>2, <2>3, <2>4 DEF ProcessMessage
<1>4. ASSUME NEW body \in Payloads, NEW readers \in SUBSET Instances,
             Publish(body, readers)
      PROVE  Balanced(j)'
  BY <1>1, <1>4 DEF Publish, counterVars, Balanced
<1>5. CASE UNCHANGED vars
  BY <1>1, <1>5 DEF vars, Balanced
<1> QED
  BY <1>2, <1>3, <1>4, <1>5 DEF Next

\* No message an instance was handed goes uncounted or is counted twice.
THEOREM CountersCorrect == Spec => []CountersBalance
<1>1. Init => CountersBalance
  BY DEF Init, CountersBalance
<1> QED
  BY <1>1, BalanceStep, TypeCorrect, PTL DEF Spec

(***************************************************************************)
(* The table.  A row says where it came from (RowTrue) and keys are unique.*)
(***************************************************************************)
RowTrue(row) == /\ row.seq \in 1..Len(topic)
                /\ row.sensor = topic[row.seq].sensor
                /\ topic[row.seq].ts # Missing => row.ts = topic[row.seq].ts

\* A message that carries a time is handled under that time.
TimeInHand == \A i \in Instances :
    pc[i] # "idle" /\ topic[cur[i]].ts # Missing => ts[i] = topic[cur[i]].ts

KeysUnique == \A m, n \in traffic_raw : KeyOfRow(m) = KeyOfRow(n) => m = n

TableInv == /\ \A row \in traffic_raw : RowTrue(row)
            /\ TimeInHand
            /\ KeysUnique

LEMMA InsertedUnique ==
    ASSUME NEW rows, NEW row,
           \A m, n \in rows : KeyOfRow(m) = KeyOfRow(n) => m = n
    PROVE  \A m, n \in Inserted(rows, row) : KeyOfRow(m) = KeyOfRow(n) => m = n
<1>1. CASE \E old \in rows : KeyOfRow(old) = KeyOfRow(row)
  BY <1>1 DEF Inserted
<1>2. CASE ~ \E old \in rows : KeyOfRow(old) = KeyOfRow(row)
  <2>1. Inserted(rows, row) = rows \union {row}
    BY <1>2 DEF Inserted
  <2> QED
    BY <1>2, <2>1
<1> QED
  BY <1>1, <1>2

LEMMA RowInHandTrue ==
    ASSUME TypeOK, TableInv, NEW i \in Instances, pc[i] # "idle"
    PROVE  RowTrue(RowInHand(i))
BY DEF TypeOK, ReadingInHand, TableInv, TimeInHand, RowTrue, RowInHand

\* The table, and the message in hand, after a step of one handler.
LEMMA TableInsert ==
    ASSUME TypeOK, TableInv, NEW i \in Instances, pc[i] # "idle", UNCHANGED topic,
           traffic_raw' \in {traffic_raw, Inserted(traffic_raw, RowInHand(i))},
           \A j \in Instances : pc'[j] # "idle" =>
               pc[j] # "idle" /\ cur'[j] = cur[j] /\ ts'[j] = ts[j]
    PROVE  TableInv'
<1>1. \A row \in traffic_raw' : row \in traffic_raw \/ row = RowInHand(i)
  BY DEF Inserted
<1>2. \A row \in traffic_raw' : RowTrue(row)'
  BY <1>1, RowInHandTrue DEF TableInv, RowTrue
<1>3. TimeInHand'
  BY DEF TableInv, TimeInHand
<1>4. KeysUnique'
  BY InsertedUnique DEF TableInv, KeysUnique, KeyOfRow
<1> QED
  BY <1>2, <1>3, <1>4 DEF TableInv

LEMMA TableStep == TypeOK /\ TableInv /\ [Next]_vars => TableInv'
<1> SUFFICES ASSUME TypeOK, TableInv, [Next]_vars PROVE TableInv'
  OBVIOUS
<1> USE DEF TypeOK, HandlerTypeOK
<1>1. ASSUME NEW body \in Payloads, NEW readers \in SUBSET Instances,
             Publish(body, readers)
      PROVE  TableInv'
  <2>1. Len(topic) \in Nat /\ Len(topic') = Len(topic) + 1
        /\ \A k \in 1..Len(topic) : topic'[k] = topic[k]
    BY <1>1 DEF Publish
  <2>2. UNCHANGED <<pc, cur, ts, traffic_raw>>
    BY <1>1 DEF Publish, tableVars
  <2>3. TimeInHand'
    BY <2>1, <2>2 DEF TableInv, TimeInHand, ReadingInHand
  <2>4. \A row \in traffic_raw' : RowTrue(row)'
    BY <2>1, <2>2 DEF TableInv, RowTrue
  <2> QED
    BY <2>2, <2>3, <2>4 DEF TableInv, KeysUnique, KeyOfRow
<1>2. ASSUME NEW i \in Instances, Lifecycle(i) PROVE TableInv'
  <2>1. UNCHANGED <<topic, traffic_raw>>
    BY <1>2 DEF Lifecycle, Start, Connect, Subscribe, ConnectionLost, Terminate, Exit,
                tableVars
  <2>2. \A j \in Instances : pc'[j] # "idle" =>
              pc[j] # "idle" /\ cur'[j] = cur[j] /\ ts'[j] = ts[j]
    BY <1>2 DEF Lifecycle, Start, Connect, Subscribe, ConnectionLost, Terminate, Exit,
                handlerVars
  <2>3. TimeInHand'
    BY <2>1, <2>2 DEF TableInv, TimeInHand
  <2> QED
    BY <2>1, <2>3 DEF TableInv, RowTrue, KeysUnique, KeyOfRow
<1>3. ASSUME NEW i \in Instances, NEW now \in Times, Receive(i, now) PROVE TableInv'
  <2>1. /\ UNCHANGED <<topic, traffic_raw>>
        /\ \/ UNCHANGED <<pc, cur, ts>>
           \/ \E seq : /\ pc' = [pc EXCEPT ![i] = "insert"]
                       /\ cur' = [cur EXCEPT ![i] = seq]
                       /\ ts' = [ts EXCEPT ![i] = Timestamp(topic[seq], now)]
    BY <1>3 DEF Receive, tableVars
  <2>2. TimeInHand'
    BY <2>1 DEF TableInv, TimeInHand, Timestamp
  <2> QED
    BY <2>1, <2>2 DEF TableInv, RowTrue, KeysUnique, KeyOfRow
<1>4. ASSUME NEW i \in Instances,
             \/ Insert(i)
             \/ \E applied \in BOOLEAN : InsertFails(i, applied)
             \/ \E applied \in BOOLEAN : UpsertRoad(i, applied)
             \/ PublishLive(i)
             \/ PublishReturns(i)
      PROVE  TableInv'
  <2>1. /\ pc[i] # "idle" /\ UNCHANGED topic
        /\ traffic_raw' \in {traffic_raw, Inserted(traffic_raw, RowInHand(i))}
    BY <1>4 DEF Insert, InsertFails, UpsertRoad, PublishLive, PublishReturns, tableVars
  <2>2. \/ AfterInsert(i) \/ Relay(i) \/ Finish(i)
        \/ UNCHANGED <<pc, cur, ts>>
    BY <1>4 DEF Insert, InsertFails, UpsertRoad, PublishLive, PublishReturns, handlerVars
  <2>3. \A j \in Instances : pc'[j] # "idle" =>
              pc[j] # "idle" /\ cur'[j] = cur[j] /\ ts'[j] = ts[j]
    <3>1. CASE AfterInsert(i)
      BY <2>1, <3>1, AfterInsertMoves
    <3>2. CASE Relay(i)
      BY <2>1, <3>2, RelayMoves
    <3>3. CASE Finish(i) \/ UNCHANGED <<pc, cur, ts>>
      BY <3>3 DEF Finish
    <3> QED
      BY <2>2, <3>1, <3>2, <3>3
  <2> QED
    BY <2>1, <2>3, TableInsert
<1>5. CASE UNCHANGED vars
  BY <1>5 DEF vars, TableInv, RowTrue, TimeInHand, KeysUnique, KeyOfRow
<1> QED
  BY <1>1, <1>2, <1>3, <1>4, <1>5 DEF Next, ProcessMessage

\* Rows carry the sensor and the time of the message they store, one per key.
THEOREM TableCorrect == Spec => []TableInv
<1>1. Init => TableInv
  BY DEF Init, TableInv, TimeInHand, KeysUnique
<1> QED
  BY <1>1, TableStep, TypeCorrect, PTL DEF Spec

\* Two instances, failures reported after the fact, restarts: a message that
\* carries its time still has one row at most.
THEOREM StoredOnce == Spec => []StampedStoredOnce
<1>1. TypeOK /\ TableInv => StampedStoredOnce
  <2> SUFFICES ASSUME TypeOK, TableInv, NEW m \in traffic_raw, NEW n \in traffic_raw,
                      m.seq = n.seq, topic[m.seq].ts # Missing
               PROVE  m = n
    BY DEF StampedStoredOnce
  <2>1. m.ts = n.ts /\ m.sensor = n.sensor
    BY DEF TableInv, RowTrue
  <2>2. m \in Row /\ n \in Row
    BY DEF TypeOK, StoreTypeOK
  <2> QED
    BY <2>1, <2>2 DEF Row
<1> QED
  BY <1>1, TypeCorrect, TableCorrect, PTL

\* No step changes or replaces the row of a key.
THEOREM FirstReadingStays == Spec => FirstReadingKept
<1> DEFINE Kept == \A row \in traffic_raw :
                      /\ row \in traffic_raw'
                      /\ \A new \in traffic_raw' : KeyOfRow(new) = KeyOfRow(row) => new = row
<1>1. [Next]_vars => traffic_raw \subseteq traffic_raw'
  BY DEF Next, Publish, Lifecycle, Start, Connect, Subscribe, ConnectionLost, Terminate,
         Exit, ProcessMessage, Receive, Insert, InsertFails, UpsertRoad, PublishLive,
         PublishReturns, Inserted, tableVars, vars
<1>2. TypeOK /\ TableInv /\ [Next]_vars => [Kept]_vars
  <2> SUFFICES ASSUME TypeOK, TableInv, [Next]_vars PROVE Kept
    OBVIOUS
  <2>1. KeysUnique'
    BY TableStep DEF TableInv
  <2> QED
    BY <1>1, <2>1 DEF KeysUnique, KeyOfRow
<1> QED
  BY <1>2, TypeCorrect, TableCorrect, PTL DEF Spec, FirstReadingKept

(***************************************************************************)
(* The upsert compares no time; what keeps the roads going forward is that *)
(* one instance upserts in the order of its queue.                         *)
(***************************************************************************)
RoadsBehind(i) ==
    \A r \in RoadIds :
        /\ roads[r] <= Len(topic)
        /\ \A n \in DOMAIN inbox[i] : roads[r] < inbox[i][n]
        /\ pc[i] # "idle" => roads[r] <= cur[i]

RoadsInv == \A i \in Instances : RoadsBehind(i)

LEMMA RoadsTyped ==
    ASSUME TypeOK
    PROVE  \A r \in RoadIds : roads[r] \in Nat
BY CollectorAssumption DEF TypeOK, StoreTypeOK

\* A message is published behind all roads.
LEMMA RoadsPublish ==
    ASSUME TypeOK, RoadsInv, NEW body \in Payloads, NEW readers \in SUBSET Instances,
           Publish(body, readers)
    PROVE  RoadsInv'
<1>1. Len(topic) \in Nat /\ Len(topic') = Len(topic) + 1
  BY DEF Publish, TypeOK
<1>2. UNCHANGED <<pc, cur, roads>>
  BY DEF Publish, tableVars
<1> SUFFICES ASSUME NEW i \in Instances PROVE RoadsBehind(i)'
  BY DEF RoadsInv
<1>3. inbox[i] \in Seq(Positions) /\ inbox'[i] \in {inbox[i], Append(inbox[i], Len(topic) + 1)}
  BY DEF Publish, TypeOK, HandlerTypeOK
<1>4. \A n \in DOMAIN inbox'[i] :
         \/ n \in DOMAIN inbox[i] /\ inbox'[i][n] = inbox[i][n]
         \/ inbox'[i][n] = Len(topic) + 1
  BY <1>3
<1> QED
  BY <1>1, <1>2, <1>4, RoadsTyped DEF RoadsInv, RoadsBehind

\* Client and process let go of messages only.
LEMMA RoadsLifecycle ==
    ASSUME TypeOK, RoadsInv, NEW i \in Instances, Lifecycle(i)
    PROVE  RoadsInv'
<1>1. UNCHANGED <<topic, roads>>
  BY DEF Lifecycle, Start, Connect, Subscribe, ConnectionLost, Terminate, Exit, tableVars
<1>2. CASE UNCHANGED <<inbox, pc, cur>>
  BY <1>1, <1>2 DEF RoadsInv, RoadsBehind
<1>3. ASSUME NEW kept \in 0..Len(inbox[i]), ConnectionLost(i, kept) PROVE RoadsInv'
  <2>1. UNCHANGED <<pc, cur>> /\ inbox' = [inbox EXCEPT ![i] = SubSeq(inbox[i], 1, kept)]
    BY <1>3 DEF ConnectionLost
  <2>2. inbox \in [Instances -> Seq(Positions)]
    BY DEF TypeOK, HandlerTypeOK
  <2>3. ASSUME NEW j \in Instances
        PROVE  /\ DOMAIN inbox'[j] \subseteq DOMAIN inbox[j]
               /\ \A n \in DOMAIN inbox'[j] : inbox'[j][n] = inbox[j][n]
    BY <2>1, <2>2, PrefixKept
  <2> QED
    BY <1>1, <2>1, <2>3 DEF RoadsInv, RoadsBehind
<1>4. CASE Exit(i)
  <2>1. \A j \in Instances :
           \/ inbox'[j] = << >> /\ pc'[j] = "idle"
           \/ inbox'[j] = inbox[j] /\ pc'[j] = pc[j] /\ cur'[j] = cur[j]
    BY <1>4 DEF Exit, TypeOK, HandlerTypeOK
  <2> QED
    BY <1>1, <2>1 DEF RoadsInv, RoadsBehind
<1> QED
  BY <1>2, <1>3, <1>4 DEF Lifecycle, Start, Connect, Subscribe, Terminate, handlerVars

\* The head of the queue is newer than any road, and in hand it is not behind one.
LEMMA RoadsReceive ==
    ASSUME TypeOK, RoadsInv, NEW i \in Instances, NEW now \in Times, Receive(i, now)
    PROVE  RoadsInv'
<1> DEFINE q == inbox[i]
           rest == Without(q, NextUp(q))
<1>1. q \in Seq(Positions) /\ q # << >>
  BY DEF Receive, TypeOK, HandlerTypeOK
<1>2. /\ Len(q) \in Nat /\ DOMAIN q = 1..Len(q) /\ 1 \in DOMAIN q /\ q[1] \in Nat
      /\ rest \in Seq(Positions) /\ Len(rest) = Len(q) - 1
      /\ \A n \in 1..(Len(q) - 1) : rest[n] = q[n + 1]
  <2> HIDE DEF q
  <2> QED
    BY <1>1, HeadIsNext, CollectorAssumption DEF Positions, NextUp
<1>3. \A n \in DOMAIN rest : n + 1 \in DOMAIN q /\ rest[n] = q[n + 1]
  BY <1>2
<1>4. /\ inbox' = [inbox EXCEPT ![i] = rest] /\ UNCHANGED <<topic, roads>>
      /\ \/ UNCHANGED <<pc, cur>>
         \/ pc' = [pc EXCEPT ![i] = "insert"] /\ cur' = [cur EXCEPT ![i] = q[1]]
  BY DEF Receive, NextUp, tableVars
<1>5. inbox'[i] = rest /\ \A j \in Instances \ {i} :
         inbox'[j] = inbox[j] /\ pc'[j] = pc[j] /\ cur'[j] = cur[j]
  BY <1>4 DEF TypeOK, HandlerTypeOK
<1>6. pc'[i] # "idle" => cur'[i] = q[1] \/ (pc[i] # "idle" /\ cur'[i] = cur[i])
  BY <1>4 DEF TypeOK, HandlerTypeOK
<1>7. RoadsBehind(i)'
  BY <1>2, <1>3, <1>4, <1>5, <1>6, RoadsTyped DEF RoadsInv, RoadsBehind
<1>8. \A j \in Instances \ {i} : RoadsBehind(j)'
  BY <1>4, <1>5 DEF RoadsInv, RoadsBehind
<1> QED
  BY <1>7, <1>8 DEF RoadsInv

\* Between two statements a handler keeps its message or lets go of it.
LEMMA RoadsHandlerMoves ==
    ASSUME TypeOK, NEW i \in Instances,
           \/ Insert(i)
           \/ \E applied \in BOOLEAN : InsertFails(i, applied)
           \/ PublishLive(i)
           \/ PublishReturns(i)
    PROVE  /\ UNCHANGED <<topic, inbox, roads>>
           /\ \A j \in Instances : pc'[j] # "idle" => pc[j] # "idle" /\ cur'[j] = cur[j]
<1>1. CASE Insert(i)
  BY <1>1, AfterInsertMoves DEF Insert
<1>2. CASE PublishLive(i)
  BY <1>2 DEF PublishLive, handlerVars, tableVars
<1>3. CASE (\E applied \in BOOLEAN : InsertFails(i, applied)) \/ PublishReturns(i)
  BY <1>3 DEF InsertFails, PublishReturns, Finish, TypeOK, HandlerTypeOK, tableVars
<1> QED
  BY <1>1, <1>2, <1>3

\* An only instance writes a road with its message in hand, which is behind no road.
LEMMA RoadsUpsert ==
    ASSUME TypeOK, RelayInv, RoadsInv, NEW i, Instances = {i}, NEW applied \in BOOLEAN,
           UpsertRoad(i, applied)
    PROVE  RoadsInv' /\ \A r \in RoadIds : roads'[r] >= roads[r]
<1>1. /\ UNCHANGED <<topic, inbox>> /\ pc[i] = "upsert" /\ Relay(i)
      /\ \A r \in RoadIds : roads'[r] \in {roads[r], cur[i]}
  BY DEF UpsertRoad, TypeOK, StoreTypeOK
<1>2. pc'[i] # "idle" => cur'[i] = cur[i]
  BY <1>1, RelayMoves
<1>3. cur[i] \in 1..Len(topic) /\ Len(topic) \in Nat
  BY <1>1 DEF TypeOK, ReadingInHand
<1>4. \A n \in DOMAIN inbox[i] : cur[i] < inbox[i][n]
  BY <1>1 DEF RelayInv, InOrder
<1>5. \A r \in RoadIds : roads[r] <= cur[i] /\ roads[r] \in Nat
  BY <1>1, RoadsTyped DEF RoadsInv, RoadsBehind
<1>6. RoadsBehind(i)'
  BY <1>1, <1>2, <1>3, <1>4, <1>5 DEF RoadsInv, RoadsBehind
<1> QED
  BY <1>1, <1>3, <1>5, <1>6 DEF RoadsInv

LEMMA RoadsStep ==
    ASSUME NEW c, Instances = {c}, TypeOK, RelayInv, RoadsInv, [Next]_vars
    PROVE  RoadsInv' /\ \A r \in RoadIds : roads'[r] >= roads[r]
<1> DEFINE Forward == \A r \in RoadIds : roads'[r] >= roads[r]
<1>1. UNCHANGED roads => Forward
  BY RoadsTyped
<1>2. ASSUME NEW body \in Payloads, NEW readers \in SUBSET Instances, Publish(body, readers)
      PROVE  RoadsInv' /\ Forward
  BY <1>1, <1>2, RoadsPublish DEF Publish, tableVars
<1>3. CASE Lifecycle(c)
  BY <1>1, <1>3, RoadsLifecycle
     DEF Lifecycle, Start, Connect, Subscribe, ConnectionLost, Terminate, Exit, tableVars
<1>4. ASSUME NEW now \in Times, Receive(c, now) PROVE RoadsInv' /\ Forward
  BY <1>1, <1>4, RoadsReceive DEF Receive, tableVars
<1>5. ASSUME NEW applied \in BOOLEAN, UpsertRoad(c, applied) PROVE RoadsInv' /\ Forward
  BY <1>5, RoadsUpsert
<1>6. CASE \/ Insert(c)
           \/ \E applied \in BOOLEAN : InsertFails(c, applied)
           \/ PublishLive(c)
           \/ PublishReturns(c)
  <2>1. /\ UNCHANGED <<topic, inbox, roads>>
        /\ \A j \in Instances : pc'[j] # "idle" => pc[j] # "idle" /\ cur'[j] = cur[j]
    BY <1>6, RoadsHandlerMoves
  <2> QED
    BY <1>1, <2>1 DEF RoadsInv, RoadsBehind
<1>7. CASE UNCHANGED vars
  BY <1>1, <1>7 DEF vars, RoadsInv, RoadsBehind
<1> QED
  BY <1>2, <1>3, <1>4, <1>5, <1>6, <1>7 DEF Next, ProcessMessage

\* With one instance, no road goes back to an older message.
THEOREM RoadsForward ==
    ASSUME NEW c, Instances = {c}
    PROVE  Spec => RoadsMoveForward
<1>1. Init => RoadsInv
  BY CollectorAssumption DEF Init, RoadsInv, RoadsBehind
<1>2. TypeOK /\ RelayInv /\ RoadsInv /\ [Next]_vars => RoadsInv'
  BY RoadsStep
<1>3. TypeOK /\ RelayInv /\ RoadsInv /\ [Next]_vars
         => [\A r \in RoadIds : roads'[r] >= roads[r]]_vars
  BY RoadsStep
<1> QED
  BY <1>1, <1>2, <1>3, TypeCorrect, RelayCorrect, PTL DEF Spec, RoadsMoveForward

=============================================================================

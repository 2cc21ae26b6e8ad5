-------------------------- MODULE LiveSocketProofs ---------------------------
(***************************************************************************)
(* Theorems about LiveSocket, for any clients, connections, messages and   *)
(* faults, and about LivePath, for any promise-keeping collectors.         *)
(***************************************************************************)
EXTENDS LivePath, TLAPS

(***************************************************************************)
(* Sequences of increasing numbers.                                        *)
(***************************************************************************)

Increasing(q) == \A i, j \in DOMAIN q : i < j => q[i] < q[j]
AllBelow(q, n) == \A i \in DOMAIN q : q[i] <= n
Precedes(p, q) == \A i \in DOMAIN p : \A j \in DOMAIN q : p[i] < q[j]

\* The elements of a sequence of numbers.
LEMMA Elements ==
    ASSUME NEW n \in Nat, NEW q \in Seq(1..n)
    PROVE  \A i \in DOMAIN q : q[i] \in 1..n /\ q[i] \in Nat
OBVIOUS

\* A larger number goes to the end.
LEMMA AppendIncreases ==
    ASSUME NEW n \in Nat, NEW q \in Seq(1..n), NEW x \in 1..n, Increasing(q),
           \A i \in DOMAIN q : q[i] < x
    PROVE  /\ Append(q, x) \in Seq(1..n) /\ Increasing(Append(q, x))
           /\ \A i \in DOMAIN Append(q, x) : Append(q, x)[i] = x \/ \E j \in DOMAIN q : Append(q, x)[i] = q[j]
<1> DEFINE r == Append(q, x)
<1>1. /\ r \in Seq(1..n) /\ DOMAIN r = 1..(Len(q) + 1) /\ DOMAIN q = 1..Len(q) /\ Len(q) \in Nat
      /\ r[Len(q) + 1] = x /\ \A i \in 1..Len(q) : r[i] = q[i]
  OBVIOUS
<1> HIDE DEF r
<1>2. Increasing(r)
  <2> SUFFICES ASSUME NEW i \in DOMAIN r, NEW j \in DOMAIN r, i < j PROVE r[i] < r[j]
    BY DEF Increasing
  <2>1. i \in DOMAIN q /\ r[i] = q[i]
    BY <1>1
  <2>2. CASE j = Len(q) + 1
    BY <1>1, <2>1, <2>2
  <2>3. CASE j # Len(q) + 1
    <3>1. j \in DOMAIN q /\ r[j] = q[j]
      BY <1>1, <2>3
    <3> QED
      BY <2>1, <3>1 DEF Increasing
  <2> QED
    BY <2>2, <2>3
<1> QED
  BY <1>1, <1>2 DEF r

\* The head is the least, and the tail increases as well.
LEMMA TailIncreases ==
    ASSUME NEW n \in Nat, NEW q \in Seq(1..n), q # << >>, Increasing(q)
    PROVE  /\ Tail(q) \in Seq(1..n) /\ Increasing(Tail(q))
           /\ Head(q) = q[1] /\ 1 \in DOMAIN q /\ Head(q) \in 1..n
           /\ \A j \in DOMAIN Tail(q) : /\ Head(q) < Tail(q)[j]
                                        /\ \E k \in DOMAIN q : Tail(q)[j] = q[k]
<1> DEFINE t == Tail(q)
<1>1. /\ Len(q) \in Nat /\ Len(q) > 0 /\ DOMAIN q = 1..Len(q)
      /\ t \in Seq(1..n) /\ DOMAIN t = 1..(Len(q) - 1)
      /\ \A i \in 1..(Len(q) - 1) : t[i] = q[i + 1]
      /\ Head(q) = q[1] /\ Head(q) \in 1..n
  OBVIOUS
<1> HIDE DEF t
<1>2. Increasing(t)
  <2> SUFFICES ASSUME NEW i \in DOMAIN t, NEW j \in DOMAIN t, i < j PROVE t[i] < t[j]
    BY DEF Increasing
  <2>1. /\ i + 1 \in DOMAIN q /\ j + 1 \in DOMAIN q /\ i + 1 < j + 1
        /\ t[i] = q[i + 1] /\ t[j] = q[j + 1]
    <3>1. i \in 1..(Len(q) - 1) /\ j \in 1..(Len(q) - 1)
      BY <1>1
    <3>2. t[i] = q[i + 1] /\ t[j] = q[j + 1]
      BY <1>1, <3>1
    <3>3. \A m \in Nat : \A k \in 1..(m - 1) : k + 1 \in 1..m /\ k \in Nat
      OBVIOUS
    <3>4. i + 1 \in 1..Len(q) /\ j + 1 \in 1..Len(q) /\ i \in Nat /\ j \in Nat
      BY <1>1, <3>1, <3>3
    <3>5. i + 1 < j + 1
      BY <3>4
    <3> QED
      BY <1>1, <3>2, <3>4, <3>5
  <2> QED
    BY <2>1 DEF Increasing
<1>3. \A j \in DOMAIN t : Head(q) < t[j] /\ \E k \in DOMAIN q : t[j] = q[k]
  <2> SUFFICES ASSUME NEW j \in DOMAIN t
               PROVE  Head(q) < t[j] /\ \E k \in DOMAIN q : t[j] = q[k]
    OBVIOUS
  <2>1. j + 1 \in DOMAIN q /\ 1 \in DOMAIN q /\ 1 < j + 1 /\ t[j] = q[j + 1]
    BY <1>1
  <2> QED
    BY <1>1, <2>1 DEF Increasing
<1> QED
  BY <1>1, <1>2, <1>3 DEF t

(***************************************************************************)
(* The inductive invariant.                                                *)
(***************************************************************************)

\* An open connection is the socket of the client that owns it; a client that
\* never connected has none.
Wired ==
    /\ \A s \in Conns : up[s] => /\ handler[s] \notin {"none", "returned"}
                                 /\ owner[s] \in Clients /\ sock[owner[s]] = s
    /\ \A c \in Clients : ~ opened[c] => sock[c] = NoConn

\* What a subscription holds is in order, and new to the client while it is open.
Ordered ==
    /\ \A s \in Conns : Increasing(queue[s]) /\ AllBelow(queue[s], published)
    /\ \A c \in Clients : Increasing(got[c]) /\ AllBelow(got[c], published)
    /\ \A s \in Conns : up[s] => Precedes(got[owner[s]], queue[s])

Inv == TypeOK /\ Wired /\ Ordered

\* The handlers that end their connection keep types and wiring.
LEMMA ReturnKeeps ==
    ASSUME Inv, NEW s \in Conns, handler[s] # "none", Return(s), UNCHANGED <<owner, got, published, sock, opened>>
    PROVE  /\ handler' \in [Conns -> Handlers] /\ up' \in [Conns -> BOOLEAN]
           /\ cancelled' \in [Conns -> BOOLEAN] /\ queue' \in [Conns -> Seq(1..MaxMessages)]
           /\ \A r \in Conns : queue'[r] # << >> => handler'[r] = "relaying"
           /\ \A r \in Conns : handler'[r] = "none" <=> owner[r] = Nobody
           /\ Wired' /\ Ordered'
<1>1. /\ handler' \in [Conns -> Handlers] /\ up' \in [Conns -> BOOLEAN]
      /\ cancelled' \in [Conns -> BOOLEAN] /\ queue' \in [Conns -> Seq(1..MaxMessages)]
      /\ handler'[s] = "returned" /\ ~ up'[s] /\ queue'[s] = << >>
      /\ \A r \in Conns \ {s} : handler'[r] = handler[r] /\ up'[r] = up[r] /\ queue'[r] = queue[r]
  BY DEF Inv, TypeOK, Return, Handlers
<1>2. \A r \in Conns : queue'[r] # << >> => handler'[r] = "relaying"
  BY <1>1 DEF Inv, TypeOK, Subscribed
<1>3. \A r \in Conns : handler'[r] = "none" <=> owner[r] = Nobody
  BY <1>1 DEF Inv, TypeOK
<1>4. Wired'
  BY <1>1 DEF Inv, Wired
<1>5. Ordered'
  <2>1. Increasing(queue'[s]) /\ AllBelow(queue'[s], published')
    BY <1>1 DEF Increasing, AllBelow
  <2> QED
    BY <1>1, <2>1 DEF Inv, Ordered
<1> QED
  BY <1>1, <1>2, <1>3, <1>4, <1>5

\* Most steps leave what is read and what is open to others alone.
LEMMA Elsewhere ==
    ASSUME Inv, TypeOK', UNCHANGED <<queue, got, published, opened>>,
           \A s \in Conns : up'[s] => /\ up[s] /\ owner'[s] = owner[s]
                                      /\ handler'[s] \notin {"none", "returned"}
                                      /\ sock'[owner[s]] = sock[owner[s]],
           \A c \in Clients : sock'[c] \in {sock[c], NoConn}
    PROVE  Inv'
<1>1. Wired'
  BY DEF Inv, Wired
<1>2. Ordered'
  BY DEF Inv, Ordered
<1> QED
  BY <1>1, <1>2 DEF Inv

(***************************************************************************)
(* The steps.                                                              *)
(***************************************************************************)

\* Tokens come and go; connections break.
LEMMA AroundPreserves ==
    ASSUME Inv, Expire \/ Logout \/ Login \/ \E s \in Conns : Break(s)
    PROVE  Inv'
<1>1. CASE Expire
  <2>1. TypeOK'
    BY <1>1 DEF Expire, Inv, TypeOK, Subscribed, clientVars
  <2> QED
    BY <1>1, <2>1 DEF Expire, Inv, Wired, Ordered, clientVars
<1>2. CASE Logout \/ Login
  <2>1. TypeOK'
    BY <1>2 DEF Logout, Login, Inv, TypeOK, Subscribed, serverVars, clientVars
  <2> QED
    BY <1>2, <2>1 DEF Logout, Login, Inv, Wired, Ordered, serverVars, clientVars
<1>3. ASSUME NEW s \in Conns, Break(s) PROVE Inv'
  <2>1. TypeOK'
    <3>1. faults' \in 0..MaxFaults /\ up' \in [Conns -> BOOLEAN]
      BY <1>3, LiveSocketAssumption DEF Break, Inv, TypeOK
    <3> QED
      BY <1>3, <3>1 DEF Break, Inv, TypeOK, Subscribed, clientVars
  <2>2. \A r \in Conns : up'[r] => up[r]
    BY <1>3 DEF Break, Inv, TypeOK
  <2> QED
    BY <1>3, <2>1, <2>2 DEF Break, Inv, Wired, Ordered, clientVars
<1> QED
  BY <1>1, <1>2, <1>3

\* A message is newer than whatever a subscription holds or a client has got.
LEMMA PublishPreserves ==
    ASSUME Inv, NEW lost, Publish(lost)
    PROVE  Inv'
<1> DEFINE new == published + 1
<1>1. /\ published \in Nat /\ MaxMessages \in Nat /\ new \in 1..MaxMessages /\ published' = new
      /\ UNCHANGED <<token, redisUp, faults, owner, up, handler, pump, cancelled, good, clientVars>>
  BY LiveSocketAssumption DEF Publish, Inv, TypeOK
<1>2. ASSUME NEW s \in Conns
      PROVE  /\ queue'[s] \in Seq(1..MaxMessages) /\ Increasing(queue'[s])
             /\ AllBelow(queue'[s], new)
             /\ up[s] => Precedes(got[owner[s]], queue'[s])
             /\ queue'[s] # << >> => Subscribed(s)
  <2>1. /\ queue[s] \in Seq(1..MaxMessages) /\ Increasing(queue[s])
        /\ \A i \in DOMAIN queue[s] : queue[s][i] \in 1..MaxMessages /\ queue[s][i] <= published
        /\ up[s] => Precedes(got[owner[s]], queue[s])
        /\ queue[s] # << >> => Subscribed(s)
    <3>1. queue[s] \in Seq(1..MaxMessages) /\ (queue[s] # << >> => Subscribed(s))
      BY DEF Inv, TypeOK
    <3>2. \A i \in DOMAIN queue[s] : queue[s][i] \in 1..MaxMessages
      BY <1>1, <3>1, Elements
    <3>3. /\ Increasing(queue[s]) /\ AllBelow(queue[s], published)
          /\ up[s] => Precedes(got[owner[s]], queue[s])
      BY DEF Inv, Ordered
    <3> QED
      BY <3>1, <3>2, <3>3 DEF AllBelow
  <2>2. up[s] => \A i \in DOMAIN got[owner[s]] :
                    got[owner[s]][i] \in 1..MaxMessages /\ got[owner[s]][i] <= published
    <3>1. up[s] => owner[s] \in Clients
      BY DEF Inv, Wired
    <3>2. \A c \in Clients : got[c] \in Seq(1..MaxMessages) /\ AllBelow(got[c], published)
      BY DEF Inv, TypeOK, Ordered
    <3> QED
      BY <1>1, <3>1, <3>2, Elements DEF AllBelow
  <2>3. CASE queue'[s] = queue[s]
    BY <1>1, <2>1, <2>3 DEF AllBelow
  <2>4. CASE queue'[s] # queue[s]
    <3>1. queue'[s] = Append(queue[s], new) /\ Subscribed(s)
      BY <2>4 DEF Publish
    <3>2. \A i \in DOMAIN queue[s] : queue[s][i] < new
      BY <1>1, <2>1
    <3>3. /\ Append(queue[s], new) \in Seq(1..MaxMessages)
          /\ Increasing(Append(queue[s], new))
          /\ \A i \in DOMAIN Append(queue[s], new) :
                 \/ Append(queue[s], new)[i] = new
                 \/ \E j \in DOMAIN queue[s] : Append(queue[s], new)[i] = queue[s][j]
      BY <1>1, <2>1, <3>2, AppendIncreases
    <3> HIDE DEF new
    <3>4. AllBelow(queue'[s], new)
      BY <1>1, <2>1, <3>1, <3>2, <3>3 DEF AllBelow
    <3>5. up[s] => Precedes(got[owner[s]], queue'[s])
      <4>1. up[s] => \A i \in DOMAIN got[owner[s]] : got[owner[s]][i] < new
        BY <1>1, <2>2 DEF new
      <4> QED
        BY <2>1, <3>1, <3>3, <4>1 DEF Precedes
    <3> QED
      BY <3>1, <3>3, <3>4, <3>5
  <2> QED
    BY <2>3, <2>4
<1>3. queue' \in [Conns -> Seq(1..MaxMessages)]
  <2>1. DOMAIN queue' = Conns /\ queue' = [s \in Conns |-> queue'[s]]
    BY DEF Publish
  <2> QED
    BY <1>2, <2>1
<1>4. TypeOK'
  BY <1>1, <1>2, <1>3 DEF Inv, TypeOK, Subscribed, clientVars
<1>5. \A c \in Clients : AllBelow(got[c], new)
  <2>1. \A c \in Clients : \A i \in DOMAIN got[c] : got[c][i] \in Nat
    BY <1>1, Elements DEF Inv, TypeOK
  <2> QED
    BY <1>1, <2>1 DEF Inv, Ordered, AllBelow
<1> HIDE DEF new
<1>6. Wired' /\ Ordered'
  BY <1>1, <1>2, <1>5 DEF Inv, Wired, Ordered, clientVars
<1> QED
  BY <1>4, <1>6 DEF Inv

\* A client opens a connection only when it has none.
LEMMA ConnectPreserves ==
    ASSUME Inv, NEW c \in Clients, Connect(c) \/ TimerFires(c)
    PROVE  Inv'
<1>1. sock[c] = NoConn
  BY DEF Connect, TimerFires, Inv, TypeOK, Wired
<1>2. ConnectNow(c)
  BY DEF Connect, TimerFires
<1>3. CASE UNCHANGED <<serverVars, sock>>
  <2>1. TypeOK'
    BY <1>1, <1>2, <1>3 DEF ConnectNow, Inv, TypeOK, Subscribed, env, serverVars
  <2> QED
    BY <1>2, <1>3, <2>1 DEF ConnectNow, Inv, TypeOK, Wired, Ordered, env, serverVars
<1>4. CASE ~ UNCHANGED <<serverVars, sock>>
  <2>1. PICK s \in Conns :
            /\ owner[s] = Nobody
            /\ owner' = [owner EXCEPT ![s] = c]
            /\ up' = [up EXCEPT ![s] = TRUE]
            /\ handler' = [handler EXCEPT ![s] = "request"]
            /\ good' = [good EXCEPT ![s] = token = "valid"]
            /\ sock' = [sock EXCEPT ![c] = s]
    BY <1>2, <1>4 DEF ConnectNow
  <2>2. /\ UNCHANGED <<pump, cancelled, queue, env, intentional, got>>
        /\ timer' = [timer EXCEPT ![c] = FALSE] /\ opened' = [opened EXCEPT ![c] = TRUE]
    BY <1>2, <1>4 DEF ConnectNow
  <2>3. queue[s] = << >> /\ handler[s] = "none" /\ ~ up[s] /\ c # Nobody /\ s # NoConn
    BY <2>1, LiveSocketAssumption DEF Inv, TypeOK, Wired, Subscribed
  <2>4. /\ owner' \in [Conns -> Clients \union {Nobody}] /\ up' \in [Conns -> BOOLEAN]
        /\ handler' \in [Conns -> Handlers] /\ good' \in [Conns -> BOOLEAN]
        /\ sock' \in [Clients -> Conns \union {NoConn}]
        /\ timer' \in [Clients -> BOOLEAN] /\ opened' \in [Clients -> BOOLEAN]
        /\ owner'[s] = c /\ up'[s] /\ handler'[s] = "request" /\ sock'[c] = s
        /\ ~ timer'[c] /\ opened'[c]
        /\ \A r \in Conns \ {s} : owner'[r] = owner[r] /\ up'[r] = up[r] /\ handler'[r] = handler[r]
        /\ \A d \in Clients \ {c} : sock'[d] = sock[d] /\ timer'[d] = timer[d] /\ opened'[d] = opened[d]
    BY <2>1, <2>2 DEF Inv, TypeOK, Handlers
  <2>5. TypeOK'
    <3>1. \A r \in Conns : /\ queue'[r] # << >> => handler'[r] = "relaying"
                           /\ handler'[r] = "none" <=> owner'[r] = Nobody
      <4> SUFFICES ASSUME NEW r \in Conns
                   PROVE  /\ queue'[r] # << >> => handler'[r] = "relaying"
                          /\ handler'[r] = "none" <=> owner'[r] = Nobody
        OBVIOUS
      <4>1. CASE r = s
        BY <2>2, <2>3, <2>4, <4>1
      <4>2. CASE r # s
        BY <2>2, <2>4, <4>2 DEF Inv, TypeOK, Subscribed
      <4> QED
        BY <4>1, <4>2
    <3>2. \A d \in Clients : sock'[d] # NoConn => owner'[sock'[d]] = d /\ ~ timer'[d]
      <4> SUFFICES ASSUME NEW d \in Clients, sock'[d] # NoConn
                   PROVE  owner'[sock'[d]] = d /\ ~ timer'[d]
        OBVIOUS
      <4>1. CASE d = c
        BY <2>4, <4>1
      <4>2. CASE d # c
        <5>1. /\ sock'[d] = sock[d] /\ timer'[d] = timer[d] /\ sock[d] \in Conns
              /\ owner[sock[d]] = d /\ ~ timer[d]
          BY <2>4, <4>2 DEF Inv, TypeOK
        <5>2. sock[d] # s
          BY <2>1, <5>1, LiveSocketAssumption
        <5> QED
          BY <2>4, <5>1, <5>2
      <4> QED
        BY <4>1, <4>2
    <3>3. queue' = queue /\ got' = got
      BY <2>2
    <3> QED
      BY <2>2, <2>4, <3>1, <3>2, <3>3 DEF Inv, TypeOK, Subscribed, env
  <2>6. Wired'
    <3>1. ASSUME NEW r \in Conns, up'[r]
          PROVE  handler'[r] \notin {"none", "returned"} /\ owner'[r] \in Clients /\ sock'[owner'[r]] = r
      <4>1. CASE r = s
        BY <2>4, <4>1
      <4>2. CASE r # s
        <5>1. /\ owner'[r] = owner[r] /\ handler'[r] = handler[r] /\ owner[r] \in Clients
              /\ sock[owner[r]] = r /\ handler[r] \notin {"none", "returned"}
          BY <2>4, <3>1, <4>2 DEF Inv, Wired
        <5>2. owner[r] # c
          BY <1>1, <5>1, LiveSocketAssumption
        <5> QED
          BY <2>4, <5>1, <5>2
      <4> QED
        BY <4>1, <4>2
    <3>2. \A d \in Clients : ~ opened'[d] => sock'[d] = NoConn
      BY <2>4 DEF Inv, Wired
    <3> QED
      BY <3>1, <3>2 DEF Wired
  <2>7. Ordered'
    <3>1. queue' = queue /\ got' = got /\ published' = published
      BY <2>2 DEF env
    <3>2. \A r \in Conns : up'[r] => Precedes(got[owner'[r]], queue[r])
      <4>1. Precedes(got[c], queue[s])
        BY <2>3 DEF Precedes
      <4> QED
        BY <2>4, <4>1 DEF Inv, Ordered
    <3> QED
      BY <3>1, <3>2 DEF Inv, Ordered
  <2> QED
    BY <2>5, <2>6, <2>7 DEF Inv
<1> QED
  BY <1>3, <1>4

\* onclose and disconnect: the client lets go of its connection.
LEMMA LetGoPreserves ==
    ASSUME Inv, NEW c \in Clients, OnClose(c) \/ Disconnect(c)
    PROVE  Inv'
<1>1. CASE OnClose(c)
  <2>1. TypeOK'
    BY <1>1 DEF OnClose, Inv, TypeOK, Subscribed, env, serverVars
  <2>2. /\ UNCHANGED <<queue, got, published, opened, up, owner, handler>>
        /\ sock' = [sock EXCEPT ![c] = NoConn] /\ ~ up[sock[c]]
    BY <1>1 DEF OnClose, env, serverVars
  <2>3. \A s \in Conns : up[s] => owner[s] \in Clients /\ sock'[owner[s]] = sock[owner[s]]
    BY <2>2 DEF Inv, TypeOK, Wired
  <2>4. \A d \in Clients : sock'[d] \in {sock[d], NoConn}
    BY <2>2 DEF Inv, TypeOK
  <2> QED
    BY <2>1, <2>2, <2>3, <2>4, Elsewhere DEF Inv, Wired
<1>2. CASE Disconnect(c)
  <2>1. /\ UNCHANGED <<queue, got, published, opened, owner, handler>>
        /\ sock' = [sock EXCEPT ![c] = NoConn]
        /\ up' = [s \in Conns |-> IF s = sock[c] THEN FALSE ELSE up[s]]
        /\ intentional' = [intentional EXCEPT ![c] = TRUE]
        /\ timer' = [timer EXCEPT ![c] = FALSE]
    BY <1>2 DEF Disconnect, env
  <2>2. TypeOK'
    <3>1. /\ sock' \in [Clients -> Conns \union {NoConn}] /\ timer' \in [Clients -> BOOLEAN]
          /\ intentional' \in [Clients -> BOOLEAN] /\ up' \in [Conns -> BOOLEAN]
          /\ \A d \in Clients : sock'[d] # NoConn => owner[sock'[d]] = d /\ ~ timer'[d]
      BY <2>1 DEF Inv, TypeOK
    <3>2. UNCHANGED <<env, owner, handler, pump, cancelled, good, queue, opened, got>>
      BY <1>2 DEF Disconnect
    <3> QED
      BY <3>1, <3>2 DEF Inv, TypeOK, Subscribed, env
  <2>3. \A s \in Conns : up'[s] => /\ up[s] /\ owner[s] \in Clients
                                  /\ sock'[owner[s]] = sock[owner[s]]
    BY <2>1 DEF Inv, TypeOK, Wired
  <2>4. \A d \in Clients : sock'[d] \in {sock[d], NoConn}
    BY <2>1 DEF Inv, TypeOK
  <2> QED
    BY <2>1, <2>2, <2>3, <2>4, Elsewhere DEF Inv, Wired
<1> QED
  BY <1>1, <1>2

\* The handler goes on, before it relays; the pump ends; a slot is freed.
LEMMA ServePreserves ==
    ASSUME Inv, NEW s \in Conns, Upgrade(s) \/ Subscribe(s) \/ PumpEnds(s) \/ Release(s)
    PROVE  Inv'
<1>1. CASE Upgrade(s) \/ Subscribe(s)
  <2>1. /\ UNCHANGED <<env, owner, up, cancelled, good, queue, clientVars>>
        /\ handler[s] \notin {"none", "returned", "relaying"}
        /\ pump' \in [Conns -> BOOLEAN]
        /\ \E label \in {"upgraded", "relaying"} : handler' = [handler EXCEPT ![s] = label]
    BY <1>1 DEF Upgrade, Subscribe, Inv, TypeOK
  <2>2. /\ handler' \in [Conns -> Handlers] /\ handler'[s] \in {"upgraded", "relaying"}
        /\ \A r \in Conns \ {s} : handler'[r] = handler[r]
    BY <2>1 DEF Inv, TypeOK, Handlers
  <2>3. TypeOK'
    BY <2>1, <2>2 DEF Inv, TypeOK, Subscribed, env, clientVars
  <2>4. Wired' /\ Ordered'
    BY <2>1, <2>2 DEF Inv, Wired, Ordered, env, clientVars
  <2> QED
    BY <2>3, <2>4 DEF Inv
<1>2. CASE PumpEnds(s)
  <2>1. TypeOK'
    BY <1>2 DEF PumpEnds, Inv, TypeOK, Subscribed, env, clientVars
  <2> QED
    BY <1>2, <2>1 DEF PumpEnds, Inv, Wired, Ordered, env, clientVars
<1>3. CASE Release(s)
  <2>1. /\ UNCHANGED <<env, up, pump, queue, clientVars>>
        /\ handler[s] = "returned" /\ ~ up[s] /\ queue[s] = << >>
        /\ \A c \in Clients : sock[c] # s
    BY <1>3 DEF Release, Inv, TypeOK, Wired, Subscribed
  <2>2. /\ owner' \in [Conns -> Clients \union {Nobody}] /\ handler' \in [Conns -> Handlers]
        /\ cancelled' \in [Conns -> BOOLEAN] /\ good' \in [Conns -> BOOLEAN]
        /\ owner'[s] = Nobody /\ handler'[s] = "none"
        /\ \A r \in Conns \ {s} : owner'[r] = owner[r] /\ handler'[r] = handler[r]
    BY <1>3 DEF Release, Inv, TypeOK, Handlers
  <2>3. /\ \A r \in Conns : /\ queue'[r] # << >> => handler'[r] = "relaying"
                             /\ handler'[r] = "none" <=> owner'[r] = Nobody
        /\ \A c \in Clients : sock'[c] # NoConn => owner'[sock'[c]] = c /\ ~ timer'[c]
    BY <2>1, <2>2 DEF Inv, TypeOK, Subscribed, clientVars
  <2>4. TypeOK'
    BY <2>1, <2>2, <2>3 DEF Inv, TypeOK, Subscribed, env, clientVars
  <2>5. Wired' /\ Ordered'
    BY <2>1, <2>2 DEF Inv, Wired, Ordered, env, clientVars
  <2> QED
    BY <2>4, <2>5 DEF Inv
<1> QED
  BY <1>1, <1>2, <1>3

\* A handler that returns takes its subscription and its connection along.
LEMMA EndPreserves ==
    ASSUME Inv, NEW s \in Conns, Return(s), handler[s] # "none",
           UNCHANGED <<env, owner, pump, good, clientVars>>
    PROVE  Inv'
<1>1. UNCHANGED <<owner, got, published, sock, opened>>
  BY DEF env, clientVars
<1>2. /\ handler' \in [Conns -> Handlers] /\ up' \in [Conns -> BOOLEAN]
      /\ cancelled' \in [Conns -> BOOLEAN] /\ queue' \in [Conns -> Seq(1..MaxMessages)]
      /\ \A r \in Conns : queue'[r] # << >> => handler'[r] = "relaying"
      /\ \A r \in Conns : handler'[r] = "none" <=> owner[r] = Nobody
      /\ Wired' /\ Ordered'
  BY <1>1, ReturnKeeps
<1>3. TypeOK'
  BY <1>2 DEF Inv, TypeOK, Subscribed, env, clientVars
<1> QED
  BY <1>2, <1>3 DEF Inv

\* The head of the subscription, given to an open socket, is new to its client.
LEMMA GivenPreserves ==
    ASSUME Inv, NEW s \in Conns, handler[s] = "relaying", queue[s] # << >>, up[s],
           got' = [got EXCEPT ![owner[s]] = Append(@, Head(queue[s]))],
           queue' = [queue EXCEPT ![s] = Tail(@)],
           UNCHANGED <<up, handler, cancelled, env, owner, pump, good, sock, timer, intentional, opened>>
    PROVE  Inv'
<1> DEFINE c == owner[s]
           new == Head(queue[s])
<1>1. /\ MaxMessages \in Nat /\ c \in Clients /\ sock[c] = s
      /\ queue[s] \in Seq(1..MaxMessages) /\ got[c] \in Seq(1..MaxMessages)
      /\ Increasing(queue[s]) /\ Increasing(got[c])
      /\ AllBelow(queue[s], published) /\ AllBelow(got[c], published)
      /\ Precedes(got[c], queue[s])
  BY LiveSocketAssumption DEF Inv, TypeOK, Wired, Ordered
<1>2. /\ Tail(queue[s]) \in Seq(1..MaxMessages) /\ Increasing(Tail(queue[s]))
      /\ new = queue[s][1] /\ 1 \in DOMAIN queue[s] /\ new \in 1..MaxMessages
      /\ \A j \in DOMAIN Tail(queue[s]) :
            new < Tail(queue[s])[j] /\ \E k \in DOMAIN queue[s] : Tail(queue[s])[j] = queue[s][k]
  BY <1>1, TailIncreases
<1>3. \A i \in DOMAIN got[c] : got[c][i] < new
  BY <1>1, <1>2 DEF Precedes
<1>4. /\ Append(got[c], new) \in Seq(1..MaxMessages) /\ Increasing(Append(got[c], new))
      /\ \A i \in DOMAIN Append(got[c], new) :
            Append(got[c], new)[i] = new
            \/ \E j \in DOMAIN got[c] : Append(got[c], new)[i] = got[c][j]
  BY <1>1, <1>2, <1>3, AppendIncreases
<1>5. AllBelow(Tail(queue[s]), published) /\ AllBelow(Append(got[c], new), published)
  BY <1>1, <1>2, <1>4 DEF AllBelow
<1>6. Precedes(Append(got[c], new), Tail(queue[s]))
  BY <1>1, <1>2, <1>4 DEF Precedes
<1>7. /\ got' \in [Clients -> Seq(1..MaxMessages)] /\ queue' \in [Conns -> Seq(1..MaxMessages)]
      /\ got'[c] = Append(got[c], new) /\ queue'[s] = Tail(queue[s])
      /\ \A d \in Clients \ {c} : got'[d] = got[d]
      /\ \A r \in Conns \ {s} : queue'[r] = queue[r]
  BY <1>1, <1>2, <1>4 DEF Inv, TypeOK
<1>8. \A r \in Conns : r # s /\ up[r] => owner[r] \in Clients \ {c}
  BY <1>1 DEF Inv, Wired
<1> HIDE DEF c, new
<1>9. TypeOK'
  <2>1. \A r \in Conns : queue'[r] # << >> => handler[r] = "relaying"
    BY <1>7 DEF Inv, TypeOK, Subscribed
  <2> QED
    BY <1>7, <2>1 DEF Inv, TypeOK, Subscribed, env
<1>10. Ordered'
  <2>1. \A r \in Conns : Increasing(queue'[r]) /\ AllBelow(queue'[r], published)
    BY <1>2, <1>5, <1>7 DEF Inv, Ordered
  <2>2. \A d \in Clients : Increasing(got'[d]) /\ AllBelow(got'[d], published)
    BY <1>4, <1>5, <1>7 DEF Inv, Ordered
  <2>3. \A r \in Conns : up[r] => Precedes(got'[owner[r]], queue'[r])
    <3> SUFFICES ASSUME NEW r \in Conns, up[r] PROVE Precedes(got'[owner[r]], queue'[r])
      OBVIOUS
    <3>1. CASE r = s
      BY <1>6, <1>7, <3>1 DEF c
    <3>2. CASE r # s
      BY <1>7, <1>8, <3>2 DEF Inv, Ordered
    <3> QED
      BY <3>1, <3>2
  <2> QED
    BY <2>1, <2>2, <2>3 DEF Ordered, env
<1> QED
  BY <1>9, <1>10 DEF Inv, Wired, env

\* The head of the subscription is written to a socket that is gone.
LEMMA DroppedPreserves ==
    ASSUME Inv, NEW s \in Conns, handler[s] = "relaying", queue[s] # << >>, ~ up[s],
           queue' = [queue EXCEPT ![s] = Tail(@)],
           UNCHANGED <<got, up, handler, cancelled, env, owner, pump, good, sock, timer, intentional, opened>>
    PROVE  Inv'
<1>1. /\ MaxMessages \in Nat
      /\ queue[s] \in Seq(1..MaxMessages) /\ Increasing(queue[s])
      /\ AllBelow(queue[s], published)
  BY LiveSocketAssumption DEF Inv, TypeOK, Ordered
<1>2. /\ Tail(queue[s]) \in Seq(1..MaxMessages) /\ Increasing(Tail(queue[s]))
      /\ \A j \in DOMAIN Tail(queue[s]) :
            \E k \in DOMAIN queue[s] : Tail(queue[s])[j] = queue[s][k]
  BY <1>1, TailIncreases
<1>3. AllBelow(Tail(queue[s]), published)
  BY <1>1, <1>2 DEF AllBelow
<1>4. /\ queue' \in [Conns -> Seq(1..MaxMessages)] /\ queue'[s] = Tail(queue[s])
      /\ \A r \in Conns \ {s} : queue'[r] = queue[r]
  BY <1>2 DEF Inv, TypeOK
<1>5. TypeOK'
  <2>1. \A r \in Conns : queue'[r] # << >> => handler[r] = "relaying"
    BY <1>4 DEF Inv, TypeOK, Subscribed
  <2> QED
    BY <1>4, <2>1 DEF Inv, TypeOK, Subscribed, env
<1>6. Ordered'
  BY <1>2, <1>3, <1>4 DEF Inv, Ordered, env
<1> QED
  BY <1>5, <1>6 DEF Inv, Wired, env

\* Every step preserves the invariant.
LEMMA StepsPreserve == Inv /\ [Next]_vars => Inv'
<1> SUFFICES ASSUME Inv, [Next]_vars PROVE Inv'
  OBVIOUS
<1>1. CASE Environment
  BY <1>1, AroundPreserves DEF Environment
<1>2. ASSUME NEW c \in Clients, Client(c) PROVE Inv'
  BY <1>2, ConnectPreserves, LetGoPreserves DEF Client
<1>3. ASSUME NEW s \in Conns, Refuse(s) \/ Unavailable(s) \/ Done(s) PROVE Inv'
  BY <1>3, EndPreserves DEF Refuse, Unavailable, Done
<1>4. ASSUME NEW s \in Conns, Relay(s) PROVE Inv'
  <2>1. /\ handler[s] = "relaying" /\ queue[s] # << >>
        /\ UNCHANGED <<env, owner, pump, good, sock, timer, intentional, opened>>
    BY <1>4 DEF Relay
  <2>2. CASE /\ up[s] /\ got' = [got EXCEPT ![owner[s]] = Append(@, Head(queue[s]))]
             /\ queue' = [queue EXCEPT ![s] = Tail(@)] /\ UNCHANGED <<up, handler, cancelled>>
    BY <2>1, <2>2, GivenPreserves
  <2>3. CASE /\ ~ up[s] /\ queue' = [queue EXCEPT ![s] = Tail(@)]
             /\ UNCHANGED <<up, handler, cancelled, got>>
    BY <2>1, <2>3, DroppedPreserves
  <2>4. CASE Return(s) /\ UNCHANGED got
    BY <2>1, <2>4, EndPreserves DEF clientVars
  <2> QED
    BY <1>4, <2>2, <2>3, <2>4 DEF Relay
<1>5. ASSUME NEW s \in Conns, Upgrade(s) \/ Subscribe(s) \/ PumpEnds(s) \/ Release(s) PROVE Inv'
  BY <1>5, ServePreserves
<1>6. ASSUME NEW lost \in SUBSET Conns, Publish(lost) PROVE Inv'
  BY <1>6, PublishPreserves
<1>7. CASE UNCHANGED vars
  BY <1>7 DEF vars, env, serverVars, clientVars, Inv, TypeOK, Subscribed, Wired, Ordered
<1> QED
  BY <1>1, <1>2, <1>3, <1>4, <1>5, <1>6, <1>7 DEF Next, Unprompted, Serve

\* It holds at first.
LEMMA InitOK == Init => Inv
<1> SUFFICES ASSUME Init PROVE Inv
  OBVIOUS
<1>1. 0 \in 0..MaxMessages /\ 0 \in 0..MaxFaults /\ << >> \in Seq(1..MaxMessages)
  BY LiveSocketAssumption
<1>2. TypeOK
  BY <1>1 DEF Init, TypeOK, Handlers, Subscribed
<1> QED
  BY <1>2 DEF Init, Inv, Wired, Ordered, Increasing, AllBelow, Precedes

\* The inductive invariant: one open connection for a client, and only news on it.
THEOREM Invariant == Spec => []Inv
BY InitOK, StepsPreserve, PTL DEF Spec

\* Every variable keeps its type; a connection in use belongs to its client.
THEOREM TypeCorrect == Spec => []TypeOK
BY Invariant, PTL DEF Inv

\* For any number of reconnections: each message once, in the order of the channel.
THEOREM InOrder == Spec => []InOrderOnce
<1>1. Inv => InOrderOnce
  BY DEF Inv, Ordered, Increasing, InOrderOnce
<1> QED
  BY <1>1, Invariant, PTL

(***************************************************************************)
(* The socket behind the feed.                                             *)
(***************************************************************************)

Entries == [by : Instances, seq : Positions, key : Keys]

\* The messages are the announcements, each collector's in the order of the stream
\* and each with its row.
Followed ==
    /\ announced \in Seq(Entries) /\ Len(announced) = published
    /\ \A m, n \in DOMAIN announced :
          m < n /\ announced[m].by = announced[n].by => announced[m].seq <= announced[n].seq
    /\ \A n \in DOMAIN announced : announced[n].key \in recorded

LEMMA AnnouncedFollows ==
    ASSUME TypeOK, Followed, NEW by \in Instances, NEW seq \in Positions, NEW k \in Keys, NEW lost,
           Feed!Announce(by, seq, k), Publish(lost)
    PROVE  Followed'
<1> DEFINE new == [by |-> by, seq |-> seq, key |-> k]
<1>1. /\ announced' = Append(announced, new) /\ recorded' = recorded /\ k \in recorded
      /\ \A n \in DOMAIN announced : announced[n].by = by => announced[n].seq <= seq
  BY DEF Feed!Announce
<1>2. new \in Entries /\ new.by = by /\ new.seq = seq /\ new.key = k
  BY DEF Entries
<1>3. announced \in Seq(Entries) /\ Len(announced) = published /\ published' = published + 1
  BY DEF Followed, Publish
<1> HIDE DEF new
<1>4. /\ announced' \in Seq(Entries) /\ Len(announced') = published'
      /\ Len(announced) \in Nat /\ DOMAIN announced = 1..Len(announced)
      /\ DOMAIN announced' = 1..(Len(announced) + 1)
      /\ announced'[Len(announced) + 1] = new
      /\ \A n \in 1..Len(announced) : announced'[n] = announced[n]
  BY <1>1, <1>2, <1>3
<1>5. ASSUME NEW m \in DOMAIN announced', NEW n \in DOMAIN announced', m < n,
             announced'[m].by = announced'[n].by
      PROVE  announced'[m].seq <= announced'[n].seq
  <2>1. m \in DOMAIN announced /\ announced'[m] = announced[m]
    BY <1>4, <1>5
  <2>2. CASE n = Len(announced) + 1
    BY <1>1, <1>2, <1>4, <1>5, <2>1, <2>2
  <2>3. CASE n # Len(announced) + 1
    <3>1. n \in DOMAIN announced /\ announced'[n] = announced[n]
      BY <1>4, <2>3
    <3> QED
      BY <1>5, <2>1, <3>1 DEF Followed
  <2> QED
    BY <2>2, <2>3
<1>6. ASSUME NEW n \in DOMAIN announced' PROVE announced'[n].key \in recorded'
  <2>1. CASE n = Len(announced) + 1
    BY <1>1, <1>2, <1>4, <2>1
  <2>2. CASE n # Len(announced) + 1
    <3>1. n \in DOMAIN announced /\ announced'[n] = announced[n]
      BY <1>4, <2>2
    <3> QED
      BY <1>1, <3>1 DEF Followed
  <2> QED
    BY <2>1, <2>2
<1> QED
  BY <1>4, <1>5, <1>6 DEF Followed

\* Nothing else publishes.
LEMMA PublishedStays ==
    ASSUME Unprompted
    PROVE  published' = published
<1>1. CASE Environment
  BY <1>1 DEF Environment, Expire, Logout, Login, Break
<1>2. ASSUME NEW c \in Clients, Client(c) PROVE published' = published
  BY <1>2 DEF Client, Connect, TimerFires, OnClose, Disconnect, ConnectNow, env
<1>3. ASSUME NEW s \in Conns, Serve(s) PROVE published' = published
  BY <1>3 DEF Serve, Refuse, Upgrade, Subscribe, Unavailable, Done, Relay, env
<1>4. ASSUME NEW s \in Conns, PumpEnds(s) \/ Release(s) PROVE published' = published
  BY <1>4 DEF PumpEnds, Release, env
<1> QED
  BY <1>1, <1>2, <1>3, <1>4 DEF Unprompted

\* Every step of the path is one of the socket, or none.
LEMMA PathStepsAreSteps == [PathNext]_<<vars, feed>> => [Next]_vars
<1> SUFFICES ASSUME PathNext PROVE [Next]_vars
  OBVIOUS
<1>1. CASE Stored
  BY <1>1 DEF Stored
<1>2. CASE Relayed
  BY <1>2 DEF Relayed, Next
<1>3. CASE OfTheSocket
  BY <1>3 DEF OfTheSocket, Next
<1> QED
  BY <1>1, <1>2, <1>3 DEF PathNext

\* And it keeps the feed in order.
LEMMA PathStepsPreserve ==
    Inv /\ Followed /\ [PathNext]_<<vars, feed>> => Inv' /\ Followed'
<1> SUFFICES ASSUME Inv, Followed, [PathNext]_<<vars, feed>> PROVE Followed'
  BY PathStepsAreSteps, StepsPreserve
<1>1. CASE Stored
  <2>1. PICK k \in Keys : Feed!Record(k)
    BY <1>1 DEF Stored
  <2>2. announced' = announced /\ recorded \subseteq recorded' /\ UNCHANGED vars
    BY <1>1, <2>1 DEF Stored, Feed!Record
  <2>3. published' = published
    BY <2>2 DEF vars, env
  <2> QED
    BY <2>2, <2>3 DEF Followed
<1>2. CASE Relayed
  <2>1. PICK by \in Instances, seq \in Positions, k \in Keys, lost \in SUBSET Conns :
            Feed!Announce(by, seq, k) /\ Publish(lost)
    BY <1>2 DEF Relayed
  <2> QED
    BY <2>1, AnnouncedFollows DEF Inv
<1>3. CASE OfTheSocket
  BY <1>3, PublishedStays DEF OfTheSocket, feed, Followed
<1>4. CASE UNCHANGED <<vars, feed>>
  BY <1>4 DEF vars, env, feed, Followed
<1> QED
  BY <1>1, <1>2, <1>3, <1>4 DEF PathNext

\* What a client has got are announcements.
LEMMA GotAnnounced ==
    ASSUME Inv, Followed, NEW c \in Clients, NEW i \in DOMAIN got[c]
    PROVE  got[c][i] \in DOMAIN announced /\ got[c][i] \in Nat
<1>1. MaxMessages \in Nat /\ got[c] \in Seq(1..MaxMessages) /\ AllBelow(got[c], published)
      /\ published \in Nat
  BY LiveSocketAssumption DEF Inv, TypeOK, Ordered
<1>2. got[c][i] \in 1..MaxMessages /\ got[c][i] \in Nat /\ got[c][i] <= published
  BY <1>1, Elements DEF AllBelow
<1>3. DOMAIN announced = 1..published
  BY DEF Followed
<1> QED
  BY <1>1, <1>2, <1>3

\* The socket behind the feed is a live socket: what holds of LiveSocket holds there.
THEOREM PathIsLiveSocket == PathSpec => Spec
<1>1. PathInit => Init
  BY DEF PathInit
<1> QED
  BY <1>1, PathStepsAreSteps, PTL DEF PathSpec, Spec

\* From the topic to the browser: what a dashboard is shown of one collector follows
\* the stream of readings, and each of it has its row.
THEOREM ShownInOrder == PathSpec => []ShownInStreamOrder
<1>1. PathInit => Inv /\ Followed
  <2>1. Init => Inv
    BY InitOK
  <2>2. PathInit => announced = << >> /\ published = 0
    BY DEF PathInit, Init, Feed!Init
  <2>3. << >> \in Seq(Entries) /\ Len(<< >>) = 0 /\ DOMAIN << >> = {}
    OBVIOUS
  <2> QED
    BY <2>1, <2>2, <2>3 DEF PathInit, Followed
<1>2. Inv /\ Followed => ShownInStreamOrder
  <2> SUFFICES ASSUME Inv, Followed, NEW c \in Clients, NEW i \in DOMAIN got[c], NEW j \in DOMAIN got[c]
               PROVE  LET a == announced[got[c][i]]
                          b == announced[got[c][j]]
                      IN  /\ a.key \in recorded
                          /\ (i < j /\ a.by = b.by) => a.seq <= b.seq
    BY DEF ShownInStreamOrder
  <2>1. got[c][i] \in DOMAIN announced /\ got[c][j] \in DOMAIN announced
    BY GotAnnounced
  <2>2. i < j => got[c][i] < got[c][j]
    BY DEF Inv, Ordered, Increasing
  <2> QED
    BY <2>1, <2>2 DEF Followed
<1> QED
  BY <1>1, <1>2, PathStepsPreserve, PTL DEF PathSpec

=============================================================================

----------------------------- MODULE LiveSocket ------------------------------
(***************************************************************************)
(* The live feed between Redis and the browser: LiveWebSocket, the handler *)
(* of /ws/live with its read pump and its subscription to cityflow:live,   *)
(* and TrafficWebSocket, the client that reconnects.                       *)
(*                                                                         *)
(* A client is one TrafficWebSocket object, from renderDashboard to        *)
(* destroyDashboard.  Delays and backoff are not in the model: a timer     *)
(* that is set may fire.                                                   *)
(***************************************************************************)
EXTENDS Naturals, Sequences

CONSTANTS Clients,
          Conns,         \* bound: connections, with their handlers, at once
          NoConn, Nobody,
          MaxMessages,   \* bound: messages on cityflow:live
          MaxFaults      \* bound: connections that break

ASSUME LiveSocketAssumption == /\ MaxMessages \in Nat /\ MaxFaults \in Nat
                               /\ NoConn \notin Conns /\ Nobody \notin Clients

VARIABLES
    token,         \* what localStorage holds: "valid", "expired" or "none"
    redisUp,       \* Redis answered when the API started
    published, faults,
    owner,         \* [Conns -> client, or Nobody while the slot is free]
    up,            \* [Conns -> both ends still see the connection open]
    handler,       \* [Conns -> where LiveWebSocket is]
    pump,          \* [Conns -> the read pump runs]
    cancelled,     \* [Conns -> ctx of the handler is done]
    good,          \* [Conns -> the token in its URL is valid]
    queue,         \* [Conns -> messages its subscription holds]
    sock,          \* [Clients -> this.ws]
    timer,         \* [Clients -> reconnectTimer is set]
    intentional,   \* [Clients -> intentionalClose]
    opened,        \* [Clients -> connect was called at least once]
    got            \* [Clients -> messages given to onMessage]

env        == <<token, redisUp, published, faults>>
serverVars == <<owner, up, handler, pump, cancelled, good, queue>>
clientVars == <<sock, timer, intentional, opened, got>>
vars == <<env, serverVars, clientVars>>

Handlers == {"none", "request", "upgraded", "relaying", "returned"}

Init ==
    /\ token = "valid" /\ redisUp \in BOOLEAN /\ published = 0 /\ faults = 0
    /\ owner = [s \in Conns |-> Nobody]
    /\ up = [s \in Conns |-> FALSE]
    /\ handler = [s \in Conns |-> "none"]
    /\ pump = [s \in Conns |-> FALSE]
    /\ cancelled = [s \in Conns |-> FALSE]
    /\ good = [s \in Conns |-> FALSE]
    /\ queue = [s \in Conns |-> << >>]
    /\ sock = [c \in Clients |-> NoConn]
    /\ timer = [c \in Clients |-> FALSE]
    /\ intentional = [c \in Clients |-> FALSE]
    /\ opened = [c \in Clients |-> FALSE]
    /\ got = [c \in Clients |-> << >>]

-----------------------------------------------------------------------------
(* Around them. *)

\* Its day is over, and that of the tokens given out before it.
Expire == /\ token = "valid"
          /\ token' = "expired"
          /\ good' = [s \in Conns |-> FALSE]
          /\ UNCHANGED <<redisUp, published, faults, owner, up, handler, pump, cancelled, queue,
                         clientVars>>

\* Another tab logs out: the token is forgotten, and stays valid.
Logout == /\ token # "none"
          /\ token' = "none"
          /\ UNCHANGED <<redisUp, published, faults, serverVars, clientVars>>

\* Another tab logs in.
Login == /\ token # "valid"
         /\ token' = "valid"
         /\ UNCHANGED <<redisUp, published, faults, serverVars, clientVars>>

Subscribed(s) == handler[s] = "relaying"

\* Redis hands a message to the subscribers; go-redis may lose it for any of
\* them (a full buffer, a connection it has to set up again).
Publish(lost) ==
    /\ published < MaxMessages
    /\ published' = published + 1
    /\ queue' = [s \in Conns |-> IF Subscribed(s) /\ s \notin lost
                                 THEN Append(queue[s], published + 1) ELSE queue[s]]
    /\ UNCHANGED <<token, redisUp, faults, owner, up, handler, pump, cancelled, good, clientVars>>

\* The network, a proxy or the API going down: both ends will find out.
Break(s) ==
    /\ up[s]
    /\ faults < MaxFaults /\ faults' = faults + 1
    /\ up' = [up EXCEPT ![s] = FALSE]
    /\ UNCHANGED <<token, redisUp, published, owner, handler, pump, cancelled, good, queue, clientVars>>

-----------------------------------------------------------------------------
(* TrafficWebSocket. *)

\* connect(), from renderDashboard or the timer.  Without a token it returns and
\* nothing tries again.
ConnectNow(c) ==
    /\ timer' = [timer EXCEPT ![c] = FALSE]
    /\ opened' = [opened EXCEPT ![c] = TRUE]
    /\ \/ /\ token = "none"
          /\ UNCHANGED <<serverVars, sock>>
       \/ /\ token # "none"
          /\ \E s \in Conns :
                /\ owner[s] = Nobody
                /\ owner' = [owner EXCEPT ![s] = c]
                /\ up' = [up EXCEPT ![s] = TRUE]
                /\ handler' = [handler EXCEPT ![s] = "request"]
                /\ good' = [good EXCEPT ![s] = token = "valid"]
                /\ sock' = [sock EXCEPT ![c] = s]
          /\ UNCHANGED <<pump, cancelled, queue>>
    /\ UNCHANGED <<env, intentional, got>>

Connect(c) == ~opened[c] /\ ~intentional[c] /\ ConnectNow(c)

TimerFires(c) == timer[c] /\ ConnectNow(c)

OnClose_Slip(c) ==
    /\ sock[c] # NoConn
    /\ timer' = [timer EXCEPT ![c] = TRUE]
    /\ sock' = [sock EXCEPT ![c] = NoConn]
    /\ UNCHANGED <<env, serverVars, intentional, opened, got>>

OnCloseGivesUp_Slip(c) ==
    /\ sock[c] # NoConn /\ ~up[sock[c]]
    /\ timer' = [timer EXCEPT ![c] = token = "valid"]
    /\ sock' = [sock EXCEPT ![c] = NoConn]
    /\ UNCHANGED <<env, serverVars, intentional, opened, got>>

\* onclose: the connection is gone, was refused or was ended by the handler.
OnClose(c) ==
    /\ sock[c] # NoConn /\ ~up[sock[c]]
    /\ timer' = [timer EXCEPT ![c] = TRUE]
    /\ sock' = [sock EXCEPT ![c] = NoConn]
    /\ UNCHANGED <<env, serverVars, intentional, opened, got>>

\* disconnect(), from destroyDashboard: the timer is cleared, the socket closed,
\* and its onclose schedules nothing.
Disconnect(c) ==
    /\ opened[c] /\ ~intentional[c]
    /\ intentional' = [intentional EXCEPT ![c] = TRUE]
    /\ timer' = [timer EXCEPT ![c] = FALSE]
    /\ up' = [s \in Conns |-> IF s = sock[c] THEN FALSE ELSE up[s]]
    /\ sock' = [sock EXCEPT ![c] = NoConn]
    /\ UNCHANGED <<env, owner, handler, pump, cancelled, good, queue, opened, got>>

-----------------------------------------------------------------------------
(* LiveWebSocket. *)

\* The deferred calls: the subscription is closed and the connection with it.
Return(s) ==
    /\ handler' = [handler EXCEPT ![s] = "returned"]
    /\ up' = [up EXCEPT ![s] = FALSE]
    /\ cancelled' = [cancelled EXCEPT ![s] = TRUE]
    /\ queue' = [queue EXCEPT ![s] = << >>]

\* 401, or the upgrade fails because the client is gone.
Refuse(s) ==
    /\ handler[s] = "request"
    /\ ~good[s] \/ ~up[s]
    /\ Return(s)
    /\ UNCHANGED <<env, owner, pump, good, clientVars>>

\* The token is valid and the connection upgraded (the client may have left all
\* the same); the read pump is started.
Upgrade(s) ==
    /\ handler[s] = "request"
    /\ good[s]
    /\ handler' = [handler EXCEPT ![s] = "upgraded"]
    /\ pump' = [pump EXCEPT ![s] = TRUE]
    /\ UNCHANGED <<env, owner, up, cancelled, good, queue, clientVars>>

\* cache.Subscribe: messages count from here on.
Subscribe(s) ==
    /\ handler[s] = "upgraded" /\ redisUp
    /\ handler' = [handler EXCEPT ![s] = "relaying"]
    /\ UNCHANGED <<env, owner, up, pump, cancelled, good, queue, clientVars>>

\* It returns nil: an error message, and the handler returns.
Unavailable(s) ==
    /\ handler[s] = "upgraded" /\ ~redisUp
    /\ Return(s)
    /\ UNCHANGED <<env, owner, pump, good, clientVars>>

PumpEnds_Slip(s) ==
    /\ pump[s] /\ ~up[s]
    /\ pump' = [pump EXCEPT ![s] = FALSE]
    /\ UNCHANGED <<env, owner, up, handler, cancelled, good, queue, clientVars>>

\* ReadMessage fails: the pump cancels ctx and is gone.
PumpEnds(s) ==
    /\ pump[s] /\ ~up[s]
    /\ pump' = [pump EXCEPT ![s] = FALSE]
    /\ cancelled' = [cancelled EXCEPT ![s] = TRUE]
    /\ UNCHANGED <<env, owner, up, handler, good, queue, clientVars>>

\* case <-ctx.Done()
Done(s) ==
    /\ handler[s] = "relaying" /\ cancelled[s]
    /\ Return(s)
    /\ UNCHANGED <<env, owner, pump, good, clientVars>>

\* case msg := <-ch: the write reaches the client while the connection is up;
\* when it no longer is, the write may fail or vanish in a buffer.
Relay(s) ==
    /\ handler[s] = "relaying" /\ queue[s] # << >>
    /\ \/ /\ up[s]
          /\ got' = [got EXCEPT ![owner[s]] = Append(@, Head(queue[s]))]
          /\ queue' = [queue EXCEPT ![s] = Tail(@)]
          /\ UNCHANGED <<up, handler, cancelled>>
       \/ /\ ~up[s]
          /\ queue' = [queue EXCEPT ![s] = Tail(@)]
          /\ UNCHANGED <<up, handler, cancelled, got>>
       \/ /\ ~up[s]
          /\ Return(s)
          /\ UNCHANGED got
    /\ UNCHANGED <<env, owner, pump, good, sock, timer, intentional, opened>>

\* Handler, pump and client are done with the connection: its slot is free.
Release(s) ==
    /\ handler[s] = "returned" /\ ~pump[s]
    /\ \A c \in Clients : sock[c] # s
    /\ owner' = [owner EXCEPT ![s] = Nobody]
    /\ handler' = [handler EXCEPT ![s] = "none"]
    /\ cancelled' = [cancelled EXCEPT ![s] = FALSE]
    /\ good' = [good EXCEPT ![s] = FALSE]
    /\ UNCHANGED <<env, up, pump, queue, clientVars>>

-----------------------------------------------------------------------------
Environment == Expire \/ Logout \/ Login \/ \E s \in Conns : Break(s)

Client(c) == Connect(c) \/ TimerFires(c) \/ OnClose(c) \/ Disconnect(c)

Serve(s) == Refuse(s) \/ Upgrade(s) \/ Subscribe(s) \/ Unavailable(s) \/ Done(s) \/ Relay(s)

\* Every step but the arrival of a message.
Unprompted == \/ Environment
              \/ \E c \in Clients : Client(c)
              \/ \E s \in Conns : Serve(s) \/ PumpEnds(s) \/ Release(s)

Next == Unprompted \/ \E lost \in SUBSET Conns : Publish(lost)

Spec == Init /\ [][Next]_vars

\* The browser opens the socket, delivers its events and fires its timers; the
\* goroutines run, and a broken connection shows in a read in the end.
Fairness ==
    /\ \A c \in Clients : WF_vars(Connect(c)) /\ WF_vars(TimerFires(c)) /\ WF_vars(OnClose(c))
    /\ \A s \in Conns : WF_vars(Serve(s)) /\ WF_vars(PumpEnds(s)) /\ WF_vars(Release(s))

-----------------------------------------------------------------------------
(* What must hold. *)

\* Every variable has its type; only a handler that relays holds messages; a
\* connection in use belongs to somebody.
TypeOK ==
    /\ token \in {"valid", "expired", "none"} /\ redisUp \in BOOLEAN
    /\ published \in 0..MaxMessages /\ faults \in 0..MaxFaults
    /\ owner \in [Conns -> Clients \union {Nobody}]
    /\ up \in [Conns -> BOOLEAN] /\ pump \in [Conns -> BOOLEAN] /\ cancelled \in [Conns -> BOOLEAN]
    /\ good \in [Conns -> BOOLEAN]
    /\ handler \in [Conns -> Handlers]
    /\ queue \in [Conns -> Seq(1..MaxMessages)]
    /\ sock \in [Clients -> Conns \union {NoConn}]
    /\ timer \in [Clients -> BOOLEAN] /\ intentional \in [Clients -> BOOLEAN]
    /\ opened \in [Clients -> BOOLEAN]
    /\ got \in [Clients -> Seq(1..MaxMessages)]
    /\ \A s \in Conns : /\ queue[s] # << >> => Subscribed(s)
                        /\ handler[s] = "none" <=> owner[s] = Nobody
    /\ \A c \in Clients : sock[c] # NoConn => owner[sock[c]] = c /\ ~timer[c]

\* A client sees each message at most once and in the order of the channel,
\* however often it reconnects and whatever its old handlers still hold.
InOrderOnce ==
    \A c \in Clients : \A i, j \in DOMAIN got[c] : i < j => got[c][i] < got[c][j]

\* Once a dashboard is destroyed, no handler goes on relaying for it for ever:
\* no subscription outlives its reader.
SubscriptionsEnd ==
    \A c \in Clients :
        [](intentional[c] => <>[](\A s \in Conns : owner[s] = c => ~Subscribed(s)))

\* The browser is on the feed.
Live(c) == sock[c] # NoConn /\ up[sock[c]] /\ Subscribed(sock[c])

\* The API has Redis, the token stays valid at last, the dashboard stays open.
Favourable(c) == redisUp /\ <>[](token = "valid") /\ [](~intentional[c])

\* Whatever connections broke and requests were refused: a client ends up on the
\* feed for good, if there is a token at all times, expired ones included (a connect
\* without a token is the last one: nothing tries again).
ReconnectsWithToken ==
    \A c \in Clients : Favourable(c) /\ [](token # "none") => <>[]Live(c)
=============================================================================

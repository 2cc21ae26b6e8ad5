------------------------------ MODULE Dashboard --------------------------------
(***************************************************************************)
(* services/dashboard: one tab of the browser.  The token in localStorage  *)
(* decides which page navigate shows; both pages send requests whose       *)
(* answers come late, in any order, and perhaps to a page that is gone.    *)
(* Other tabs share the token, and nothing tells a page that they did.     *)
(*                                                                         *)
(* JavaScript runs one callback at a time: an action is what happens       *)
(* between an event (a click, a timer, an answer, a message) and the next  *)
(* wait for the network.  One road: what is shown of it is the number of   *)
(* a reading, and of a prediction, 0 for none.  The socket is that of      *)
(* LiveSocket as long as it stays connected.                               *)
(***************************************************************************)
EXTENDS Naturals, Bags, BagsExt

CONSTANTS MaxTokens,     \* bound: tokens issued
          MaxReadings,   \* bound: readings published
          MaxRequests,   \* bound: requests under way when another one is sent
          None           \* no token

ASSUME DashboardAssumption ==
    MaxTokens \in Nat /\ MaxReadings \in Nat /\ MaxRequests \in Nat /\ None \notin Nat

VARIABLES token,       \* localStorage: the number of a token, or None
          issued,      \* tokens issued so far
          expired,     \* of them, those that have expired
          page,        \* "auth", "dashboard"
          sockets,     \* TrafficWebSockets that are not disconnected
          timers,      \* intervals of fetchPredictions that are not cleared
          requests,    \* bag of requests under way
          published,   \* readings published and stored so far
          feed,        \* the last reading that went past the socket
          shown,       \* liveState
          predicted    \* predictionsState

views   == <<page, sockets, timers, feed, shown, predicted>>
outside == <<issued, expired, published>>
vars    == <<token, requests, views, outside>>

Tokens   == 1..MaxTokens
Kinds    == {"login", "logout", "roads", "traffic", "predictions"}
Requests == [kind : Kinds, token : Tokens \union {None}, live : BOOLEAN]

\* A request takes the token along that is stored when it is sent.
Request(kind, tok) == [kind |-> kind, token |-> tok, live |-> tok # None /\ tok \notin expired]

-----------------------------------------------------------------------------
(* app.js. *)

\* destroyDashboard ends the socket and the interval its variables name.
Ended(count) == IF count > 0 THEN count - 1 ELSE 0

ShowPage_Slip(tok) ==
    /\ token' = tok
    /\ page' = IF tok = None THEN "auth" ELSE "dashboard"
    /\ sockets' = IF tok = None THEN Ended(sockets) ELSE Ended(sockets) + 1
    /\ timers' = IF tok = None THEN timers ELSE timers + 1
    /\ shown' = 0 /\ predicted' = 0 /\ feed' = published

\* navigate: what was shown is destroyed; then comes the page for the token.
ShowPage(tok) ==
    /\ token' = tok
    /\ page' = IF tok = None THEN "auth" ELSE "dashboard"
    /\ sockets' = IF tok = None THEN Ended(sockets) ELSE Ended(sockets) + 1
    /\ timers' = IF tok = None THEN Ended(timers) ELSE Ended(timers) + 1
    /\ shown' = 0 /\ predicted' = 0 /\ feed' = published

\* renderDashboard starts with loadRoads.
Opening(tok) == IF tok = None THEN {} ELSE {Request("roads", tok)}

\* What loadRoads().then sends, whatever became of the roads and of the page.
FollowUp(tok) == {Request("traffic", tok), Request("predictions", tok)}

Init == /\ token \in {None} \union (Tokens \cap {1})
        /\ issued = IF token = None THEN 0 ELSE 1
        /\ expired = {} /\ published = 0
        /\ page = IF token = None THEN "auth" ELSE "dashboard"
        /\ sockets = IF token = None THEN 0 ELSE 1
        /\ timers = IF token = None THEN 0 ELSE 1
        /\ requests = SetToBag(Opening(token))
        /\ feed = 0 /\ shown = 0 /\ predicted = 0

-----------------------------------------------------------------------------
(* The surroundings. *)

Expire(t) == /\ t \in 1..issued \ expired
             /\ expired' = expired \union {t}
             /\ UNCHANGED <<token, requests, views, issued, published>>

\* Another tab of the browser logs in, or logs out or is refused: the token is
\* shared, and no page listens to changes of it.
OtherLogsIn == /\ issued < MaxTokens
               /\ issued' = issued + 1 /\ token' = issued + 1
               /\ UNCHANGED <<requests, views, expired, published>>

OtherLogsOut == /\ token # None
                /\ token' = None
                /\ UNCHANGED <<requests, views, outside>>

OtherTab == OtherLogsIn \/ OtherLogsOut

Publish == /\ published < MaxReadings
           /\ published' = published + 1
           /\ UNCHANGED <<token, requests, views, issued, expired>>

-----------------------------------------------------------------------------
(* Events of the page. *)

Send(kind) == /\ BagCardinality(requests) < MaxRequests
              /\ requests' = BagAdd(requests, Request(kind, token))
              /\ UNCHANGED <<token, views, outside>>

SubmitLogin == page = "auth" /\ Send("login")
ClickLogout == page = "dashboard" /\ Send("logout")
TimerFires  == timers > 0 /\ Send("predictions")

\* handleTrafficUpdate: whatever comes is shown, over a newer reading that
\* loadInitialData found too.
Deliver(i) == /\ sockets > 0 /\ feed < i /\ i <= published
              /\ feed' = i /\ shown' = i
              /\ UNCHANGED <<token, requests, page, sockets, timers, predicted, outside>>

-----------------------------------------------------------------------------
(* Answers.  A request may be refused when its token has expired, and be   *)
(* granted when it had not when it was sent; a login, for what was typed.  *)

Granted(r)  == r \in BagToSet(requests) /\ r.live
Refusable(r) == /\ r \in BagToSet(requests)
                /\ r.kind = "login" \/ r.token = None \/ r.token \in expired

Answered(r, sent) == requests' = BagRemove(requests, r) (+) SetToBag(sent)

LoggedIn(r) ==
    /\ r \in BagToSet(requests) /\ r.kind = "login"
    /\ issued < MaxTokens
    /\ issued' = issued + 1
    /\ ShowPage(issued + 1)
    /\ Answered(r, Opening(issued + 1))
    /\ UNCHANGED <<expired, published>>

Refused_Slip(r) ==
    /\ Refusable(r)
    /\ token' = None
    /\ Answered(r, IF r.kind = "roads" THEN FollowUp(None) ELSE {})
    /\ UNCHANGED <<views, outside>>

\* request: any 401 clears the token, and auth:expired leads to the other page;
\* that of a failed login too.  The rejected loadRoads still runs its .then.
Refused(r) ==
    /\ Refusable(r)
    /\ ShowPage(None)
    /\ Answered(r, IF r.kind = "roads" THEN FollowUp(None) ELSE {})
    /\ UNCHANGED outside

\* Any end of a logout, 401 aside: the token goes, and so does the dashboard.
LoggedOut(r) ==
    /\ r \in BagToSet(requests) /\ r.kind = "logout"
    /\ ShowPage(None)
    /\ Answered(r, {})
    /\ UNCHANGED outside

\* The roads came, or could not be loaded: on to the rest with the token of now.
RoadsDone(r) ==
    /\ r \in BagToSet(requests) /\ r.kind = "roads"
    /\ Answered(r, FollowUp(token))
    /\ UNCHANGED <<token, views, outside>>

\* loadInitialData: the newest reading of the road in the answer, which may come
\* from the cache and be older than what is shown; none (0) leaves it.
TrafficLoaded(r, i) ==
    /\ Granted(r) /\ r.kind = "traffic"
    /\ shown' = IF i = 0 THEN shown ELSE i
    /\ Answered(r, {})
    /\ UNCHANGED <<token, page, sockets, timers, feed, predicted, outside>>

\* fetchPredictions keeps the newer prediction.
PredictionsLoaded(r, i) ==
    /\ Granted(r) /\ r.kind = "predictions"
    /\ predicted' = IF i > predicted THEN i ELSE predicted
    /\ Answered(r, {})
    /\ UNCHANGED <<token, page, sockets, timers, feed, shown, outside>>

Fails_Slip(r) ==
    /\ r \in BagToSet(requests) /\ r.kind \in {"login", "traffic", "predictions"}
    /\ ShowPage(None)
    /\ Answered(r, {})
    /\ UNCHANGED outside

\* The network or the API fails: the error is shown or logged.
Fails(r) == /\ r \in BagToSet(requests) /\ r.kind \in {"login", "traffic", "predictions"}
            /\ Answered(r, {})
            /\ UNCHANGED <<token, views, outside>>

Answer(r) == \/ LoggedIn(r)
             \/ Refused(r)
             \/ LoggedOut(r)
             \/ RoadsDone(r)
             \/ \E i \in 0..published : TrafficLoaded(r, i) \/ PredictionsLoaded(r, i)
             \/ Fails(r)

Next == \/ \E t \in Tokens : Expire(t)
        \/ OtherTab
        \/ Publish
        \/ SubmitLogin \/ ClickLogout \/ TimerFires
        \/ \E i \in 1..MaxReadings : Deliver(i)
        \/ \E r \in BagToSet(requests) : Answer(r)

Spec == Init /\ [][Next]_vars

\* Requests come to an end and intervals go off.  The API may fail now and then,
\* but not whenever it would answer 401.
FairSpec == /\ Spec
            /\ WF_vars(TimerFires)
            /\ \A r \in Requests : WF_vars(r \in BagToSet(requests) /\ Answer(r))
            /\ SF_vars(\E r \in BagToSet(requests) : Refused(r))

-----------------------------------------------------------------------------
(* What must hold. *)

\* Every variable has its type; a token and a request's token were issued, and a
\* request the API may grant carries one.
TypeOK ==
    /\ token \in Tokens \union {None} /\ issued \in 0..MaxTokens
    /\ token # None => token <= issued
    /\ expired \subseteq 1..issued
    /\ page \in {"auth", "dashboard"}
    /\ sockets \in Nat /\ timers \in Nat
    /\ IsABag(requests) /\ BagToSet(requests) \subseteq Requests
    /\ \A r \in BagToSet(requests) : r.live => r.token \in 1..issued
    /\ published \in 0..MaxReadings
    /\ feed \in 0..published /\ shown \in 0..published /\ predicted \in 0..published

\* However often pages replace each other, answers come late and other tabs change
\* the token: there is one socket and one interval while the page is the
\* dashboard, and none of either when it is not.
NothingOutlives ==
    /\ sockets = IF page = "dashboard" THEN 1 ELSE 0
    /\ timers = IF page = "dashboard" THEN 1 ELSE 0

\* Answers to fetchPredictions may overtake each other: a prediction that is shown
\* is replaced by a newer one, or cleared with its page, never by an older one.
PredictionsForward == [][predicted' < predicted => predicted' = 0]_vars

\* The requests of this login: sent with its token, to neither begin nor end one.
Own == \A r \in BagToSet(requests) : r.token = token /\ r.kind \notin {"login", "logout"}

\* Once the answers to requests of earlier pages have come, only the expiry of its
\* token, the user, or another tab ends a login (until then a late 401 may).
SettledLoginHolds ==
    [][token # None /\ token \notin expired /\ Own => token' = token \/ OtherTab]_vars

\* The user gives up: without another login, requests end, though a refused
\* loadRoads sends two more that are refused.
QuietAtLast ==
    <>[](page = "auth" /\ \A r \in BagToSet(requests) : r.kind # "login")
        => <>[](requests = EmptyBag)

\* A login that is over, as far as the API is concerned.
Over == token = None \/ token \in expired

\* A dashboard whose login ended elsewhere, by expiry or in another tab, does not
\* stay: nothing tells it, but fetchPredictions goes off until one is refused.
SessionEndsAtLast == page = "dashboard" /\ Over ~> page = "auth" \/ ~ Over
=============================================================================

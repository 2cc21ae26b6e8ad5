--------------------------- MODULE DashboardProofs ----------------------------
(* Theorems about Dashboard, for any number of logins, readings and requests. *)
EXTENDS Dashboard, TLAPS

(***************************************************************************)
(* The bag of requests: what a request sent or answered does to it.        *)
(***************************************************************************)

\* One more request.
LEMMA SentBag ==
    ASSUME NEW B, IsABag(B), NEW r
    PROVE  IsABag(BagAdd(B, r)) /\ BagToSet(BagAdd(B, r)) = BagToSet(B) \union {r}
<1>1. B \in [DOMAIN B -> {n \in Nat : n > 0}]
  BY DEF IsABag
<1>2. /\ BagAdd(B, r) \in [DOMAIN B \union {r} -> {n \in Nat : n > 0}]
      /\ DOMAIN BagAdd(B, r) = DOMAIN B \union {r}
  <2>1. CASE r \in DOMAIN B
    <3>1. BagAdd(B, r) = [e \in DOMAIN B |-> IF e = r THEN B[e] + 1 ELSE B[e]]
      BY <2>1 DEF BagAdd
    <3>2. DOMAIN B \union {r} = DOMAIN B
      BY <2>1
    <3> QED
      BY <1>1, <3>1, <3>2
  <2>2. CASE r \notin DOMAIN B
    BY <1>1, <2>2 DEF BagAdd
  <2> QED
    BY <2>1, <2>2
<1> QED
  BY <1>2 DEF IsABag, BagToSet

\* One request less, and those that its answer leads to.
LEMMA AnsweredBag ==
    ASSUME NEW B, IsABag(B), NEW r, NEW S
    PROVE  /\ IsABag(BagRemove(B, r) (+) SetToBag(S))
           /\ BagToSet(BagRemove(B, r) (+) SetToBag(S)) \subseteq BagToSet(B) \union S
<1> DEFINE R == BagRemove(B, r)
           T == SetToBag(S)
<1>1. B \in [DOMAIN B -> {n \in Nat : n > 0}]
  BY DEF IsABag
<1>2. R \in [DOMAIN R -> {n \in Nat : n > 0}] /\ DOMAIN R \subseteq DOMAIN B
  <2>1. CASE r \notin DOMAIN B
    BY <1>1, <2>1 DEF BagRemove
  <2>2. CASE r \in DOMAIN B /\ B[r] = 1
    BY <1>1, <2>2 DEF BagRemove
  <2>3. CASE r \in DOMAIN B /\ B[r] # 1
    BY <1>1, <2>3 DEF BagRemove
  <2> QED
    BY <2>1, <2>2, <2>3
<1>3. T \in [S -> {n \in Nat : n > 0}] /\ DOMAIN T = S
  BY DEF SetToBag
<1> HIDE DEF R, T
<1>4. R (+) T \in [DOMAIN R \union DOMAIN T -> {n \in Nat : n > 0}]
  BY <1>2, <1>3 DEF (+)
<1> QED
  BY <1>2, <1>3, <1>4 DEF IsABag, BagToSet, R, T

(***************************************************************************)
(* Types, and the pages.                                                   *)
(***************************************************************************)

Inv == TypeOK /\ NothingOutlives

\* navigate ends what it finds, so that one page remains.
LEMMA PageShown ==
    ASSUME TypeOK, NothingOutlives, NEW tok \in Tokens \union {None}, ShowPage(tok)
    PROVE  /\ NothingOutlives'
           /\ token' = tok /\ page' \in {"auth", "dashboard"}
           /\ sockets' \in Nat /\ timers' \in Nat
           /\ shown' = 0 /\ predicted' = 0 /\ feed' = published
BY DEF TypeOK, NothingOutlives, ShowPage, Ended

\* What a page and its answers send is well-formed.
LEMMA RequestsMade ==
    ASSUME NEW tok \in Tokens \union {None}, NEW kind \in Kinds
    PROVE  /\ Request(kind, tok) \in Requests
           /\ Request(kind, tok).kind = kind /\ Request(kind, tok).token = tok
           /\ Request(kind, tok).live => tok \in Tokens
BY DEF Request, Requests

\* A request of its type that carries an issued token if the API may grant it.
RequestOK(r, last) == r \in Requests /\ (r.live => r.token \in 1..last)

\* Then the bag is of its type.
LEMMA RequestsStay ==
    ASSUME Inv, issued' \in Nat, issued <= issued', NEW new,
           IsABag(requests'), BagToSet(requests') \subseteq BagToSet(requests) \union new,
           \A r \in new : RequestOK(r, issued')
    PROVE  /\ IsABag(requests') /\ BagToSet(requests') \subseteq Requests
           /\ \A r \in BagToSet(requests') : r.live => r.token \in 1..issued'
<1>1. \A r \in BagToSet(requests) : RequestOK(r, issued')
  <2> SUFFICES ASSUME NEW r \in BagToSet(requests) PROVE RequestOK(r, issued')
    OBVIOUS
  <2>1. r \in Requests
    BY DEF Inv, TypeOK
  <2>2. r.live => r.token \in 1..issued'
    BY DEF Inv, TypeOK
  <2> QED
    BY <2>1, <2>2 DEF RequestOK
<1> QED
  BY <1>1 DEF RequestOK

\* What a page sends first, and then, is as it should be.
LEMMA OpeningOK ==
    ASSUME NEW tok \in Tokens \union {None}, NEW last \in Nat, tok # None => tok <= last,
           NEW r \in Opening(tok) \union FollowUp(tok)
    PROVE  RequestOK(r, last)
<1>1. PICK kind \in {"roads", "traffic", "predictions"} : r = Request(kind, tok)
  BY DEF Opening, FollowUp
<1>2. kind \in Kinds
  BY DEF Kinds
<1>3. r \in Requests /\ r.token = tok /\ (r.live => tok \in Tokens)
  BY <1>1, <1>2, RequestsMade
<1>4. r.live => tok \in 1..last
  BY <1>3, DashboardAssumption DEF Tokens
<1> QED
  BY <1>3, <1>4 DEF RequestOK

\* An event that sends a request changes nothing else.
LEMMA SendStep ==
    ASSUME Inv, NEW kind \in Kinds, Send(kind)
    PROVE  Inv'
<1>1. /\ issued' = issued /\ issued \in Nat /\ IsABag(requests)
      /\ token \in Tokens \union {None} /\ (token \in Tokens => token <= issued)
  BY DashboardAssumption DEF Inv, TypeOK, Send, outside, Tokens
<1>2. RequestOK(Request(kind, token), issued')
  <2>1. /\ Request(kind, token) \in Requests
        /\ Request(kind, token).token = token
        /\ Request(kind, token).live => token \in Tokens
    BY <1>1, RequestsMade
  <2> QED
    BY <1>1, <2>1 DEF RequestOK, Tokens
<1>3. /\ IsABag(requests')
      /\ BagToSet(requests') \subseteq BagToSet(requests) \union {Request(kind, token)}
  BY <1>1, SentBag DEF Send
<1>4. /\ IsABag(requests') /\ BagToSet(requests') \subseteq Requests
      /\ \A r \in BagToSet(requests') : r.live => r.token \in 1..issued'
  <2> DEFINE new == {Request(kind, token)}
  <2>1. \A r \in new : RequestOK(r, issued')
    BY <1>2
  <2>2. BagToSet(requests') \subseteq BagToSet(requests) \union new
    BY <1>3
  <2>3. issued' \in Nat /\ issued <= issued'
    BY <1>1
  <2> HIDE DEF new
  <2> QED
    BY <1>3, <2>1, <2>2, <2>3, RequestsStay
<1> QED
  BY <1>4 DEF Inv, TypeOK, NothingOutlives, Send, views, outside

\* The requests after an answer, given that those it sends are as they should be.
LEMMA AnswerStep ==
    ASSUME Inv, NEW r, NEW new, Answered(r, new), issued' \in Nat, issued <= issued',
           \A q \in new : RequestOK(q, issued')
    PROVE  /\ IsABag(requests') /\ BagToSet(requests') \subseteq Requests
           /\ \A q \in BagToSet(requests') : q.live => q.token \in 1..issued'
<1>1. IsABag(requests)
  BY DEF Inv, TypeOK
<1>2. IsABag(requests') /\ BagToSet(requests') \subseteq BagToSet(requests) \union new
  BY <1>1, AnsweredBag DEF Answered
<1> QED
  BY <1>2, RequestsStay

\* An answer that shows another page.
LEMMA PageStep ==
    ASSUME Inv, NEW r, NEW new, Answered(r, new),
           NEW tok \in Tokens \union {None}, tok # None => tok <= issued', ShowPage(tok),
           issued' \in 0..MaxTokens, issued <= issued',
           expired' = expired, published' = published,
           \A q \in new : RequestOK(q, issued')
    PROVE  Inv'
<1>1. issued \in Nat /\ issued' \in Nat /\ MaxTokens \in Nat
  BY DashboardAssumption DEF Inv, TypeOK
<1>2. /\ IsABag(requests') /\ BagToSet(requests') \subseteq Requests
      /\ \A q \in BagToSet(requests') : q.live => q.token \in 1..issued'
  BY <1>1, AnswerStep
<1>3. /\ NothingOutlives'
      /\ token' = tok /\ page' \in {"auth", "dashboard"}
      /\ sockets' \in Nat /\ timers' \in Nat
      /\ shown' = 0 /\ predicted' = 0 /\ feed' = published
  BY PageShown DEF Inv
<1>4. /\ published' \in 0..MaxReadings /\ feed' \in 0..published'
      /\ shown' \in 0..published' /\ predicted' \in 0..published'
  BY <1>3, DashboardAssumption DEF Inv, TypeOK
<1>5. expired' \subseteq 1..issued'
  BY <1>1 DEF Inv, TypeOK
<1> QED
  BY <1>2, <1>3, <1>4, <1>5 DEF Inv, TypeOK

\* An answer that the page only notes.
LEMMA NotedStep ==
    ASSUME Inv, NEW r, NEW new, Answered(r, new),
           UNCHANGED <<token, page, sockets, timers, feed, outside>>,
           shown' \in 0..published, predicted' \in 0..published,
           \A q \in new : RequestOK(q, issued)
    PROVE  Inv'
<1>1. issued' = issued /\ issued \in Nat
  BY DashboardAssumption DEF Inv, TypeOK, outside
<1>2. \A q \in new : RequestOK(q, issued')
  BY <1>1
<1>3. /\ IsABag(requests') /\ BagToSet(requests') \subseteq Requests
      /\ \A q \in BagToSet(requests') : q.live => q.token \in 1..issued'
  BY <1>1, <1>2, AnswerStep
<1> QED
  BY <1>3 DEF Inv, TypeOK, NothingOutlives, outside

\* Another tab moves the token on, or takes it away.
LEMMA OtherTabStep == Inv /\ OtherTab => Inv'
<1> SUFFICES ASSUME Inv, OtherTab PROVE Inv'
  OBVIOUS
<1>1. CASE OtherLogsOut
  BY <1>1 DEF OtherLogsOut, Inv, TypeOK, NothingOutlives, views, outside
<1>2. CASE OtherLogsIn
  <2>1. /\ issued \in Nat /\ issued' = issued + 1 /\ issued' \in 0..MaxTokens
        /\ token' = issued' /\ token' \in Tokens
        /\ UNCHANGED <<requests, views, expired, published>>
    BY <1>2, DashboardAssumption DEF OtherLogsIn, Inv, TypeOK, Tokens
  <2>2. expired' \subseteq 1..issued'
    BY <2>1 DEF Inv, TypeOK
  <2>3. \A r \in BagToSet(requests') : r.live => r.token \in 1..issued'
    BY <2>1 DEF Inv, TypeOK
  <2> QED
    BY <2>1, <2>2, <2>3 DEF Inv, TypeOK, NothingOutlives, views
<1> QED
  BY <1>1, <1>2 DEF OtherTab

\* Every answer preserves the invariant, however late it comes.
LEMMA AnswersPreserve ==
    ASSUME Inv, NEW r, Answer(r)
    PROVE  Inv'
<1>1. /\ issued \in 0..MaxTokens /\ issued \in Nat /\ token \in Tokens \union {None}
      /\ (token # None => token <= issued) /\ MaxTokens \in Nat /\ None \notin Tokens
  BY DashboardAssumption DEF Inv, TypeOK, Tokens
<1>2. shown \in 0..published /\ predicted \in 0..published
  BY DEF Inv, TypeOK
<1>3. CASE LoggedIn(r)
  <2> DEFINE tok == issued + 1
             new == Opening(issued + 1)
  <2>1. tok \in Tokens /\ issued' = tok /\ issued' \in 0..MaxTokens /\ tok # None
    BY <1>1, <1>3 DEF LoggedIn, Tokens
  <2>2. \A q \in new : RequestOK(q, issued')
    BY <1>1, <2>1, OpeningOK
  <2>3. /\ ShowPage(tok) /\ Answered(r, new)
        /\ expired' = expired /\ published' = published
    BY <1>3 DEF LoggedIn
  <2> HIDE DEF new
  <2> QED
    BY <1>1, <2>1, <2>2, <2>3, PageStep
<1>4. CASE Refused(r)
  <2> DEFINE new == IF r.kind = "roads" THEN FollowUp(None) ELSE {}
  <2>1. issued' = issued /\ expired' = expired /\ published' = published
    BY <1>4 DEF Refused, outside
  <2>2. \A q \in new : RequestOK(q, issued')
    BY <1>1, <2>1, OpeningOK
  <2>3. ShowPage(None) /\ Answered(r, new)
    BY <1>4 DEF Refused
  <2> HIDE DEF new
  <2> QED
    BY <1>1, <2>1, <2>2, <2>3, PageStep
<1>5. CASE LoggedOut(r)
  <2>1. issued' = issued /\ expired' = expired /\ published' = published
    BY <1>5 DEF LoggedOut, outside
  <2>2. ShowPage(None) /\ Answered(r, {})
    BY <1>5 DEF LoggedOut
  <2> QED
    BY <1>1, <2>1, <2>2, PageStep
<1>6. CASE RoadsDone(r)
  <2> DEFINE new == FollowUp(token)
  <2>1. \A q \in new : RequestOK(q, issued)
    BY <1>1, OpeningOK
  <2>2. Answered(r, new) /\ UNCHANGED <<token, views, outside>>
    BY <1>6 DEF RoadsDone
  <2> HIDE DEF new
  <2> QED
    BY <1>2, <2>1, <2>2, NotedStep DEF views
<1>7. CASE \E i \in 0..published : TrafficLoaded(r, i)
  BY <1>2, <1>7, NotedStep DEF TrafficLoaded
<1>8. CASE \E i \in 0..published : PredictionsLoaded(r, i)
  BY <1>2, <1>8, NotedStep DEF PredictionsLoaded
<1>9. CASE Fails(r)
  BY <1>2, <1>9, NotedStep DEF Fails, views
<1> QED
  BY <1>3, <1>4, <1>5, <1>6, <1>7, <1>8, <1>9 DEF Answer

\* So does every step.
LEMMA StepsPreserve == Inv /\ [Next]_vars => Inv'
<1> SUFFICES ASSUME Inv, [Next]_vars PROVE Inv'
  OBVIOUS
<1>1. ASSUME NEW t \in Tokens, Expire(t) PROVE Inv'
  BY <1>1 DEF Expire, Inv, TypeOK, NothingOutlives, views
<1>2. CASE Publish
  <2>1. published' \in 0..MaxReadings /\ published <= published'
    BY <1>2, DashboardAssumption DEF Publish, Inv, TypeOK
  <2>2. feed \in 0..published' /\ shown \in 0..published' /\ predicted \in 0..published'
    BY <2>1, DashboardAssumption DEF Inv, TypeOK
  <2> QED
    BY <1>2, <2>1, <2>2 DEF Publish, Inv, TypeOK, NothingOutlives, views
<1>3. CASE SubmitLogin
  BY <1>3, SendStep DEF SubmitLogin, Kinds
<1>4. CASE ClickLogout
  BY <1>4, SendStep DEF ClickLogout, Kinds
<1>5. CASE TimerFires
  BY <1>5, SendStep DEF TimerFires, Kinds
<1>6. ASSUME NEW i \in 1..MaxReadings, Deliver(i) PROVE Inv'
  BY <1>6, DashboardAssumption
     DEF Deliver, Inv, TypeOK, NothingOutlives, outside
<1>7. ASSUME NEW r \in BagToSet(requests), Answer(r) PROVE Inv'
  BY <1>7, AnswersPreserve
<1>8. CASE UNCHANGED vars
  BY <1>8 DEF vars, views, outside, Inv, TypeOK, NothingOutlives
<1>9. CASE OtherTab
  BY <1>9, OtherTabStep
<1> QED
  BY <1>1, <1>2, <1>3, <1>4, <1>5, <1>6, <1>7, <1>8, <1>9 DEF Next

\* A tab opens in the invariant.
LEMMA InitOK == Init => Inv
<1> SUFFICES ASSUME Init PROVE Inv
  OBVIOUS
<1>1. issued \in 0..MaxTokens /\ token \in Tokens \union {None} /\ (token # None => token = issued)
  BY DashboardAssumption DEF Init, Tokens
<1>2. \A q \in Opening(token) : RequestOK(q, issued)
  BY <1>1, DashboardAssumption, OpeningOK
<1>3. IsABag(requests) /\ BagToSet(requests) = Opening(token)
  BY DEF Init, SetToBag, IsABag, BagToSet
<1>4. /\ BagToSet(requests) \subseteq Requests
      /\ \A q \in BagToSet(requests) : q.live => q.token \in 1..issued
  BY <1>2, <1>3 DEF RequestOK
<1> QED
  BY <1>1, <1>3, <1>4, DashboardAssumption DEF Init, Inv, TypeOK, NothingOutlives

\* The inductive invariant: the types, and one socket and interval for a dashboard.
THEOREM Invariant == Spec => []Inv
BY InitOK, StepsPreserve, PTL DEF Spec

(***************************************************************************)
(* The theorems.                                                           *)
(***************************************************************************)

\* The types hold in every run of the dashboard.
THEOREM TypeCorrect == Spec => []TypeOK
BY Invariant, PTL DEF Inv

\* No socket and no interval outlives its page, whatever answers come late.
THEOREM NothingLeft == Spec => []NothingOutlives
BY Invariant, PTL DEF Inv

\* Predictions never go back while their page is shown.
THEOREM PredictionsNeverBack == Spec => PredictionsForward
<1> DEFINE Forward == predicted' < predicted => predicted' = 0
<1>1. Inv /\ [Next]_vars => [Forward]_vars
  <2> SUFFICES ASSUME Inv, Next PROVE Forward
    BY DEF vars, views
  <2>1. predicted \in Nat
    BY DashboardAssumption DEF Inv, TypeOK
  <2>2. ASSUME NEW r, Answer(r) PROVE Forward
    <3>1. CASE LoggedIn(r) \/ Refused(r) \/ LoggedOut(r)
      BY <3>1 DEF LoggedIn, Refused, LoggedOut, ShowPage
    <3>2. CASE \E i \in 0..published : PredictionsLoaded(r, i)
      <4>1. PICK i \in 0..published : PredictionsLoaded(r, i)
        BY <3>2
      <4>2. i \in Nat
        OBVIOUS
      <4> QED
        BY <2>1, <4>1, <4>2 DEF PredictionsLoaded
    <3>3. CASE predicted' = predicted
      BY <2>1, <3>3
    <3> QED
      BY <2>2, <3>1, <3>2, <3>3
         DEF Answer, RoadsDone, TrafficLoaded, Fails, views
  <2>3. predicted' = predicted \/ \E r : Answer(r)
    BY DEF Next, Expire, OtherTab, OtherLogsIn, OtherLogsOut, Publish, SubmitLogin, ClickLogout,
           TimerFires, Send, Deliver, views
  <2> QED
    BY <2>1, <2>2, <2>3
<1> QED
  BY <1>1, Invariant, PTL DEF Spec, PredictionsForward

\* No answer to a request of this login ends it while its token is good.
THEOREM LoginHolds == Spec => SettledLoginHolds
<1> DEFINE Holds == token # None /\ token \notin expired /\ Own => token' = token \/ OtherTab
<1>1. Inv /\ [Next]_vars => [Holds]_vars
  <2> SUFFICES ASSUME Inv, Next, token # None, token \notin expired, Own, ~ OtherTab
               PROVE  token' = token
    BY DEF vars
  <2>1. ASSUME NEW r \in BagToSet(requests), Answer(r) PROVE token' = token
    <3>1. r.token = token /\ r.kind # "logout" /\ r.kind # "login"
      BY <2>1 DEF Own
    <3> QED
      BY <2>1, <3>1 DEF Answer, LoggedIn, Refused, Refusable, LoggedOut, RoadsDone,
                        TrafficLoaded, PredictionsLoaded, Fails
  <2> QED
    BY <2>1 DEF Next, Expire, Publish, SubmitLogin, ClickLogout, TimerFires, Send, Deliver
<1> QED
  BY <1>1, Invariant, PTL DEF Spec, SettledLoginHolds

=============================================================================

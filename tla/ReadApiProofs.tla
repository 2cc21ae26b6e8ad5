---------------------------- MODULE ReadApiProofs -----------------------------
(* Theorems about ReadApi, for any tables, listings, limits, clients and orders *)
(* of inserts, cache writes and expiries.                                       *)
EXTENDS ReadApi, TLAPS, FiniteSetTheorems, WellFoundedInduction

(***************************************************************************)
(* Cursors, requests, keys and pages.                                      *)
(***************************************************************************)

\* A non-empty set of numbers has a least one.
LEMMA LeastNumber ==
    ASSUME NEW S \in SUBSET Nat, S # {}
    PROVE  \E x \in S : \A y \in S : x <= y
<1> DEFINE R == {ss \in Nat \X Nat : ss[1] < ss[2]}
<1>1. IsWellFoundedOn(R, Nat)
  BY NatLessThanWellFounded DEF OpToRel
<1>2. PICK x \in S : \A y \in S : <<y, x>> \notin R
  BY <1>1, WFMin
<1>3. \A y \in S : ~(y < x)
  BY <1>2
<1> QED
  BY <1>3

\* next_cursor is the least ts of a page.
LEMMA CursorLeast ==
    ASSUME NEW a \in Answers, a.page # {}
    PROVE  /\ NextCursor(a) \in Nat /\ NextCursor(a) \in Cursors /\ NextCursor(a) # NoCursor
           /\ \E r \in a.page : r.ts = NextCursor(a)
           /\ \A r \in a.page : r.ts \in Nat /\ NextCursor(a) <= r.ts
<1> DEFINE S == {r.ts : r \in a.page}
<1>1. a.page \subseteq Rows
  BY DEF Answers
<1>2. S \in SUBSET Nat /\ S # {}
  BY <1>1, ReadApiAssumption
<1>3. \E x \in S : \A y \in S : x <= y
  BY <1>2, LeastNumber
<1>4. NextCursor(a) \in S /\ \A r \in a.page : NextCursor(a) <= r.ts
  BY <1>3 DEF NextCursor
<1> QED
  BY <1>1, <1>2, <1>4, ReadApiAssumption DEF Cursors

\* A request is that for a first page, with a cursor.
LEMMA RequestShape ==
    ASSUME NEW q \in Requests
    PROVE  /\ q.limit \in Nat \ {0}
           /\ \A cursor \in Cursors : [q EXCEPT !.before = cursor] \in Requests
           /\ FirstPage(q).list = q.list /\ FirstPage(q).road = q.road
           /\ FirstPage(q).limit = q.limit /\ FirstPage(q).before = NoCursor
           /\ \A cursor : /\ [q EXCEPT !.before = cursor].list = q.list
                          /\ [q EXCEPT !.before = cursor].road = q.road
                          /\ [q EXCEPT !.before = cursor].limit = q.limit
                          /\ [q EXCEPT !.before = cursor].before = cursor
                          /\ FirstPage([q EXCEPT !.before = cursor]) = FirstPage(q)
<1>1. PICK ask \in UNION {Asks[c] : c \in Clients}, cursor \in Cursors :
            q = [FirstRequest(ask) EXCEPT !.before = cursor]
  BY DEF Requests
<1>2. ask.limit \in Int
  BY ReadApiAssumption
<1>3. Granted(ask.limit) \in Nat \ {0} /\ NoLimit \in Nat \ {0}
  BY <1>2, ReadApiAssumption DEF Granted
<1>4. /\ FirstRequest(ask) = [list |-> FirstRequest(ask).list, road |-> FirstRequest(ask).road,
                          limit |-> FirstRequest(ask).limit, before |-> NoCursor]
      /\ FirstRequest(ask).limit \in Nat \ {0}
  BY <1>3 DEF FirstRequest
<1>5. q = [list |-> FirstRequest(ask).list, road |-> FirstRequest(ask).road,
           limit |-> FirstRequest(ask).limit, before |-> cursor]
  BY <1>1, <1>4
<1>6. \A other \in Cursors : [q EXCEPT !.before = other] \in Requests
  <2> SUFFICES ASSUME NEW other \in Cursors PROVE [q EXCEPT !.before = other] \in Requests
    OBVIOUS
  <2>1. [q EXCEPT !.before = other] = [FirstRequest(ask) EXCEPT !.before = other]
    BY <1>4, <1>5
  <2> QED
    BY <2>1 DEF Requests
<1> QED
  BY <1>4, <1>5, <1>6 DEF FirstPage

\* The request for a first page is a request.
LEMMA FirstIsRequest ==
    ASSUME NEW c \in Clients, NEW ask \in Asks[c]
    PROVE  FirstRequest(ask) \in Requests /\ FirstRequest(ask).before = NoCursor
<1>1. FirstRequest(ask) = [list |-> FirstRequest(ask).list, road |-> FirstRequest(ask).road,
                       limit |-> FirstRequest(ask).limit, before |-> NoCursor]
  BY DEF FirstRequest
<1>2. FirstRequest(ask) = [FirstRequest(ask) EXCEPT !.before = NoCursor]
  BY <1>1
<1>3. ask \in UNION {Asks[d] : d \in Clients} /\ NoCursor \in Cursors
  BY DEF Cursors
<1>4. FirstRequest(ask) \in Requests
  BY <1>2, <1>3 DEF Requests
<1> QED
  BY <1>1, <1>4

\* Two requests of one key are the same.
LEMMA KeysDiffer ==
    ASSUME NEW p \in Requests, NEW q \in Requests, CacheKey(p) = CacheKey(q)
    PROVE  p = q
<1>1. ASSUME NEW r \in Requests
      PROVE  r = [list |-> r.list, road |-> r.road, limit |-> r.limit, before |-> r.before]
  <2>1. PICK ask, cursor : r = [FirstRequest(ask) EXCEPT !.before = cursor]
    BY DEF Requests
  <2> QED
    BY <2>1 DEF FirstRequest
<1>2. p.list = q.list /\ p.road = q.road /\ p.limit = q.limit /\ p.before = q.before
  BY DEF CacheKey
<1> QED
  BY <1>1, <1>2

\* What an answer says of its request, and of the rows that matched when it was read.
AnswerFor(q, a) ==
    /\ a \in Answers
    /\ a.seen \subseteq Matching(q, Rows) /\ a.page \subseteq a.seen
    /\ a.more => /\ Cardinality(a.page) = q.limit /\ a.page # {}
                 /\ \A r \in a.seen \ a.page : \A s \in a.page : r.ts <= s.ts
    /\ ~ a.more => a.page = a.seen

\* Every page the query may give is such an answer.
LEMMA PagesAnswer ==
    ASSUME NEW q \in Requests, NEW rows \in SUBSET Rows, NEW a \in PagesOf(q, rows)
    PROVE  AnswerFor(q, a)
<1> DEFINE M == Matching(q, rows)
<1>1. PICK page \in Newest(M, q.limit) :
            a = [page |-> page, more |-> Cardinality(M) > q.limit, seen |-> M]
  BY DEF PagesOf
<1>2. M \subseteq Rows /\ M \subseteq Matching(q, Rows) /\ page \subseteq M
  BY <1>1 DEF Matching, Newest
<1>3. IsFiniteSet(M) /\ IsFiniteSet(page) /\ Cardinality(M) \in Nat
  BY <1>2, ReadApiAssumption, FS_Subset, FS_CardinalityType
<1>5. a \in Answers
  BY <1>1, <1>2 DEF Answers
<1>6. /\ Cardinality(page) = IF Cardinality(M) > q.limit THEN q.limit ELSE Cardinality(M)
      /\ \A r \in page : \A other \in M \ page : other.ts <= r.ts
  BY <1>1 DEF Newest
<1> HIDE DEF M
<1>7. CASE a.more
  <2>1. Cardinality(page) = q.limit
    BY <1>1, <1>6, <1>7
  <2>2. page # {}
    BY <2>1, RequestShape, FS_EmptySet
  <2> QED
    BY <1>1, <1>2, <1>5, <1>6, <1>7, <2>1, <2>2 DEF AnswerFor
<1>8. CASE ~ a.more
  <2>1. Cardinality(page) = Cardinality(M)
    BY <1>1, <1>6, <1>8
  <2>2. page = M
    BY <1>2, <1>3, <2>1, FS_Subset
  <2> QED
    BY <1>1, <1>2, <1>5, <1>8, <2>2 DEF AnswerFor
<1> QED
  BY <1>7, <1>8

(***************************************************************************)
(* The inductive invariant.                                                *)
(***************************************************************************)

\* Redis, and the goroutines on their way to it, hold answers to the requests of a key.
CacheTrue ==
    \A q \in Requests :
        /\ redis[CacheKey(q)] # Nothing => AnswerFor(q, redis[CacheKey(q)])
        /\ \A w \in writes : w.key = CacheKey(q) => AnswerFor(q, w.answer)

\* A request continues the walk: the first page, or what follows the last answer.
Continues ==
    \A c \in Clients : pc[c] # "idle" =>
        \/ walk[c] = << >> /\ request[c].before = NoCursor
        \/ walk[c] # << >> /\ LastAnswer(c).more /\ request[c].before = NextCursor(LastAnswer(c))

\* The pages of a walk are of the size asked for, and those that go on not empty.
PagesFull ==
    \A c \in Clients : \A i \in DOMAIN walk[c] :
        walk[c][i].more => Cardinality(walk[c][i].page) = request[c].limit /\ walk[c][i].page # {}

\* The rows that were there all along, and are to be listed after an answer.
ToCome(c, r) == walk[c] = << >> \/ (LastAnswer(c).more /\ r.ts < NextCursor(LastAnswer(c)))

\* Each of the rows that all pages could have is listed, cut off, or still to come.
Covered ==
    \A c \in Clients : \A r \in Matching(FirstPage(request[c]), Rows) :
        (\A i \in DOMAIN walk[c] : Reaches(c, i, r) => r \in walk[c][i].seen) =>
            (\E i \in DOMAIN walk[c] : r \in walk[c][i].page) \/ CutOff(c, r) \/ ToCome(c, r)

Types == /\ table \subseteq Rows
         /\ redis \in [CacheKeys -> Answers \union {Nothing}]
         /\ pc \in [Clients -> {"idle", "get", "query"}]
         /\ request \in [Clients -> Requests]
         /\ walk \in [Clients -> Seq(Answers)]
         /\ writes \subseteq Writes

Inv == Types /\ CacheTrue /\ Continues /\ PagesFull /\ WalkDescends /\ Covered

\* What touches no client leaves the walks alone.
LEMMA WalksStay ==
    ASSUME Inv, UNCHANGED <<pc, request, walk>>, Types', CacheTrue'
    PROVE  Inv'
<1>1. Continues' /\ PagesFull' /\ WalkDescends' /\ Covered'
  BY DEF Inv, Continues, PagesFull, WalkDescends, Covered, CutOff, ToCome, LastAnswer, Reaches
<1> QED
  BY <1>1 DEF Inv

\* Nor does a request that goes from one stage to the next, or fails.
LEMMA HandOver ==
    ASSUME Inv, UNCHANGED <<table, redis, request, walk, writes>>,
           pc' \in [Clients -> {"idle", "get", "query"}],
           \A d \in Clients : pc'[d] # "idle" => pc[d] # "idle"
    PROVE  Inv'
<1>1. Types' /\ CacheTrue'
  BY DEF Inv, Types, CacheTrue
<1>2. Continues'
  BY DEF Inv, Continues, LastAnswer
<1>3. PagesFull' /\ WalkDescends'
  BY DEF Inv, PagesFull, WalkDescends
<1>4. Covered'
  BY DEF Inv, Covered, CutOff, ToCome, LastAnswer, Reaches
<1> QED
  BY <1>1, <1>2, <1>3, <1>4 DEF Inv

(***************************************************************************)
(* The steps.                                                              *)
(***************************************************************************)

\* Inserts, expiries, and cache writes.
LEMMA SurroundingsPreserve ==
    ASSUME Inv, \/ \E row \in Rows : Insert(row)
                \/ \E k \in CacheKeys : Expire(k)
                \/ \E w \in writes : Set(w)
    PROVE  Inv'
<1>1. ASSUME NEW row \in Rows, Insert(row) PROVE Inv'
  <2>1. Types' /\ CacheTrue'
    BY <1>1 DEF Insert, Inv, Types, CacheTrue
  <2> QED
    BY <1>1, <2>1, WalksStay DEF Insert
<1>2. ASSUME NEW k \in CacheKeys, Expire(k) PROVE Inv'
  <2>1. Types' /\ CacheTrue'
    BY <1>2 DEF Expire, Inv, Types, CacheTrue
  <2> QED
    BY <1>2, <2>1, WalksStay DEF Expire
<1>3. ASSUME NEW w \in writes, Set(w) PROVE Inv'
  <2>1. /\ w \in Writes /\ w.key \in CacheKeys /\ w.answer \in Answers
        /\ \A q \in Requests : w.key = CacheKey(q) => AnswerFor(q, w.answer)
        /\ writes' = writes \ {w} /\ UNCHANGED <<table, pc, request, walk>>
        /\ redis' = redis \/ redis' = [redis EXCEPT ![w.key] = w.answer]
    BY <1>3 DEF Set, SetLands, SetLost, Inv, Types, CacheTrue, Writes
  <2>2. Types'
    BY <2>1 DEF Inv, Types
  <2>3. \A q \in Requests : CacheKey(q) \in CacheKeys
    BY DEF CacheKeys
  <2>4. CacheTrue'
    BY <2>1, <2>3 DEF Inv, Types, CacheTrue
  <2> QED
    BY <2>1, <2>2, <2>4, WalksStay
<1> QED
  BY <1>1, <1>2, <1>3

\* A new walk.
LEMMA AskPreserves ==
    ASSUME Inv, NEW c \in Clients, NEW ask \in Asks[c], Ask(c, ask)
    PROVE  Inv'
<1>1. FirstRequest(ask) \in Requests /\ FirstRequest(ask).before = NoCursor
  BY FirstIsRequest
<1>2. /\ UNCHANGED <<table, redis, writes>>
      /\ request' \in [Clients -> Requests] /\ walk' \in [Clients -> Seq(Answers)]
      /\ pc' \in [Clients -> {"idle", "get", "query"}]
      /\ request'[c] = FirstRequest(ask) /\ walk'[c] = << >>
      /\ \A d \in Clients \ {c} : request'[d] = request[d] /\ walk'[d] = walk[d] /\ pc'[d] = pc[d]
  BY <1>1 DEF Ask, Inv, Types
<1>3. Types' /\ CacheTrue'
  BY <1>2 DEF Inv, Types, CacheTrue
<1>4. pc'[c] # "idle" => walk'[c] = << >> /\ request'[c].before = NoCursor
  BY <1>1, <1>2
<1>5. DOMAIN walk'[c] = {}
  BY <1>2
<1>6. Continues'
  BY <1>2, <1>4 DEF Inv, Continues, LastAnswer
<1>7. PagesFull' /\ WalkDescends'
  <2>1. PagesFull'
    <3> SUFFICES ASSUME NEW d \in Clients, NEW i \in DOMAIN walk'[d], walk'[d][i].more
                 PROVE  Cardinality(walk'[d][i].page) = request'[d].limit /\ walk'[d][i].page # {}
      BY DEF PagesFull
    <3>1. d # c
      BY <1>5
    <3>2. request'[d] = request[d] /\ walk'[d] = walk[d]
      BY <1>2, <3>1
    <3> QED
      BY <3>2 DEF Inv, PagesFull
  <2>2. WalkDescends'
    BY <1>2, <1>5 DEF Inv, WalkDescends
  <2> QED
    BY <2>1, <2>2
<1>8. Covered'
  <2> SUFFICES ASSUME NEW d \in Clients, NEW r \in Matching(FirstPage(request'[d]), Rows),
                      \A i \in DOMAIN walk'[d] : Reaches(d, i, r)' => r \in walk'[d][i].seen
               PROVE  (\E i \in DOMAIN walk'[d] : r \in walk'[d][i].page) \/ CutOff(d, r)' \/ ToCome(d, r)'
    BY DEF Covered
  <2>1. CASE d = c
    BY <1>2, <2>1 DEF ToCome
  <2>2. CASE d # c
    BY <1>2, <2>2 DEF Inv, Covered, CutOff, ToCome, LastAnswer, Reaches
  <2> QED
    BY <2>1, <2>2
<1> QED
  BY <1>3, <1>6, <1>7, <1>8 DEF Inv

\* The next page of a walk.
LEMMA AskNextPreserves ==
    ASSUME Inv, NEW c \in Clients, AskNext(c)
    PROVE  Inv'
<1> DEFINE cursor == NextCursor(LastAnswer(c))
<1>1. walk[c] # << >> /\ LastAnswer(c).more /\ LastAnswer(c) \in Answers /\ LastAnswer(c).page # {}
  <2>1. walk[c] \in Seq(Answers) /\ walk[c] # << >> /\ LastAnswer(c).more
    BY DEF AskNext, Inv, Types
  <2>2. Len(walk[c]) \in DOMAIN walk[c]
    BY <2>1
  <2>3. LastAnswer(c) = walk[c][Len(walk[c])] /\ LastAnswer(c) \in Answers
    BY <2>1, <2>2 DEF LastAnswer
  <2> QED
    BY <2>1, <2>2, <2>3 DEF Inv, PagesFull
<1>2. cursor \in Cursors
  BY <1>1, CursorLeast
<1>3. request[c] \in Requests /\ request' = [request EXCEPT ![c] = [request[c] EXCEPT !.before = cursor]]
  BY DEF AskNext, Inv, Types
<1>4. /\ request'[c] \in Requests /\ request'[c].limit = request[c].limit /\ request'[c].before = cursor
      /\ FirstPage(request'[c]) = FirstPage(request[c])
  BY <1>2, <1>3, RequestShape DEF Inv, Types
<1>5. /\ UNCHANGED <<table, redis, walk, writes>>
      /\ request' \in [Clients -> Requests] /\ pc' \in [Clients -> {"idle", "get", "query"}]
      /\ \A d \in Clients \ {c} : request'[d] = request[d] /\ pc'[d] = pc[d]
  BY <1>3, <1>4 DEF AskNext, Inv, Types
<1>6. Types' /\ CacheTrue'
  BY <1>5 DEF Inv, Types, CacheTrue
<1>7. PagesFull' /\ WalkDescends'
  BY <1>4, <1>5 DEF Inv, PagesFull, WalkDescends
<1>8. Continues'
  BY <1>1, <1>4, <1>5 DEF Inv, Continues, LastAnswer
<1>9. Covered'
  <2> SUFFICES ASSUME NEW d \in Clients, NEW r \in Matching(FirstPage(request'[d]), Rows),
                      \A i \in DOMAIN walk[d] : Reaches(d, i, r) => r \in walk[d][i].seen
               PROVE  (\E i \in DOMAIN walk[d] : r \in walk[d][i].page) \/ CutOff(d, r) \/ ToCome(d, r)
    BY <1>5 DEF Covered, CutOff, ToCome, LastAnswer, Reaches
  <2>1. FirstPage(request'[d]) = FirstPage(request[d])
    BY <1>4, <1>5
  <2> QED
    BY <2>1 DEF Inv, Covered
<1> QED
  BY <1>6, <1>7, <1>8, <1>9 DEF Inv

\* An answer is added to the walk.
LEMMA RespondKeeps ==
    ASSUME Inv, NEW c \in Clients, pc[c] # "idle", NEW a, AnswerFor(request[c], a),
           Respond(c, a), request' = request
    PROVE  /\ walk' \in [Clients -> Seq(Answers)] /\ pc' \in [Clients -> {"idle", "get", "query"}]
           /\ Continues' /\ PagesFull' /\ WalkDescends' /\ Covered'
<1> DEFINE n == Len(walk[c])
<1>1. /\ a \in Answers /\ request[c] \in Requests /\ walk[c] \in Seq(Answers)
      /\ walk' = [walk EXCEPT ![c] = Append(walk[c], a)] /\ pc' = [pc EXCEPT ![c] = "idle"]
  BY DEF AnswerFor, Respond, Inv, Types
<1>2. /\ n \in Nat /\ DOMAIN walk[c] = 1..n
      /\ walk'[c] \in Seq(Answers) /\ DOMAIN walk'[c] = 1..(n + 1) /\ Len(walk'[c]) = n + 1
      /\ walk'[c][n + 1] = a /\ \A i \in 1..n : walk'[c][i] = walk[c][i]
      /\ walk'[c] # << >>
  BY <1>1 DEF Inv, Types
<1>3. /\ walk' \in [Clients -> Seq(Answers)] /\ pc' \in [Clients -> {"idle", "get", "query"}]
      /\ pc'[c] = "idle"
      /\ \A d \in Clients \ {c} : walk'[d] = walk[d] /\ pc'[d] = pc[d]
  BY <1>1, <1>2 DEF Inv, Types
<1>4. LastAnswer(c)' = a /\ \A d \in Clients \ {c} : LastAnswer(d)' = LastAnswer(d)
  BY <1>2, <1>3 DEF LastAnswer
\* The new page lies below everything listed before.
<1>5. ASSUME NEW i \in 1..n, NEW r \in walk[c][i].page, NEW s \in a.page
      PROVE  s.ts < r.ts
  <2>1. walk[c] # << >> /\ n \in 1..n
    BY <1>2
  <2>2. /\ LastAnswer(c).more /\ LastAnswer(c) = walk[c][n] /\ LastAnswer(c) \in Answers
        /\ request[c].before = NextCursor(LastAnswer(c)) /\ LastAnswer(c).page # {}
    BY <1>1, <1>2, <2>1 DEF Inv, Continues, PagesFull, LastAnswer
  <2>3. /\ NextCursor(LastAnswer(c)) \in Nat /\ NextCursor(LastAnswer(c)) # NoCursor
        /\ \E q \in LastAnswer(c).page : q.ts = NextCursor(LastAnswer(c))
        /\ \A q \in LastAnswer(c).page : q.ts \in Nat /\ NextCursor(LastAnswer(c)) <= q.ts
    BY <2>2, CursorLeast
  <2>4. s.ts < NextCursor(LastAnswer(c))
    BY <2>2, <2>3 DEF AnswerFor, Matching
  <2>5. NextCursor(LastAnswer(c)) <= r.ts
    <3>1. CASE i = n
      BY <2>2, <2>3, <3>1
    <3>2. CASE i # n
      <4>1. i < n /\ i \in DOMAIN walk[c] /\ n \in DOMAIN walk[c]
        BY <1>2, <2>1, <3>2
      <4>2. PICK q \in walk[c][n].page : q.ts = NextCursor(LastAnswer(c))
        BY <2>2, <2>3
      <4>3. q.ts < r.ts
        BY <4>1, <4>2 DEF Inv, WalkDescends
      <4>4. r.ts \in Nat
        <5>1. walk[c][i] \in Answers
          BY <1>1, <1>2
        <5>2. r \in Rows
          BY <5>1 DEF Answers
        <5> QED
          BY <5>2, ReadApiAssumption
      <4> QED
        BY <2>3, <4>2, <4>3, <4>4
    <3> QED
      BY <3>1, <3>2
  <2>6. s.ts \in Nat /\ r.ts \in Nat
    <3>1. walk[c][i] \in Answers
      BY <1>1, <1>2
    <3>2. r \in Rows /\ s \in Rows
      BY <1>1, <3>1 DEF Answers
    <3> QED
      BY <3>2, ReadApiAssumption
  <2> QED
    BY <2>3, <2>4, <2>5, <2>6
<1>6. WalkDescends'
  <2> SUFFICES ASSUME NEW d \in Clients, NEW i \in DOMAIN walk'[d], NEW j \in DOMAIN walk'[d], i < j,
                      NEW r \in walk'[d][i].page, NEW s \in walk'[d][j].page
               PROVE  s.ts < r.ts
    BY DEF WalkDescends
  <2>1. CASE d # c
    BY <1>3, <2>1 DEF Inv, WalkDescends
  <2>2. CASE d = c /\ j = n + 1
    BY <1>2, <1>5, <2>2
  <2>3. CASE d = c /\ j # n + 1
    BY <1>2, <2>3 DEF Inv, WalkDescends
  <2> QED
    BY <2>1, <2>2, <2>3
<1>7. PagesFull'
  <2> SUFFICES ASSUME NEW d \in Clients, NEW i \in DOMAIN walk'[d], walk'[d][i].more
               PROVE  Cardinality(walk'[d][i].page) = request[d].limit /\ walk'[d][i].page # {}
    BY DEF PagesFull
  <2>1. CASE d # c
    BY <1>3, <2>1 DEF Inv, PagesFull
  <2>2. CASE d = c /\ i = n + 1
    BY <1>2, <2>2 DEF AnswerFor
  <2>3. CASE d = c /\ i # n + 1
    BY <1>2, <2>3 DEF Inv, PagesFull
  <2> QED
    BY <2>1, <2>2, <2>3
<1>8. Continues'
  BY <1>3, <1>4 DEF Inv, Continues
<1>9. Covered'
  <2> SUFFICES ASSUME NEW d \in Clients, NEW r \in Matching(FirstPage(request[d]), Rows),
                      \A i \in DOMAIN walk'[d] : Reaches(d, i, r)' => r \in walk'[d][i].seen
               PROVE  (\E i \in DOMAIN walk'[d] : r \in walk'[d][i].page) \/ CutOff(d, r)' \/ ToCome(d, r)'
    BY DEF Covered
  <2>1. CASE d # c
    BY <1>3, <1>4, <2>1 DEF Inv, Covered, CutOff, ToCome, Reaches
  <2>2. CASE d = c
    <3>1. /\ \A i \in DOMAIN walk[c] : Reaches(c, i, r) => r \in walk[c][i].seen
          /\ (n = 0 \/ r.ts < NextCursor(walk'[c][n])) => r \in a.seen
      <4>1. \A i \in 1..n : Reaches(c, i, r)' <=> Reaches(c, i, r)
        <5> SUFFICES ASSUME NEW i \in 1..n PROVE Reaches(c, i, r)' <=> Reaches(c, i, r)
          OBVIOUS
        <5>1. CASE i = 1
          BY <5>1 DEF Reaches
        <5>2. CASE i # 1
          <6>1. i - 1 \in 1..n
            BY <1>2, <5>2
          <6>2. walk'[c][i - 1] = walk[c][i - 1]
            BY <1>2, <6>1
          <6> QED
            BY <6>2 DEF Reaches
        <5> QED
          BY <5>1, <5>2
      <4>2. 1..n \subseteq 1..(n + 1) /\ n + 1 \in 1..(n + 1)
        BY <1>2
      <4>3. \A i \in 1..(n + 1) : Reaches(c, i, r)' => r \in walk'[c][i].seen
        BY <1>2, <2>2
      <4>4. ASSUME NEW m \in Nat, m = n + 1, m = 1 \/ r.ts < NextCursor(walk'[c][m - 1])
            PROVE  r \in a.seen
        BY <1>2, <4>3, <4>4 DEF Reaches
      <4> QED
        BY <1>2, <4>1, <4>2, <4>3, <4>4
    <3>2. (\E i \in DOMAIN walk[c] : r \in walk[c][i].page) \/ CutOff(c, r) \/ ToCome(c, r)
      BY <2>2, <3>1 DEF Inv, Covered
    <3>3. CASE \E i \in DOMAIN walk[c] : r \in walk[c][i].page
      BY <1>2, <2>2, <3>3
    <3>4. CASE CutOff(c, r)
      BY <1>2, <2>2, <3>4 DEF CutOff
    <3>5. CASE ToCome(c, r)
      <4>1. r \in a.seen
        <5>1. n = 0 \/ (n \in 1..n /\ r.ts < NextCursor(walk'[c][n]))
          BY <1>2, <3>5 DEF ToCome, LastAnswer
        <5> QED
          BY <3>1, <5>1
      <4>2. CASE r \in a.page
        BY <1>2, <2>2, <4>2
      <4>3. CASE r \notin a.page
        <5>1. a.more /\ a.page # {} /\ \A s \in a.page : r.ts <= s.ts
          BY <4>1, <4>3 DEF AnswerFor
        <5>2. NextCursor(a) \in Nat /\ \E s \in a.page : s.ts = NextCursor(a)
          BY <1>1, <5>1, CursorLeast
        <5>3. r.ts <= NextCursor(a) /\ r.ts \in Nat
          BY <5>1, <5>2, ReadApiAssumption DEF Matching
        <5>4. CASE r.ts = NextCursor(a)
          BY <1>2, <2>2, <5>1, <5>4 DEF CutOff
        <5>5. CASE r.ts < NextCursor(a)
          BY <1>4, <2>2, <5>1, <5>5 DEF ToCome
        <5> QED
          BY <5>2, <5>3, <5>4, <5>5
      <4> QED
        BY <4>2, <4>3
    <3> QED
      BY <3>2, <3>3, <3>4, <3>5
  <2> QED
    BY <2>1, <2>2
<1> QED
  BY <1>3, <1>6, <1>7, <1>8, <1>9

\* Hits, misses, queries and their failures, of whatever listing.
LEMMA ServePreserves ==
    ASSUME Inv, NEW c \in Clients, Serve(c)
    PROVE  Inv'
<1>1. request[c] \in Requests /\ table \in SUBSET Rows
  BY DEF Inv, Types
<1>2. CASE GetHit(c)
  <2>1. pc[c] # "idle" /\ AnswerFor(request[c], Cached(c))
    BY <1>1, <1>2 DEF GetHit, Inv, CacheTrue, Cached
  <2>2. Respond(c, Cached(c)) /\ UNCHANGED <<table, redis, request, writes>>
    BY <1>2 DEF GetHit
  <2>3. /\ walk' \in [Clients -> Seq(Answers)] /\ pc' \in [Clients -> {"idle", "get", "query"}]
        /\ Continues' /\ PagesFull' /\ WalkDescends' /\ Covered'
    BY <2>1, <2>2, RespondKeeps
  <2>4. Types' /\ CacheTrue'
    BY <2>2, <2>3 DEF Inv, Types, CacheTrue
  <2> QED
    BY <2>3, <2>4 DEF Inv
<1>3. CASE GetMiss(c)
  <2>1. /\ UNCHANGED <<table, redis, request, walk, writes>> /\ pc[c] # "idle"
        /\ pc' \in [Clients -> {"idle", "get", "query"}]
        /\ \A d \in Clients : pc'[d] # "idle" => pc[d] # "idle"
    BY <1>3 DEF GetMiss, Inv, Types
  <2> QED
    BY <2>1, HandOver
<1>4. CASE Query(c)
  <2>1. PICK a \in PagesOf(request[c], table) :
            /\ Respond(c, a) /\ writes' = writes \union {[key |-> CacheKey(request[c]), answer |-> a]}
            /\ pc[c] # "idle" /\ UNCHANGED <<table, redis, request>>
    BY <1>4 DEF Query
  <2>2. AnswerFor(request[c], a)
    BY <1>1, PagesAnswer
  <2>3. /\ walk' \in [Clients -> Seq(Answers)] /\ pc' \in [Clients -> {"idle", "get", "query"}]
        /\ Continues' /\ PagesFull' /\ WalkDescends' /\ Covered'
    BY <2>1, <2>2, RespondKeeps
  <2>4. writes' \subseteq Writes
    <3>1. [key |-> CacheKey(request[c]), answer |-> a] \in Writes
      BY <1>1, <2>2 DEF Writes, AnswerFor, CacheKeys
    <3> QED
      BY <2>1, <3>1 DEF Inv, Types
  <2>5. Types' /\ CacheTrue'
    <3>1. \A q \in Requests : CacheKey(request[c]) = CacheKey(q) => AnswerFor(q, a)
      BY <1>1, <2>2, KeysDiffer
    <3> QED
      BY <2>1, <2>3, <2>4, <3>1 DEF Inv, Types, CacheTrue
  <2> QED
    BY <2>3, <2>5 DEF Inv
<1>5. CASE QueryFails(c)
  <2>1. /\ UNCHANGED <<table, redis, request, walk, writes>>
        /\ pc' \in [Clients -> {"idle", "get", "query"}]
        /\ \A d \in Clients : pc'[d] # "idle" => pc[d] # "idle"
    BY <1>5 DEF QueryFails, Inv, Types
  <2> QED
    BY <2>1, HandOver
<1> QED
  BY <1>2, <1>3, <1>4, <1>5 DEF Serve, Get

(***************************************************************************)
(* The theorems.                                                           *)
(***************************************************************************)

\* At first there are no walks, and the cache is empty.
LEMMA InitEstablishes == Init => Inv
<1> SUFFICES ASSUME Init PROVE Inv
  OBVIOUS
<1>1. Types
  BY DEF Init, Types
<1>2. CacheTrue /\ Continues
  <2>1. \A q \in Requests : CacheKey(q) \in CacheKeys
    BY DEF CacheKeys
  <2> QED
    BY <2>1 DEF Init, CacheTrue, Continues
<1>3. \A c \in Clients : walk[c] = << >> /\ DOMAIN walk[c] = {}
  BY DEF Init
<1>4. PagesFull /\ WalkDescends
  BY <1>3 DEF PagesFull, WalkDescends
<1>5. Covered
  BY <1>3 DEF Covered, ToCome
<1> QED
  BY <1>1, <1>2, <1>4, <1>5 DEF Inv

LEMMA StepsPreserve == Inv /\ [Next]_vars => Inv'
<1> SUFFICES ASSUME Inv, [Next]_vars PROVE Inv'
  OBVIOUS
<1>1. CASE UNCHANGED vars
  <2>1. Types' /\ CacheTrue'
    BY <1>1 DEF vars, Inv, Types, CacheTrue
  <2> QED
    BY <1>1, <2>1, WalksStay DEF vars
<1>2. CASE Next
  <2>1. CASE \/ \E row \in Rows : Insert(row)
             \/ \E k \in CacheKeys : Expire(k)
             \/ \E w \in writes : Set(w)
    BY <2>1, SurroundingsPreserve
  <2>2. ASSUME NEW c \in Clients, NEW ask \in Asks[c], Ask(c, ask) PROVE Inv'
    BY <2>2, AskPreserves
  <2>3. ASSUME NEW c \in Clients, AskNext(c) PROVE Inv'
    BY <2>3, AskNextPreserves
  <2>4. ASSUME NEW c \in Clients, GetLive(c) PROVE Inv'
    BY <2>4, ServePreserves DEF GetLive
  <2>5. ASSUME NEW c \in Clients, GetPredictions(c) PROVE Inv'
    BY <2>5, ServePreserves DEF GetPredictions
  <2>6. ASSUME NEW c \in Clients, GetRecommended(c) PROVE Inv'
    BY <2>6, ServePreserves DEF GetRecommended
  <2>7. ASSUME NEW c \in Clients, GetRoads(c) PROVE Inv'
    BY <2>7, ServePreserves DEF GetRoads
  <2> QED
    BY <1>2, <2>1, <2>2, <2>3, <2>4, <2>5, <2>6, <2>7 DEF Next
<1> QED
  BY <1>1, <1>2

\* What is in Redis answers the requests of its key, a request goes on where the walk stopped, and
\* every row a walk should list is listed, cut off or still to come, at every step
\* of the handlers and the goroutines that fill the cache.
THEOREM Invariant == Spec => []Inv
<1> QED
  BY InitEstablishes, StepsPreserve, PTL DEF Spec

\* TypeOK for every instance: in particular, nothing is ever cached under the key
\* of another listing, road, limit or cursor (cacheKey).
THEOREM TypeCorrect == Spec => []TypeOK
<1>1. ASSUME Inv PROVE TypeOK
  <2>1. ASSUME NEW q \in Requests, redis[CacheKey(q)] # Nothing
        PROVE  /\ redis[CacheKey(q)].page \subseteq redis[CacheKey(q)].seen
               /\ redis[CacheKey(q)].seen \subseteq Matching(q, Rows)
    BY <1>1, <2>1 DEF Inv, CacheTrue, AnswerFor
  <2>2. ASSUME NEW c \in Clients
        PROVE  /\ walk[c] \in Seq(Answers)
               /\ \A i \in DOMAIN walk[c] :
                    walk[c][i].more => Cardinality(walk[c][i].page) = request[c].limit
    BY <1>1 DEF Inv, Types, PagesFull
  <2> QED
    BY <1>1, <2>1, <2>2 DEF Inv, Types, TypeOK
<1> QED
  BY Invariant, <1>1, PTL

\* WalkDescends for every instance: the next_cursor of a page that may be cached,
\* old or new, always leads further down.
THEOREM Descends == Spec => []WalkDescends
<1>1. Inv => WalkDescends
  BY DEF Inv
<1> QED
  BY Invariant, <1>1, PTL

\* WalkComplete for every instance: only rows that share a ts with the end of a page
\* can be lost, however old each cached page is.
THEOREM Complete == Spec => []WalkComplete
<1>1. Inv => WalkComplete
  <2> SUFFICES ASSUME Inv, NEW c \in Clients, walk[c] # << >>, ~ LastAnswer(c).more,
                      NEW r \in Matching(FirstPage(request[c]), Rows),
                      \A i \in DOMAIN walk[c] : Reaches(c, i, r) => r \in walk[c][i].seen
               PROVE  (\E i \in DOMAIN walk[c] : r \in walk[c][i].page) \/ CutOff(c, r)
    BY DEF WalkComplete
  <2>1. ~ ToCome(c, r)
    BY DEF ToCome
  <2> QED
    BY <2>1 DEF Inv, Covered
<1> QED
  BY Invariant, <1>1, PTL
=============================================================================

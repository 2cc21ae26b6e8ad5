------------------------------- MODULE ReadApi -------------------------------
(***************************************************************************)
(* Backend_API_Auth: the GET endpoints over the hypertables.  A request    *)
(* looks in Redis first, then queries one page of the table, newest rows   *)
(* first, answers, and leaves the page in Redis from a goroutine that      *)
(* nobody waits for.  Clients walk a listing page by page, giving the      *)
(* next_cursor of one answer as the `before` of the next request.          *)
(*                                                                         *)
(* GetLive, GetPredictions and GetRecommended are one handler over three   *)
(* tables; the predictions of two horizons are two listings.  GetRoads has *)
(* the same cache, one key and no pages.                                   *)
(***************************************************************************)
EXTENDS Integers, Sequences, FiniteSets

CONSTANTS Clients,
          Horizons,      \* the listings of predictions, one for each horizon
          Rows,          \* bound: the rows [list, ts, road] that are ever inserted
          AnyRoad,       \* no road_id parameter
          Asks,          \* [Clients -> what it asks for: [list, road, limit]]
          DefaultLimit, MaxLimit,
          NoLimit,       \* of the answer that has no pages
          NoCursor,      \* no `before` parameter
          Nothing,       \* no cache entry
          MaxWrites      \* bound: cache writes under way at one time

ASSUME ReadApiAssumption ==
    /\ DefaultLimit \in Nat \ {0} /\ MaxLimit \in Nat \ {0} /\ NoLimit \in Nat \ {0}
    /\ MaxWrites \in Nat
    /\ \A c \in Clients : \A ask \in Asks[c] : ask.limit \in Int
    /\ IsFiniteSet(Rows) /\ Cardinality(Rows) <= NoLimit
    /\ \A r \in Rows : r.ts \in Nat
    /\ NoCursor \notin Nat

VARIABLES table,      \* the committed rows
          redis,      \* [CacheKeys -> answer or Nothing]
          pc,         \* [Clients -> "idle", "get", "query"]: its request
          request,    \* [Clients -> Requests], the current or last one
          walk,       \* [Clients -> the answers of the current walk]
          writes      \* cache writes under way: [key, answer]

vars == <<table, redis, pc, request, walk, writes>>

\* ParsePagination: a limit that is not positive is the default, one too large
\* is cut.
Granted(asked) ==
    LET limit == IF asked > 0 THEN asked ELSE DefaultLimit
    IN  IF limit > MaxLimit THEN MaxLimit ELSE limit

Cursors == {r.ts : r \in Rows} \union {NoCursor}

\* The request for the first page of what a client asks for; GetRoads has no parameter.
FirstRequest(ask) ==
    IF ask.list = "roads"
    THEN [list |-> "roads", road |-> AnyRoad, limit |-> NoLimit, before |-> NoCursor]
    ELSE [list |-> ask.list, road |-> ask.road, limit |-> Granted(ask.limit), before |-> NoCursor]

Requests == {[FirstRequest(ask) EXCEPT !.before = cursor] :
                ask \in UNION {Asks[c] : c \in Clients}, cursor \in Cursors}

\* A key without the cursor, as if every page of a listing were the same.
CacheKey_Slip(q) == <<q.list, q.road, q.limit>>

\* cacheKey: the parameters of the request, put together.
CacheKey(q) == <<q.list, q.road, q.limit, q.before>>
CacheKeys   == {CacheKey(q) : q \in Requests}

\* An answer: a page, has_more, and (history only) all rows that matched then.
Answers == [page : SUBSET Rows, more : BOOLEAN, seen : SUBSET Rows]
Writes  == [key : CacheKeys, answer : Answers]

\* The table and the WHERE clauses.
Matching(q, rows) ==
    {r \in rows : /\ r.list = q.list /\ q.road \in {AnyRoad, r.road}
                  /\ q.before = NoCursor \/ r.ts < q.before}

\* The listing that a request is for a page of.
FirstPage(q) == [q EXCEPT !.before = NoCursor]

\* ORDER BY ts DESC LIMIT n: the newest rows; rows of the same ts come in any order.
Newest(rows, n) ==
    {page \in SUBSET rows :
        /\ Cardinality(page) = IF Cardinality(rows) > n THEN n ELSE Cardinality(rows)
        /\ \A r \in page, other \in rows \ page : other.ts <= r.ts}

PagesOf_Slip(q, rows) ==
    {[page |-> page, more |-> Cardinality(page) < q.limit, seen |-> Matching(q, rows)] :
        page \in Newest(Matching(q, rows), q.limit)}

\* The query asks for one row more than the limit, to know has_more, and drops it.
PagesOf(q, rows) ==
    {[page |-> page, more |-> Cardinality(Matching(q, rows)) > q.limit, seen |-> Matching(q, rows)] :
        page \in Newest(Matching(q, rows), q.limit)}

\* next_cursor: the ts of the last row of the page.
NextCursor(answer) ==
    CHOOSE ts \in {r.ts : r \in answer.page} : \A r \in answer.page : ts <= r.ts

\* The last answer of the walk.
LastAnswer(c) == walk[c][Len(walk[c])]

Init ==
    /\ table \in SUBSET Rows
    /\ redis = [k \in CacheKeys |-> Nothing]
    /\ pc = [c \in Clients |-> "idle"]
    /\ request \in [Clients -> Requests]
    /\ \A c \in Clients : \E ask \in Asks[c] : request[c] = FirstRequest(ask)
    /\ walk = [c \in Clients |-> <<>>]
    /\ writes = {}

-----------------------------------------------------------------------------
(* The database, Redis and the clients. *)

\* A service stores a row, the collector a road; its ts may be older than that of
\* rows already there.
Insert(row) == /\ row \notin table
               /\ table' = table \union {row}
               /\ UNCHANGED <<redis, pc, request, walk, writes>>

\* The TTL of an entry runs out (or Redis evicts it, or restarts empty).
Expire(k) == /\ redis[k] # Nothing
             /\ redis' = [redis EXCEPT ![k] = Nothing]
             /\ UNCHANGED <<table, pc, request, walk, writes>>

\* A client reads its list from the first page (again), perhaps by another road;
\* one that reads several lists is several clients.
Ask(c, ask) ==
    /\ pc[c] = "idle"
    /\ ask.list = request[c].list
    /\ request' = [request EXCEPT ![c] = FirstRequest(ask)]
    /\ walk' = [walk EXCEPT ![c] = <<>>]
    /\ pc' = [pc EXCEPT ![c] = "get"]
    /\ UNCHANGED <<table, redis, writes>>

\* It goes on from the cursor of the last answer.
AskNext(c) ==
    /\ pc[c] = "idle"
    /\ walk[c] # <<>> /\ LastAnswer(c).more
    /\ request' = [request EXCEPT ![c].before = NextCursor(LastAnswer(c))]
    /\ pc' = [pc EXCEPT ![c] = "get"]
    /\ UNCHANGED <<table, redis, walk, writes>>

-----------------------------------------------------------------------------
(* The handler. *)

Respond(c, answer) == /\ walk' = [walk EXCEPT ![c] = Append(@, answer)]
                      /\ pc' = [pc EXCEPT ![c] = "idle"]

Cached(c) == redis[CacheKey(request[c])]

GetHit_Slip(c) ==
    /\ pc[c] = "get"
    /\ Cached(c) # Nothing
    /\ Respond(c, Cached(c))
    /\ writes' = writes \union {[key |-> CacheKey(request[c]), answer |-> Cached(c)]}
    /\ UNCHANGED <<table, redis, request>>

\* cache.Get finds the page.
GetHit(c) == /\ pc[c] = "get"
             /\ Cached(c) # Nothing
             /\ Respond(c, Cached(c))
             /\ UNCHANGED <<table, redis, request, writes>>

\* Without the test of cached.Data, a nil error would do: an empty answer.
GetMiss_Slip(c) ==
    /\ pc[c] = "get"
    /\ Respond(c, [page |-> {}, more |-> FALSE, seen |-> Matching(request[c], table)])
    /\ UNCHANGED <<table, redis, request, writes>>

\* Nothing there (Get returns nil and leaves Data nil), or Redis does not answer,
\* or there was none when the API started: on to the table.
GetMiss(c) == /\ pc[c] = "get"
              /\ pc' = [pc EXCEPT ![c] = "query"]
              /\ UNCHANGED <<table, redis, request, walk, writes>>

\* The page is read, answered, and handed to a goroutine that caches it.
Query(c) ==
    /\ pc[c] = "query"
    /\ Cardinality(writes) < MaxWrites
    /\ \E answer \in PagesOf(request[c], table) :
          /\ Respond(c, answer)
          /\ writes' = writes \union {[key |-> CacheKey(request[c]), answer |-> answer]}
    /\ UNCHANGED <<table, redis, request>>

\* 500, database query failed: the client may ask again, or start over.
QueryFails(c) == /\ pc[c] = "query"
                 /\ pc' = [pc EXCEPT ![c] = "idle"]
                 /\ UNCHANGED <<table, redis, request, walk, writes>>

\* cache.Set reaches Redis, on a context of its own and as late as it may.
SetLands(w) ==
    /\ w \in writes
    /\ redis' = [redis EXCEPT ![w.key] = w.answer]
    /\ writes' = writes \ {w}
    /\ UNCHANGED <<table, pc, request, walk>>

\* Its error is dropped.
SetLost(w) == /\ w \in writes
              /\ writes' = writes \ {w}
              /\ UNCHANGED <<table, redis, pc, request, walk>>

Get(c) == GetHit(c) \/ GetMiss(c)
Set(w) == SetLands(w) \/ SetLost(w)

Serve(c) == Get(c) \/ Query(c) \/ QueryFails(c)

GetLive(c)        == request[c].list = "traffic" /\ Serve(c)
GetPredictions(c) == request[c].list \in Horizons /\ Serve(c)
GetRecommended(c) == request[c].list = "reroutes" /\ Serve(c)
GetRoads(c)       == request[c].list = "roads" /\ Serve(c)

Next == \/ \E row \in Rows : Insert(row)
        \/ \E k \in CacheKeys : Expire(k)
        \/ \E w \in writes : Set(w)
        \/ \E c \in Clients : \/ \E ask \in Asks[c] : Ask(c, ask)
                              \/ AskNext(c)
                              \/ GetLive(c)
                              \/ GetPredictions(c)
                              \/ GetRecommended(c)
                              \/ GetRoads(c)

Spec == Init /\ [][Next]_vars

\* Redis lets entries expire; nothing is assumed of clients and handlers.
Fairness == \A k \in CacheKeys : WF_vars(Expire(k))

FairSpec == Spec /\ Fairness

-----------------------------------------------------------------------------
(* What must hold. *)

\* Every variable has its type, has_more comes with a full page, and what is
\* cached under a key answers every request of that key.
TypeOK ==
    /\ table \subseteq Rows
    /\ redis \in [CacheKeys -> Answers \union {Nothing}]
    /\ pc \in [Clients -> {"idle", "get", "query"}]
    /\ request \in [Clients -> Requests]
    /\ \A c \in Clients :
          /\ walk[c] \in Seq(Answers)
          /\ \A i \in DOMAIN walk[c] :
                walk[c][i].more => Cardinality(walk[c][i].page) = request[c].limit
    /\ writes \subseteq Writes
    /\ \A q \in Requests :
          LET entry == redis[CacheKey(q)]
          IN  entry # Nothing => /\ entry.page \subseteq entry.seen
                                 /\ entry.seen \subseteq Matching(q, Rows)

\* A walk lists rows strictly downwards in time, so it never lists one twice,
\* whatever is inserted, cached, expired or overwritten while it lasts.
WalkDescends ==
    \A c \in Clients : \A i, j \in DOMAIN walk[c] : i < j =>
        \A r \in walk[c][i].page, s \in walk[c][j].page : s.ts < r.ts

\* A row that shares the ts of the last row of a page which others follow: the
\* cursor skips it, as it skips every row of that ts.
CutOff(c, r) ==
    \E i \in DOMAIN walk[c] : walk[c][i].more /\ r.ts = NextCursor(walk[c][i])

\* The i-th page of a walk begins above row r.
Reaches(c, i, r) == i = 1 \/ r.ts < NextCursor(walk[c][i - 1])

\* A walk that has reached its end listed every row of its listing that was in the
\* table whenever a page beginning above it was read, but for the roads cut off
\* among those of one ts: none is lost between two pages, although one may be fresh
\* and the other long cached.
WalkComplete ==
    \A c \in Clients :
        walk[c] # <<>> /\ ~ LastAnswer(c).more =>
            \A r \in Matching(FirstPage(request[c]), Rows) :
                (\A i \in DOMAIN walk[c] : Reaches(c, i, r) => r \in walk[c][i].seen)
                => (\E i \in DOMAIN walk[c] : r \in walk[c][i].page) \/ CutOff(c, r)

\* Once the table stays as it is, the cache comes to agree with it for good,
\* though late writes of old pages may still overwrite newer ones for a while.
CacheCatchesUp ==
    <>[](\A q \in Requests : redis[CacheKey(q)] # Nothing =>
            redis[CacheKey(q)] \in PagesOf(q, table))
=============================================================================

# CityFlow in TLA+

A verification project for CityFlow (`src/`): sensors publish traffic readings
over MQTT; a collector stores and relays them; a predictor forecasts congestion
per road; a rerouter recommends alternatives; a REST/WebSocket API and a browser
dashboard show all of it. The models are checked with TLC on small instances and
the central facts are proved with TLAPS for every value of the constants.

## 1. Inventory

| Component | State | Operations | Talks to | What is hard | What makes it correct |
|---|---|---|---|---|---|
| **Simulator** `simulator/index.js` | data caches, cursors, interval timers | fetch, refresh, publish loop, (re)connect | Paris API (HTTP), MQTT QoS 0 | reconnects start more loops; a refresh under running loops | published data belong to an active road and to one answer; real data come back |
| **Collector** `services/collector` | MQTT client, queue, Prometheus counters, optional Redis client | connect, subscribe, `processMessage`, shutdown | MQTT in; `traffic_raw`, `roads`, Redis `cityflow:live` out | two instances in a rolling update; statements that fail after taking effect; lost and repeated messages; crash between statements | each reading stored once, stored before it is relayed, relayed in order; every message counted; the handler never wedges |
| **Predictor** `services/predictor` | nothing between cycles but the ticker | `runCycle`: query, forecast, store, publish | reads `traffic_raw`; writes `predictions` | overlapping instances, row-by-row batches, failing statements, early returns; extrapolation over windows with gaps | a failure costs one row; predictions settle on the current traffic; a prediction is a score and follows the traffic |
| **Rerouter** `services/rerouter` | same | `runCycle`: query, decide, store, publish | reads `predictions`; writes `reroutes` | reads torn batches; ties and floating point at the margin; decisions per road that must fit together | advice sound, unique per road, never circular, given when it should be; settles with the traffic |
| **Read API** `handlers/{prediction,traffic,reroute,roads,pagination}.go`, `services/cache.go` | Redis entries | GET with cache-aside and cursor pages | TimescaleDB, Redis | asynchronous cache writes, rows inserted during a walk, pages of different age, ties at a page end | a walk lists nothing twice and loses nothing; the cache catches up |
| **Accounts** and **bootstrap** `handlers/auth.go`, `auth_service.go`, `middleware/auth.go`, `cmd/api/main.go`, `config.go` | `users`, the configuration, the connections `main` opens | start, register, login, validate | database, Redis | concurrent registration, failing statements with or without effect, starts without database or Redis or on a port that cannot be used, crashes | one account per address; a token speaks for its owner; the API serves at last |
| **Live socket** `handlers/websocket.go`, `js/websocket.js` | one subscription and two goroutines per connection; reconnect timer | subscribe, relay, reconnect | Redis, browser | disconnect at any point, Redis absent, backoff, missing token | no subscription outlives its connection; the client ends up connected |
| **Dashboard** `js/dashboard.js`, `api.js`, `app.js`, `auth.js` | live and prediction maps, token, socket, interval | initial load, live updates, polling, login, logout | REST, WebSocket | answers that come late, in any order, to a page that is gone, or as a 401; other tabs that change the token they share | page, socket and interval stay together; predictions never go back; a settled login holds; a page whose login is over ends |
| Deployment, observability | none that changes | - | - | - | - |

Mosquitto, Redis and TimescaleDB are third-party; the models describe them as
the services use them. `PROJECT.json` lists the components with what is modelled
of each, and under `hazards` every spot where the code is hard to test.

## 2. Modules

    LiveFeed                    what the collector promises downstream (abstract)
    Collector                   services/collector, implements LiveFeed
      MCCollector               instances for TLC
      CollectorProofs           theorems
    RerouteDecision             the rerouter's decision, pure operators
      OneDecision               a decision as a one-step system, its properties
        MCRerouteDecision       the road network of the code
      Rerouter                  the cycle of services/rerouter
    Predictor                   the cycle of services/predictor
    Forecast                    its arithmetic, pure operators
      OneForecast               a forecast as a one-step system, its properties
        MCForecast              windows for TLC
    AlgorithmProofs             theorems about OneDecision and OneForecast
    Intelligence                Predictor and Rerouter on one predictions table
      MCIntelligence            instances for TLC
      IntelligenceProofs        theorems about Predictor and Intelligence
    ReadApi                     the GET handlers, cache and cursor walks
      MCReadApi                 instances for TLC
      ReadApiProofs             theorems
    Registry                    what the accounts promise (abstract)
    Accounts                    start of the API, registration, login, tokens; implements Registry
      MCAccounts                instances for TLC
      AccountsProofs            theorems
    Simulator                   fetch, refresh and publish loops of simulator/index.js
      SimulatorProofs           theorems
    LiveSocket                  LiveWebSocket and the client that reconnects
      LivePath                  LiveSocket behind LiveFeed: from the row to the browser
        LiveSocketProofs        theorems about LiveSocket and LivePath
    Dashboard                   a browser tab: pages, requests and late answers
      DashboardProofs           theorems

**Collector.** An action is one statement that leaves the process: taking a
message from paho's queue (`Receive`, with decoding, time and validation), the
INSERT (`Insert`, `InsertFails`), the road upsert (`UpsertRoad`), the PUBLISH
(`PublishLive` for each relay, `PublishReturns` for the return). `InsertFails`
may have taken effect: an error does not tell. `main` is `Start`, `Connect`,
`Subscribe`, `ConnectionLost`, `Terminate`, `Exit`; a crash is `Exit` without
`Terminate`. A message is known by its position in `topic`; measurements are
abstracted away. Several instances may run because the Deployment keeps the
default rolling update, which overlaps the old and the new pod.

**Predictor, Rerouter, Intelligence.** A cycle is `BeginCycle` (the time is
taken), `Query` (one statement, one snapshot), one `Store` or `StoreFails` per
row in any order (Go maps), `Publish`. The forecast's arithmetic has a module of its
own; here it is `window`: the score it gives a road from what is in the window now.
Nothing subscribes to `cityflow:predictions` or `cityflow:reroutes`, so what is
published there is not kept. A statement abandoned when its process dies either
took effect before (`Store`, then `Exit`) or never does.

**RerouteDecision.** Scores are integers in units of 1/`One`; the predictor
rounds to thousandths, so `One = 1000` loses nothing. `delta < 0.1` is evaluated
in binary floating point by the code: at a decimal difference of exactly 0.1 the
outcome depends on the operands, so `Recommendations` allows both there and only
there.

**Forecast.** From bucket averages to score and confidence, in exact integers:
averages in tenths (of `maxSpeed`, of full occupancy, of `maxFlow`), congestion
scores in hundredths, predictions in thousandths, the line of least squares as a
fraction. `Rounded` allows both neighbours at a tie of `math.Round`, where the
product of floating point numbers may fall on either side. `Offsets` has the first
bucket begin before the window does, as `time_bucket` counts from a fixed origin. The
query has no upper end and the collector stores any time, so there may be buckets after
now (`Late`), of readings whose sensor's clock is ahead.
The regression itself is gonum's; `Fitted` is its textbook form. `now.Hour()` is that
of UTC, so the rush hours are those of UTC too.

**ReadApi.** `Ask`/`AskNext` start a request, `GetHit`/`GetMiss` are `cache.Get`,
`Query`/`QueryFails` the statement and the answer, `SetLands`/`SetLost` the
goroutine that writes the cache. `GetLive`, `GetPredictions`, `GetRecommended` and
`GetRoads` are the same steps over their tables; their keys share one Redis. `CacheKey`
puts the parameters of a `request` together as `cacheKey` does. A client reads one
listing, by one road or another; one that reads several is several clients. `Expire` may drop an entry at any time,
which covers every TTL, eviction and restart of Redis. `seen` in an answer is a
history component: the rows that matched the request when the page was read. Requests that
are answered 400 change nothing and are left out.

**Accounts.** `Start`, `OpenDatabase` and `PingRedis` are `main` up to
`router.Run`, which is `Listen`: a number that is no port passes `config.Load` and ends
the process there. `Crash` takes the handlers along. A registration is `Submit`,
`Insert` (the unique index decides) and `IssueToken`, a login `Submit`, `Lookup`
and `IssueToken`; `InsertFails` may have taken effect. bcrypt and the signature
are library code: a hash stands for equality with its password, a token is what it
says. `by`, the password presented for a token, is a history component. `Registry` has
two actions, `Register` and `Open`: the INSERT that takes effect, whatever is answered, and
the answer that carries a token. All the rest of `Accounts` is a stutter of it.
`Session` maps a token to the account it names and the password that was presented.

**Simulator.** Node runs one callback at a time: an action is what happens between
two awaits. `Connect` is the "connect" event, whose handler awaits a fetch
(`starting`) and then starts two intervals (`loops`); `Refresh` is the refresh
interval, `Publish` a tick. `FetchSucceeds`, `FetchEmpty` and `FetchFails` are the
three ways out of `fetchParisData`; the catch may be entered with the caches
partly refilled, or with the active roads replaced already. Counts are abstracted to the answer (`edition`) they come from.
`OwnReadings` and `OneEdition` are about what a tick reads out of caches that a
refresh has replaced or broken since the last one.

**LiveSocket.** Both ends of `/ws/live`. The handler is a program counter
(`request`, `upgraded`, `relaying`, `returned`) beside its read pump and its
context; `Return` is the block of deferred calls. The client is `Connect`,
`TimerFires`, `OnClose` and `Disconnect`. A connection keeps the verdict on the
token of its URL (`good`): logging in again does not help a request under way.
`up` is what both ends see in the end; writes before that may vanish. Delays are
not in the model: a timer that is set may fire. Connections are slots that are used
again once handler, pump and client are done with them.

**LivePath.** `LiveSocket` numbers its messages; `LivePath` says what they are: message n
is the n-th announcement of `LiveFeed`, which Redis hands to the subscribers of that
moment (`Relayed` is `Announce` and `Publish` in one step). `Collector` implements
`LiveFeed`, so what is shown of the promise is shown of the collectors, without their
program in the model. The path is itself a `LiveSocket` (`PathIsLiveSocket`), so it
answers the questions about the socket too.

**Dashboard.** JavaScript runs one callback at a time: an action is what happens
between an event and the next wait for the network. `ShowPage` is `navigate`:
`destroyDashboard`, then the page for the token. Requests are a bag: answers come in
any order, to whatever page is there by then. A request keeps the token it was sent
with, and whether that was alive then (`live`): an expired one may still be granted
if it was, and is `Refused` otherwise. What is shown of the one road is the number
of a reading; `feed` is how far the socket has got. Other tabs (`OtherTab`) log in and
out under the same token in localStorage, and no page listens to changes of it. Nothing
says that a published reading reaches the socket: `LiveFeed` and `LiveSocket` may lose it.

Operators ending in `_Slip` state plausible mistakes; no action uses them. Each
property of a passing run fails when the definition `PROJECT.json` names is
replaced by its slip. Where a module's `TypeOK` is proved for every instance, and a run
has deeper things to ask, the run leaves it out (`OneAdvicePerRoute` and
`PredictionsForward` likewise).

## 3. Runs

| Run | Question | Result |
|---|---|---|
| `collector_rolling` | two instances that start, lose connections, stop and crash anywhere, 2 messages | readings stored once, first one kept, feed in order and never ahead of its row |
| `collector_single` | one instance, every kind of message, 3 messages, PUBLISH repeated | also: counters balance, road metadata never goes back, the handler catches up |
| `predictor_overlap` | two predictors, two roads, up to 2 faults | a fault costs one row; predictions settle |
| `reroute_decision` | every snapshot of scores in tenths over the network of the code | decision equals the code's loop, sound, acyclic, complete |
| `forecast` | every window of seven buckets, each of three states or empty, and with a bucket after now, near or far; two hours | a score at all times; follows the current score, and no false relief, on the conditions below |
| `intelligence` | both services on one table, two congested roads with one way out, torn batches, a fault | a failing INSERT costs the rerouter one recommendation of a batch of two; advice settles; every road that needs advice gets it in the end |
| `reroute_unknown_roads` | is every road above the threshold rerouted? | no: only the five names of the map (finding) |
| `read_api` | a client walks a listing by two roads or none, or reads another list, pages of one row, three rows of which two share a ts, late writes | no answer of another request; pages descend; only rows at a shared ts are cut off; the cache catches up |
| `simulator_refresh` | the loops of three connections, two refreshes at once, half done and empty answers | a tick publishes each road's own readings of one answer; real data return |
| `socket_reconnect` | `LivePath`: a collector that may repeat an announcement, and a client with an old and a new connection, lost messages, breaks, tokens that expire or vanish, Redis absent | each announcement once and in order; what is shown has its row and follows the stream; subscriptions end; the client ends up on the feed |
| `accounts` | two clients, one address, two passwords and an unfit one, every environment, up to 2 faults, starts without Redis, a port that cannot be used | one account and owner per address; answers true; implements `Registry`; the API serves at last |
| `dashboard` | logins, logouts, expiry and refusals in this and other tabs, with up to 3 requests under way, two tokens | page, socket and interval together; settled logins hold; requests end; a page whose login is over ends |

**Bounds.** `collector_rolling` needs two messages: one read by both instances,
one that overtakes; its view drops counters and road rows, which steer nothing
and which its properties do not read. `collector_single` needs three so that
`NextUp` has an order to break while one message is in hand. Road metadata can
go back when *two* instances overlap (the upsert compares no time), which is why
`RoadsMoveForward` is asked of one instance only. The decision run enumerates all
snapshots of five roads in steps of 0.1: every order of the scores around
the threshold and every gain below, at and above the margin occurs. Clocks that
stop at 1 tell "same second" from "later", which is all the upserts and
`DISTINCT ON` tell apart. Pages of one row
in `read_api` make a walk of up to three pages: a row at ts 2, perhaps the one at ts 1 and an
empty end. Any of them may be fresh or cached at another time, a row can be inserted
between two of them, on either side of the cursor, and the two rows of ts 2 make a page that ends among them. Limits
above the maximum are cut. Two writes under way overtake each other. In `accounts`
two ids are enough for a lost race, and one fault more for a reply that is lost after
the row is in; the two numbers of the environment are 0 (no hours, or any free port) and -1
(no port). `intelligence` starts on two congested roads that share one way out, free, full
or silent (`Starts`), so a batch of the rerouter holds two recommendations of which the
failing INSERT is the first or the second; one shift of the traffic leads on from there. In `dashboard` two tokens are an old and a new login, three requests
are those of a page that has just loaded its roads and one of the page before, and
one reading will do: no property of the run is about their order. (`PredictionsForward`
is proved.) `forecast` uses the default intervals (window and
horizon of 30 minutes, buckets of 5). `RisingNotEased` depends on them: with a window of
60 minutes and the same horizon, or with a horizon of 25 minutes and the same window, it
does not hold, as a line over a long flat stretch can lie below a late rise. `FarSighted`
is the condition on the intervals; `MCForecast` assumes it, so that TLC evaluates it at
the defaults, and it is false in both other cases. A bucket after now (`MaxLate = 1`) is a step past now,
or beyond the time the prediction is for (numbers 10 and 13 of `Buckets`). Such readings
turn both facts around, so each states its condition: with a standing bucket in the
future behind a slow window, the line is read before its end and forecasts relief
(`RisingNotEased` asks for none after now), and where the readings' mean is beyond the
time of the prediction, a worse last bucket lowers the line there
(`WorseNowNotBetterLater` asks that it is not). Up to three loops of the simulator, with a refresh
handled between any two ticks of either, are enough for a cache to change under
a loop. A client has one socket and at most one older connection whose handler is
still busy: two slots, and with two messages the old handler can hold one while the
new one delivers the other; announced by one collector, they may be one reading twice, or
two of which the older must not come last. Several collectors change nothing that
`ShownInStreamOrder` asks of each (the theorem has any number). `MaxFaults = 2` lets a connection break, the next
one too, and the third one stay.

**Fairness.** Only of the services' own steps: the handler goroutine runs and
statements return with a result or an error (`Collector`); tickers fire, dead
processes are restarted (`restart: unless-stopped` and the Deployments) and
statements return (`Predictor`, `Rerouter`); Redis drops entries whose TTL ran
out (`ReadApi`); timers fire and requests to the open data API
return (`Simulator`); the browser delivers events and fires timers, goroutines
run, and a broken connection shows in a read (`LiveSocket`); the process is restarted
and the calls of its `main` return (`Accounts`); requests come to an end, intervals
go off, and the API does not fail on every request it would answer 401 (`Dashboard`). Nothing is assumed of sensors, broker, network,
clients or traffic. Faults are unbounded in `Collector` and `ReadApi`, and
bounded by `MaxFaults` where a liveness property needs them to end.
`RealDataReturns` asks for a running loop and counts an answer without any usable
record as a fault; `ReconnectsWithToken` asks for an API that has Redis, a token that
stays valid from some time on, some token at all times before and a dashboard that
stays open. `ServesAtLast` asks for a readable environment, a port that can be used and a database
that stays; `QuietAtLast` for a user who no longer logs in. `SessionEndsAtLast` assumes
nothing of a user: `fetchPredictions` goes off until one is refused, or another login
of any tab makes the page's token good again.

`HandlerCatchesUp` is about the handler and its queue; a refused subscription
(`"deaf"`) leaves nothing to catch up with. `AdviceSettles` and
`CongestionRelieved` assume that in the end every road reports and traffic stays
as it is: a silent road keeps its last prediction for ever.

## 4. Findings

1. The adjacency map and the roads the simulator publishes have no name in
   common, so no congested road of a running system is rerouted
   (`reroute_unknown_roads`).

Other disagreements, which the properties above name as exceptions or leave out:

* The cursor is a bare timestamp, and a predictor cycle stores all roads under one: a
  page that ends among them hides the rest (`handlers/prediction.go:55, 73`). With a
  `road_id` the primary key makes timestamps unique. `CutOff` in `ReadApi` is this case.
* A `before` that does not parse is ignored and the listing starts again
  (`handlers/pagination.go:39`).
* `connect()` without a token schedules no other attempt: a reconnect timer that fires
  while another tab is logged out is the last (`js/websocket.js:18`).
* The REST page of the initial load replaces newer readings that the socket delivered
  meanwhile (`js/dashboard.js:152`), and the socket newer ones that the page brought:
  neither compares times.
* The window of the predictor has no upper end (`services/predictor/main.go:150`) and the
  collector takes any timestamp: a reading stamped in the future stays in every window
  until its time has passed, as the "current" score, and turns the line.
* `SERVER_PORT=-1` or `99999` passes `config.Load`, which only parses it: the API connects
  to database and Redis, fails to listen and is restarted for ever (`cmd/api/main.go:83-87`).
* Two collectors in a rolling update may set a road's metadata back: the upsert compares
  no time.
* Any 401 clears the token that is stored by then: a late one ends a new login
  (`js/api.js:32`); that of a failed login renders the form again, so its message is
  gone (`js/api.js:31-34`, `js/auth.js:50`). A refused `loadRoads` still sends two
  requests without a token (`js/dashboard.js:727`).
* 409 "email already registered" and 401 "invalid credentials" also stand for any error
  of the database (`handlers/auth.go:51, 73`). `JWT_EXPIRY_HOURS` of 0 or less is
  accepted: every token is then expired when it is issued.
* `msgsStored` counts messages whose INSERT met an existing row, although its help text
  says "successfully inserted" (`services/collector/main.go:40`, 186, 194).
* Every reconnect of the simulator adds a publish loop, although `README.md:32`
  promises one publication every two seconds (`simulator/index.js:164-184`).

## 5. Proofs

All from the assumption each module states of its constants: bounds are numbers, sets
that are counted are finite, missing values are no values.

* `CollectorProofs`. `TypeCorrect` is the base: `TypeOK` is inductive because it
  also says what a handler between two statements holds (`ReadingInHand`) and
  that queues hold published messages only (`InboxKnown`).
  `CountersCorrect` adds the balance, `StoredOnce` the invariant `TableInv` (a row
  of a timestamped message has that message's own time and sensor, so two rows of
  one message have one key, and the table is a function of the key).
  `LiveFeedImplemented` is a refinement: its invariant `RelayInv` orders what an
  instance has relayed, holds in hand and has queued, and says that the row in
  hand is in the table once the handler is past the INSERT; each step then
  maps to `Record`, `Announce` or a stutter. `FirstReadingStays` is an action
  property from the way the upsert-free INSERT extends the table.
  `RoadsForward` assumes a single instance (`Instances = {c}`; two may overtake each
  other): `RoadsInv` puts every road behind the message in hand and the queue.
* `AlgorithmProofs`, the decision. Soundness and uniqueness follow from the definition
  of the best alternative (the first place with the least score is unique).
  Acyclicity takes the advised road of least score in a set closed under advice,
  whose alternative is lower by the margin: a contradiction (least elements come
  from the well-foundedness of the natural numbers). Completeness is about the state after a
  decision (`decided`), be it empty: a best alternative exists when a usable one does, and
  is no worse than it.
  `DecisionIsTheLoop` joins this definition to the code's loop, for every network and
  snapshot: after k alternatives the loop holds the first of least score below 1.0
  among them (`FoundNext`), so at the end it holds the best one or none.
* `AlgorithmProofs`, the forecast. `ForecastTypeCorrect` needs the divisor of the
  regression to be positive: `Spread` of a set of offsets grows by a sum of squared
  distances with each offset (`SpreadPositive`, the inequality of Cauchy and Schwarz
  for whole numbers). `WorseForecastRises`: raising the last score by d raises the line
  at the future offset F by d * (Sxx + (n m - Sx)(n F - Sx)) over its positive divisor,
  where m is the last offset; no mean is above the last offset (`MeanBelow`), and that
  it is not above F either is the condition of the property, which readings stamped far
  ahead break: then nothing of this is negative. Blending, the factor of the hour, rounding
  (`RoundedGrows`) and clamping keep the order.
  `RisingForecastKeepsUp` is `RisingNotEased` under `FarSighted`, for windows without a
  bucket after now. Scores that rise with
  the offsets do not lean back (`TiltPositive`, Chebyshev's sum inequality for whole
  numbers: a last point above all others adds only products of what it is above them,
  `BelowPositive`). Applied to the window without its last bucket, with score c at offset m,
  that bounds the slope (`SlopeLifts`): (n - 1) Sxy is at least (n m - Sx)(n c - Sy), as
  much as if all were flat until the last bucket. `FarAhead` says that (n F - Sx)(n m - Sx)
  is at least (n - 1) Sxx; the product of both is that the line is no lower at F than c
  (`LineKeepsUp`). Blending with c, the factor of the hour, rounding (half a unit is the
  10 of the property) and clamping keep that.
  Both rest on what folds over finite sets are: the community modules define them by a
  recursive function, `FoldExists` shows that there is one and `FoldsAgree` that there is
  one only. Where a fact needs induction over a set, its proof takes a smallest subset
  without it (`SmallestSet`) instead.
* `IntelligenceProofs`. Of the predictor alone, with any other predictors beside it:
  `PContained` is `RowLossContained` from the first row of a batch
  on: the roads that are neither stored nor still pending are no more than the faults.
  An upsert keeps the rows of other roads (`PUpsertKeeps`), and other predictors at most
  replace a row of the same road and second, so no row is lost that was there.
  Of both services: the invariant `Inv` is the predictor's `PInv` and its counterpart
  `RInv` for the rerouter. A step of one leaves the processes of the other alone and its faults only
  add to what a loss may cost; a rerouter's batch is well typed since the newest row of a
  road in a well-typed table is unique and on the scale, whatever half of a predictor's
  batch it reads. `AdviceLossesContained` follows for every interleaving.
* `ReadApiProofs`. `CacheTrue` says that Redis and the writes under way hold answers to
  the request of their key (no two requests have one, `KeysDiffer`); `Continues` that a request goes on exactly where its walk stopped;
  `Covered` that a row which matched at every page beginning above it is listed, cut off,
  or still to come below the cursor. `WalkDescends` is inductive with the first two, and `WalkComplete`
  is `Covered` when nothing is to come.
* `AccountsProofs`. A handler that has its row (`Handling`) has a row of the table with
  the password of its request; addresses are unique in the table (`EmailsUnique`);
  ids suffice for the registrations under way. `OneOwnerPerAddress` follows from these
  and `TokenSpeaksForOwner`; `AnswersTrue` goes through the actions that answer: 201 comes with a row of the
  client's own, and 409 and 401 from a statement that did not fail are true of the table.
  `RegistryImplemented` is a refinement under the same invariant: an INSERT that takes effect
  adds a user whose id and address are new (`InsertRegisters`: ids come from the sequence,
  the index refuses the address), `IssueToken` opens a session for a row that is still in
  the table with the password of the request (`IssueOpens`), and every other step stutters,
  crashes and failed replies among them.
* `SimulatorProofs`. What is active can be read (`ActiveReadable`), also when a refresh
  stopped half way; a tick sends what it reads in one callback. Counting the loops and
  requests under way keeps them within their bounds.
* `LiveSocketProofs`. `Wired` ties slots, handlers, read pumps and sockets to their
  owner; `Ordered` says that a queue is increasing and, while its connection is up,
  above all its client has got. An older connection of the client is not up.
  `ShownInOrder` composes: `PathStepsPreserve` carries this invariant and that of `LiveFeed`
  (`Feed!Announce` orders the announcements of each collector and puts the row first)
  through a step in which one publishes what the other announces, with as many messages
  as announcements. An increasing selection of announcements is then in stream order for
  each collector, whatever was lost between them.
* `DashboardProofs`. `NothingOutlives` is inductive by itself, whatever other tabs do to the
  token, since every way out of a page is `ShowPage`; bags of requests have lemmas of their own. The two action
  properties follow action by action from the invariant.

Every invariant and action property of a passing run is stated by a theorem. Only
model-checked: liveness (`HandlerCatchesUp`, `PredictionsSettle`, `AdviceSettles`,
`CongestionRelieved`, `CacheCatchesUp`, `RealDataReturns`, `SubscriptionsEnd`,
`ReconnectsWithToken`, `ServesAtLast`, `QuietAtLast`, `SessionEndsAtLast`), which is out of
the prover's reach; and that `FarSighted` is true of the default intervals, which is a
finite computation. That the regression is the line of least squares is gonum's business.

## 6. Plan

Done: every component whose state changes, and a theorem for each of its safety
properties. What could follow:

1. `Pipeline`: collector, predictor and rerouter end to end through `traffic_raw`.
2. `Dashboard` composed with `LivePath`, whose reconnects it abstracts away.
3. Theorems about the cycles of overlapping rerouters beyond their losses: which rows
   of `reroutes` may stand side by side.

## 7. Not modelled

Measurements other than those the forecast reads; HTTP routing, CORS, JSON and log
formats; Prometheus metrics other than the three counters of the collector; hashing
and signing; map drawing, geocoding and routing in the browser; Helm, Kubernetes,
Istio, Argo CD, CI and dashboards. Requests the API answers 400 change nothing.
Clients give out cursors they were given. `CacheService.Delete` and
`WS_POLL_INTERVAL_MS` are used by nothing.

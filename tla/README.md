# A formal model of PolyPy

PolyPy (`src/src`) follows a fleet of prediction markets on the Polymarket WebSocket API. It
discovers markets, subscribes their assets on a pool of connections, recycles connections that
fill up with expired assets, and keeps one order book per asset in worker processes. This
directory holds TLA+ models of that program, the TLC configurations that check them, and proofs
that TLAPS checks. `PROJECT.json` lists the runs, the hazards each property is aimed at, and, for
every definition that models code, the lines it stands for.

Paths below are relative to the repository's `src/` package directory, as in
`registry/asset_registry.py`.

## 1. The system

Everything but the workers runs on one asyncio event loop: between two suspension points a task
runs alone, so the question at every step of the model is *where a task really suspends*. Many
`await`s do not (an uncontended lock, a callback that only logs, a lock body without await); the
models take only the real ones.

| Component | State | Operations | Talks to |
|---|---|---|---|
| Asset registry `registry/` | entry per asset; indexes by market, connection, status, expiration; pending queue | add, mark subscribed, mark expired, take a batch, reassign, remove connection, remove asset | called by pool, recycler, lifecycle controller |
| Connection pool `connection/pool.py` | connections with their age | subscription loop, `force_subscribe`, remove, stop | registry, WebSocket connections |
| WebSocket connection `connection/websocket.py` | status, asset ids, last message | connect, subscribe once on opening, receive, back off and reconnect, stop | exchange, parser, router (callback) |
| Recycler `lifecycle/recycler.py` | recycles in flight, semaphore, counters | check all connections, recycle, force a recycle, stop | pool, registry |
| Lifecycle controller `lifecycle/controller.py` | known markets | discover, add manually, expire, clean up, stop | registry, Gamma API |
| Gamma API client `lifecycle/api.py` | - | paginated fetch with retries | HTTP |
| Parser `messages/` | - | bytes to messages | connection |
| Router `router.py` | async queue, batch, counters | receive, batch, put in a worker's queue, stop | connections, worker queues |
| Workers and manager `worker/` | queues, event, books, statistics | process, answer queries, stop | router, HTTP server |
| Order book `orderbook/` | levels, cached best prices, history | snapshot, price change, reads | worker |
| Application `app.py` | - | start, stop in the reverse order, signals | all |
| HTTP server, stream handler `server/` | streams per client | stats, queries, subscribe, unsubscribe | manager, application |
| Metrics, configuration, logging | - | formatting | - |

What is hard, and what each component owes:

- **Registry.** Seven methods update six structures in any order. *The indexes and the queue agree
  with the entries; the queue is first in, first out and hands out no asset twice.*
- **Pool.** A batch leaves the queue before its connection exists; `stop` awaits the connections
  and then clears the dictionary. *No asset is PENDING outside the queue; every connection that is
  open is in the pool; a shutdown closes all.*
- **Recycler.** A recycle is suspended for seconds between reading the active assets and acting on
  them. Recycles run at once, also on one connection; a replacement may be unhealthy; a removal
  may raise or be cancelled. *A subscribed asset always has a live connection in the pool that
  carries it; statuses never go back; every recycle is counted once and ends.*
- **Lifecycle controller.** Ages are taken on different clocks. *Assets expire and are removed when
  the documents say.*
- **Router.** Bounded queues drop; batches regroup messages. *Per asset, order is kept, nothing is
  repeated, and what is lost is counted.*
- **Workers.** Two sentinels, an event and a kill race with full queues; the exit of a process waits
  for what it has put in its queues; concurrent queries share one queue of answers. *Every worker
  leaves its loop, and ends when what nobody read fits in the pipes; every query gets its own answer,
  never an older one.*
- **WebSocket connection.** The task that receives and reconnects is cancelled at any of its awaits;
  two calls of `stop` may overlap, and one may itself be cancelled. *A stopped connection stays
  stopped and leaves nothing behind; one that is not comes back, and backs off as configured.*
- **Gamma API client.** The listing is read by offset while markets open and close in it; pages fail
  and are asked for again. *A fetch that succeeds misses no market but for the closings; every market
  that stays becomes known.*
- **HTTP server.** A client's handler, its stream and the server's stop all cancel, close and replace
  the same stream. *One stream per client, of the asset it asked for last; none outlives its client.*
- **Application.** Any start or stop may raise, a signal may come at any time. *What is up has what it
  depends on; a signal ends the program, and stops what it can.*
- **Order book.** During a recycle two connections bring the same changes at different speeds, and
  best prices come from messages or from the levels; prices and sizes are scaled and cut off. *The
  book converges to what its conversion can show of the exchange's.*

## 2. The modules

```
AssetRegistry     Clock        AssetChannel                    OrderBook
             \    /   \             ^ (refined by)                 |
         ConnectionPool  LifecycleController   MessageRouter   BookSync
                 |            /                     |             |
         ConnectionRecycler  /                    Worker     MCBookSync
                 |          /                       |
             ControlPlane                       DataPlane
                   |                                |
             MCControlPlane                    MCDataPlane

ConnectionView                   HttpServer              Discovery
     ^ (refined by)                  |                       |
WebsocketConnection              Application            MCDiscovery
```

The theorems about `M` are in `M_proofs`, for `M` in AssetRegistry, AssetChannel, ControlPlane,
DataPlane, BookSync, WebsocketConnection, Application and Discovery.

The modules at the bottom are the insides of what the others take as one step, or as given: a
connection's health (ConnectionPool), the markets a fetch returns (LifecycleController), and what
surrounds both planes.

Definitions called `Faulty...` are slips a change to the code could plausibly make: a dropped
guard, a forgotten index, a counter not kept. No specification uses them. For each property
`PROJECT.json` names one that, put in the place of the definition after it, TLC finds to violate
the property.

**AssetRegistry** (`asset_registry.py`, `asset_entry.py`). The lock is never held across an await
that yields, so a method is atomic: an operator from the registry value before the call to the one
after. `reg` is that value: `assets` (with status `ABSENT` for an id that is not a key), the four
indexes (a missing key is an empty set, as in the code's `.get(key, set())`), and `pendingQueue`,
which gives each asset its place in the list and 0 outside it. `subscribed_at or created_at` is one
field, `since`, because the code only reads them together. `RegistryNext` calls every method with
every argument, sensible or not. The other components use the same operators in their own steps.

**ConnectionView** is all the pool and the recycler know of a connection: not healthy until first
connected, then healthy or not as the network goes, and closed for good once stopped.

**WebsocketConnection** (`websocket.py`). The receive task, where it is suspended (*ready,
connecting, subscribing, receiving, closing, backoff, done*), and the calls of `stop` by the pool and
by a recycle. A `CancelledError` waits in `cancelled` until the task's next step and takes it out by
the way its place in the code dictates (`TakeCancellation`); a `stop` that is itself cancelled while
it awaits the task swallows that and cancels the task once more (`StopCancelled`). No clock: the
back-off timer may fire at any time, and `heard` says what `last_message_ts` would tell `is_healthy`.
`start` is called once, right after the constructor, so Init is a started connection.

**Discovery** (`api.py`, `_discovery_loop` of `controller.py`). The listing of the exchange, which
opens and closes markets, and the fetch that walks it by offset: `PageOk`, the retries of
`PageClientError`, any other exception, `stop`. A record is *valid*, *invalid* (left out) or
*unparsable* (it makes `_parse_market` raise). What is done with the markets found is
LifecycleController's.

**HttpServer** (`websocket_handler.py`, `server.py`). Per client the socket, the handler, the entry in
`_clients` with its stream; per stream where it is and whether a cancellation waits for it. `close`,
`cancel_stream` and the finally clauses are split exactly where they suspend: awaiting a stream that
is over does not. `CloserNext` to `CloserDone` are `_cleanup_websockets`, which runs while handlers
still answer, `CleanupForce` is aiohttp cutting off the rest.

**Application** (`app.py`). `run`: start in order, wait, `_stop` in the reverse order, each start and
stop possibly raising; extends HttpServer, so that clients and streams go on during a shutdown. A
start or stop of another component is one step. `failed`, a ghost, remembers that `start` met an
exception.

**Clock.** `time.monotonic()` and `time.time()` as one discrete, bounded clock.

**ConnectionPool** (`pool.py`). `ProcessPendingMarkets` is a round of the subscription loop: batch,
new connection, marks, with no suspension between. `ForceSubscribe` is used by the recycler.
`PopConnection` and `DropConnection` are `_remove_connection` before and after it awaits
`connection.stop()`; `PoolStopBegin` and `PoolStopEnd` are `stop` around its `gather`. A connection
is seen as the pool sees it: HEALTHY or not (`is_healthy`), or CLOSED; the network changes it
between the first two at any time.

**ConnectionRecycler** (`recycler.py`). One record per task: *idle, waiting* (for the semaphore),
*stabilizing* (the delay), *removing* (awaiting the old connection's stop), and the three ends. The
holders of the semaphore are the tasks in *stabilizing* and *removing*. `CheckAllConnections`
creates a task for each connection that is due; `BeginGone`, `BeginEmpty` and `BeginReplace` are
what a task does on getting the semaphore; `AbortUnhealthy`, `CutOver` and `CutOverGone` what it
does after the delay; `FinishRemoval` and `RemovalRaises` the end. `RecyclerTimeout` cancels what
is left after thirty seconds, including the case where `connection.stop()` swallows the
cancellation.

**LifecycleController** (`controller.py`). A fetch returns any set of unknown markets, and their
assets are added in any order; expiration and clean-up choose assets exactly by the status index
and the times the code uses.

**ControlPlane** (`app.py`). The four components on one event loop, and `_stop`: recycler,
controller, pool.

**MessageRouter** (`router.py`). The routing task is *collecting, routing, draining* or *stopped*;
`batch` is what it has taken and not put. `_route_batch` has no await: while it runs nothing else
on the event loop does (`LoopFree`), yet the workers, other processes, take messages meanwhile.
`NextToRoute` is the order of its two nested loops. A put that finds no room within its millisecond
drops. `WorkerOf`, the hash of assets onto workers, is a constant.

**Worker** (`worker.py`, `manager.py`). One action per kind of item, each with the end of the round
(`NextRound`): a report if thirty seconds are over, which may be at any round, and a look at the event.
`WorkerIdle` is a round whose `get` timed out (also with items in the queue, which may still be with
the queue's feeder thread). A worker that leaves its loop puts its last report (`Leaves`) and is
*exiting*; it is *stopped*, which is what `process.join` waits for, when its process is gone
(`ExitProcess`). Of the statistics queue, which has no bound, `reports` counts what was put and not
read; `get_stats` reads all of it, and only `/stats` and `/metrics` call that. An exit waits for the
feeder threads of the process, and these for room in the pipes, which multiprocessing does not tell
the code about: `StatsPipeSize` and `ResponsePipeSize` say how much fits, and `PipesHaveRoom` that
everything unread does. When it does not, `ExitProcess` may still happen, as this worker's part may
be in the pipe, but need not. Then the three stages of `stop`, and `query_orderbook` with its poll,
put-back and timeout. Of a book only the number of the last message it saw is kept. A worker
processes an item in one step, so a kill does not split one; workers do not crash, as nothing would
restart them.

**DataPlane** (`app.py`). Router, workers, manager and queries together. Once the router stops
nobody else is left on the loop, because `_stop` has stopped the HTTP server and the pool before.

**AssetChannel** is the abstract specification of the data plane: per asset, a channel that may
lose a message, but delivers those it does not lose in their order and once. DataPlane implements
it under the mapping that takes together what is in the worker's queue, the batch and the async queue.
Messages are numbered per asset as they arrive, so a set of numbers says what is under way and in
which order it has to come.

**OrderBook** (`orderbook.py`). A book is a record; a side is a function from prices to sizes, 0 for
no level. `ApplySnapshot`, `ApplyPriceChange`, the lazily filled cache of best prices, the paced
history in a ring.

**BookSync** (`parser.py`, `protocol.py`, `worker.py`, `orderbook_store.py`). An exchange (external)
with a book of its own, the connections an asset is subscribed on, and the worker's one book. A
connection opens with a BOOK message and then brings each change. What it has not delivered is lost
when it closes or reconnects; the router may drop a message. The best price the exchange reports for
an empty side (0 and 1.00) is taken from the frame in `tests/messages/test_parser.py`. Three ghost
variables remember whether a loss has not been made up for and from which feed the messages since its
BOOK came.

The exchange's book is over `Ticks` and `Sizes`, what the parser makes of them over `Prices` and scaled
sizes: `scale_price` and `scale_size` (`protocol.py:52-57`) keep thousandths and hundredths and cut off
the rest. Here they are two functions of which only this is known: `ScaleSize[0]` is 0. So ticks may
merge in one price, and a size may become 0. The model does what the code then does: of the levels of a
BOOK that merge, the last one listed counts, and one whose size became 0 is left out (`Scaled`); a change
sets, or removes, the merged level; and the best prices a change reports are the exchange's own, scaled,
even when the level they name is not in the book. `Shows` says accordingly what a book can show of a
market: at each price, the scaled size of one of its ticks; and as best price the highest of its own
levels (after a BOOK) or the one reported (after a change), which need not be the same. Without
merging, the levels are exactly the market's, scaled (`ShowsEveryTick`).

## 3. The runs

Deadlock checking is off in all but `registry`: their clocks, tasks, messages and openings are
bounded, and a shutdown ends.

| Run | Instance | States | What it shows |
|---|---|---|---|
| `registry` | 3 assets, 2 connections, 2 markets, expirations 0 and 1 | 45k | Indexes and queue agree after any sequence of calls |
| `control_plane` | 2 assets, 4 connections, 1 monitor recycle and 1 forced, semaphore 2, clock 0..2 | 604k | Discovery, subscription, recycles that race, also on one connection, failure, expiration, clean-up and return of an asset |
| `liveness` | 1 asset, 4 connections, 2 recycles, semaphore 1, `FairSpec` | 140k | Recycles end, pending assets are served, a stop at any moment completes and closes all |
| `data_plane` | 2 assets with 2 and 1 messages, 2 workers, 2 queries, all queues and batches of 2, pipes of 2 reports and 1 response, `FairSpec` | 511k | Refinement of AssetChannel, accounting of messages, queries; the router drains, workers end without a kill unless a pipe is full |
| `book_sync` | 2 connections, 3 openings, 3 ticks of which 2 merge, 2 sizes of which 1 scales to 0, 3 changes, history of 2 | 3.96M | Convergence, being in step, pacing of the history |
| `connection` | delays 1 and 30 as in the code, `FairSpec` | 1.5k | Refinement of ConnectionView, back-off, recovery, stops that overlap |
| `discovery` | 4 markets, pages of 2, 2 attempts, fair | 106k | What a fetch misses, and that nothing stays missed |
| `application` | 1 client, 3 streams, 2 assets, `FairSpec` | 22k | Streams, start-up, signals and shutdown together |

Why these bounds suffice for the questions asked:

- *Registry*: an index can be wrong for an asset because of its own history and that of one other
  in the queue; a third separates "the next one" from "all others". Two connections suffice for an
  asset to move and for an index to be left behind.
- *Control plane*: two assets let one expire while the other is active, so that a recycle has both
  kinds. A recycle needs an old and a new connection: four let two recycles run at once, on two
  connections or on one. The clock reaches ages 0, due and overdue for every threshold.
- *Data plane*: with capacity 2, both queues fill (queries and sentinels take places too), batches mix
  workers, and a message is dropped from the middle of a batch; a query meets the other's answer and
  one that is left by a timeout. Two workers that leave put two reports, which fit in the pipe; with
  one more that nobody read (`MaxReports`), or two responses, an exit may block.
- *Book*: of three ticks two merge in one price, and the third gives a better or a worse one; a level
  can appear, change and go, with or without the book showing it. Three changes at an interval of one
  overflow a history of two. Three openings are two connections and a reconnection.
- *Connection*: nothing is bounded but the history of failures, and that beyond the one at which the
  delay reaches its maximum.
- *Discovery*: two full pages and the empty one after them; a closing can shift a market over a page
  boundary, an opening can repeat one. At most a page's worth of records is not valid (`MCInit`),
  enough for the blank page that ends a fetch.
- *Application*: handlers of two clients share nothing but the loop of `_cleanup_websockets`, which
  takes them one by one, so one client suffices (two, 1.3 million states, hold the invariants as
  well). Three streams: the one it has, the one a cancellation still holds, and a new one; two assets
  tell the last one asked for from the one before.

Symmetry is used only in runs without liveness properties, on sets whose members no definition
tells apart.

The properties, by run:

- `StatusIndexExact`, `MarketIndexesExact`, `EntryConnectionIndexed`, `QueueSound`, and the action
  property `QueueFifo`.
- `PendingIsQueued` (an asset is PENDING exactly while it is in the queue), `SubscribedIsManaged`
  (a SUBSCRIBED asset's connection is in the pool, open, and carries it), `StatsAccount`,
  `NoLeakedConnection`; the action properties `NoDowntime` (no connection leaves the pool before
  another one, healthy or at least no untried replacement, carries its subscribed assets) and
  `StatusOnlyForward`. A connection that was given pending assets and has yet to become healthy counts
  as another one: nothing in the code waits for it.
- `ShutdownClosesAll`; under fairness `RecycleEnds`, `PendingServed`, `ShutdownTerminates`.
- `RefinesChannel`, `MessagesAccounted`, `QueryFresh`, `OneAnswer`; under fairness `RouterDrains`,
  `WorkersEnd`.
- `Converges`, `InStep`, `HistoryPaced`.
- `RefinesView`, `StopLeavesNothing`, `BackoffCounts`; under fairness `Recovers`, `StopReturns`.
- `NothingSkipped`; under fairness `EventuallyKnown`.
- `OneStream`, `DependenciesUp`, `CleanStop`; under fairness `SignalStops`, `StreamsEnd`,
  `ClientsDropped`.

### Where the code and its documents disagree

Each of these has a run that TLC is expected to refute; `PROJECT.json` quotes the line.

- `duplicate_recycle`: "Skips connections already being recycled" does not hold while recycles wait
  for the semaphore: a connection gets a second one. `control_plane` shows that its assets survive.
  The run uses `FleetSpec`, a part of the behaviours, because three connections are needed.
- `migration_count`: a recycle with a replacement counts no migrated market, because
  `force_subscribe` has moved them all before `reassign_connection` counts.
- `ghosts`: a removed asset stays in the index of a connection it was subscribed on before.
- `failed_start`: the docstring of `start` (`app.py:97`) has the components that were started stopped
  when a later one fails. `start` logs the exception and returns, `stop` then does nothing because
  `_running` is false, and `_cleanup_on_startup_failure` has no caller: they stay up. `CleanStop` is
  about starts that succeed.

Others are stated inside properties that pass, because the exact behaviour is the more useful
statement:

- `NothingSkipped`, `EventuallyKnown`: the docstring of `fetch_active_markets` (`api.py:28`) has all
  markets returned. A full page without a valid market ends the fetch, one unparsable record fails
  every fetch, and each market that closes during a fetch may hide another until the next.
- `ClientsDropped`: if a stream finds the loss of its client first, its exception comes out of
  `close()` in the finally clause of `handle_connection` before the client is popped, and
  `get_client_count` counts it for ever. (`get_subscribed_count` counts streams that have ended as
  well: the slot of one that ended by itself is not cleared.)
- CleanupExpired: the grace period (`controller.py:323`, `types.py:28`) runs from the subscription, not
  from the expiration: a market subscribed for more than an hour is removed at the first clean-up
  after it expires. No run is about this one; the model has the code's clock.
- WebsocketConnection: `last_message_ts` survives a reconnection, so a connection that reconnects
  after a minute is unhealthy until it hears something, while one that has never heard anything is
  healthy; and `parse_messages` is a generator, so that its errors surface where messages are
  consumed.

### Fairness

- *Control plane*: weak fairness of each recycle's steps (the loop runs ready tasks, a semaphore
  wakes its waiters in order, the delay ends, closing a WebSocket has a timeout), of the
  subscription loop (it wakes every half minute), and of a shutdown that has begun (`stop` waits
  thirty seconds, then cancels). Nothing is assumed of the network, the clock, the controller or
  any caller; `RecycleEnds` also holds when no replacement ever becomes healthy.
- *Data plane*: weak fairness of the routing task, of every worker process, and of its exit as long as
  the pipes have room (a feeder thread then gets rid of its part). Nothing is assumed of the
  connections, the queries, `/stats`, the decision to stop, or `KillWorker`: `WorkersEnd` does not
  rest on the kill. Nobody reads the reports while the manager stops, so a worker whose part does not
  fit is terminated ("did not stop gracefully"). A worker reports every thirty seconds, so this takes
  no more than a server whose `/stats` and `/metrics` nobody polls for long enough.
- *Connection*: weak fairness of what the event loop runs and of the calls of `stop`; an attempt ends
  one way or the other. `Recovers` also needs that a server tried again and again accepts in the end
  (strong fairness of `ConnectOk` and `SubscribeOk`). Nothing is assumed of the peer's closing, of
  silence or of who stops the connection.
- *Discovery*: sleeps end and requests are answered; a page requested again and again at one offset is
  answered well some time (strong fairness of `PageOk` for each offset). Nothing is assumed of the
  listing.
- *Application*: weak fairness of `run`, of streams and of handlers that resume, of the server's stop
  (aiohttp cuts off handlers after its timeout); strong fairness of `Leave`, since a peer that is gone
  has sent finitely many messages. Nothing is assumed of clients, signals or failures.

## 4. The proofs

`AssetRegistry_proofs` proves, for any finite set of assets and any connections, markets,
expirations and batch size, that every registry reachable by any calls satisfies `RegistryTypeOK`,
`StatusIndexExact`, `MarketIndexesExact`, `EntryConnectionIndexed` and `QueueSound`
(`TypeCorrect`, `StatusIndexCorrect`, `MarketIndexesCorrect`, `ConnectionIndexCorrect`,
`PendingQueueCorrect`). The assumptions are those of the module: `Assets` finite, `NoConn` and
`NoCondition` outside their sets, `Expirations` natural with 0 among them, `Target` positive.

All follow from one inductive invariant, `RegistryInv`:

- `r \in Registry`, the type;
- `Indexed`: the status, market and connection indexes agree with the entries;
- `Orderly`: places in the queue are distinct and at most as many as there are members;
- `QueuedUnsubscribed`: whoever is queued is PENDING or EXPIRED.

`QueueSound` is not inductive as it stands. That places are exactly 1..n says nothing about two
assets at one place before and after a removal, so `Orderly` states distinctness and the upper
bound, from which `PlacesContiguous` derives the set of places by cardinality, and `DequeueOrderly`
shows that taking any set out leaves the others orderly: those ahead of an asset are counted by
`PlacesBetween`. Each method then has a lemma (`AddAssetInv`, `MarkSubscribedInv`, ...) that it
keeps `RegistryInv`, with a step per part of the invariant, and `RegistryInvariant` combines them.
`PendingQueueFifo` proves the action property `QueueFifo` of each method: whoever stays keeps the order,
whoever joins goes to the end, and who leaves by a batch was before who stays.

`ControlPlane_proofs` proves every property of the control plane that is not liveness, for any assets,
connections and clock, and for any finite number of recycles, of the monitor or forced. `Spec` lets
forced recycles survive a stop; `NoConnectionLeaks` is about `RunningSpec`, as in the run. The
invariants build on each other:

- `Core`: the types, `RegistryInv` (what a step of the composition does to the registry is a call of
  one or several of its methods), and that a task that has begun works on a connection. `ControlPlaneTypes`,
  `PendingIsQueuedAlways` and `StatusesOnlyMoveForward` follow.
- `Balanced`: the counters against the tasks that hold the semaphore (`RecyclesAccountedFor`).
- `Recycling`: the replacement of a recycle that waits for it is its own and carries what the task has
  taken (`TasksOK`), and no subscribed asset points at a connection being recycled (`Drained`): that is
  why a second recycle of a connection finds it empty instead of moving its assets twice.
- `Managed`: `SubscribedIsManaged` needs all of that. `Served` is behind `ZeroDowntime`: for each
  subscribed asset there is a set of connections of the pool, closed under replacement by the recycles
  under way, that all have the asset in their index; one of them carries it and is no replacement
  that nobody has seen working (`OnTrial`).
- `NoLeak`, `Ordered` (who stops before whom) and `AllClosed`, behind `NoConnectionLeaks` and
  `ShutdownComplete`. The latter says exactly when `ShutdownClosesAll` holds under `Spec`: as long as
  nobody has called `force_recycle`; `ShutdownCompleteWithoutCallers` is the property as `liveness`
  checks it.

`AssetChannel_proofs` proves, for any assets, `ChannelKeepsOrder` (all messages under way to a book are
newer than the last one it has seen) and from it `ChannelNeverGoesBack`.

`DataPlane_proofs` proves, for any assets, workers, queries and sizes of the queues:

- `DataPlaneTypes`, `ImplementsChannel` and, with the theorem on the channel, `BooksNeverGoBack`. The
  invariant `Flow` says that each queue holds an asset's messages in ascending order, those in the
  worker's queue before those in the batch before those in the async queue (`InOrder`), and that a
  worker's queue holds nothing for another worker (`AtItsWorker`). That the choices the model makes
  (`NextToRoute`, `LastPut`) exist is shown by well-foundedness: a set of numbers has a least one.
- `AnswersAreFresh` and `OneAnswerEach`, from `Queried`: a query that waits has one request in one
  queue (`Asked`) or one response (`Responded`); messages that were before it in its queue are before
  its request still, or seen (`Floored`).
- `MessagesAlwaysAccounted`, from `Counted`. Sums over assets are cardinalities of disjoint unions
  (`Units`, `Spread`), since a fold over an unknown set of assets cannot be reasoned about.

`BookSync_proofs` proves, for any ticks and sizes, any conversion of them (merging ticks, and sizes that
become 0, included), any connections and any interval:

- `HistoryAlwaysPaced`, for which the history need only be known to be paced itself (`Kept`).
- `AlwaysInStep`, from `Synced`: what the one connection brings next follows from the market the book
  shows. `ChangeReflects` is the step: a change sets the level of the price it names to the size of the
  tick that changed, and no other tick of any other price has changed.
- `BooksConverge`. `Streams` says of each open connection that its messages follow from one another,
  that the last shows the market of today, and that a tick whose size differs from today's in one of
  them has its price set by a later one. `Converging` says of the book that each of its levels reflects
  today's market (`Reflects`: it is the scaled size of one of the ticks of its price) or will be set by a
  message some connection has yet to deliver (`Levelled`), and that the best prices it gives are right
  once nothing is on its way (`Repriced`); as long as there is no book, every open connection still has
  its BOOK to deliver (`Unopened`).
- `ShowsEveryTick`: what both say when no two ticks merge.

`WebsocketConnection_proofs` proves, for any delays (the initial one positive and at most the maximum)
and any bound on the failures counted at which the delay is at its maximum,
`ConnectionTypeCorrect`, `StopCorrect` (`StopLeavesNothing`) and `ConnectionImplementsView`: every
step of a connection is a step of ConnectionView or leaves the view as it is. The invariant
`ConnectionInv` adds to the type `StopCancels`, that the event, the status CLOSED and a cancellation
that is pending or has taken effect go together (without it nothing says that the task does not set
CONNECTED after the stop), and `StopWaits`, that what a `stop` has waited for stays so.
`BackoffCorrect` (`BackoffCounts`) needs `Backing`, which says for each place of the task which failure
its delay belongs to, and `NextDue`, that doubling and cutting off at each step is the same as
doubling n times and cutting off once. `Doubled` is a recursive function; that it exists, and its two
equations, are derived from its initial segments (`SegmentExists`, `SegmentsAgree`).

`Application_proofs` proves, for any clients, streams and assets, `OneStreamCorrect`,
`DependenciesCorrect`, `CleanStopCorrect` and `ApplicationTypeCorrect`. The invariant has two halves.
`HttpInv`, about streams: a stream that can still send is in its client's slot (`StreamOwned`) and the
slot's stream is the client's, of the asset it asked for (`SlotOwned`); for these one must know that
nobody fills the slot of a handler that awaits (`AwaitedSlot`), that a stream raises only when its
client is gone (`RaisedLost`), and that a client without a handler has no stream (`HandlerGone`).
`AppInv`, about `run`: what is up at each step of the start (`StartingInv`) and of the stop
(`StoppingInv`), and that sockets are open only while the server is (`HttpUp`).

`Discovery_proofs` proves `NothingSkippedCorrect`, for any number of markets and any page size. The
invariant counts: `Missed`, the markets listed all the while that lie on pages already read and were
not found, are at most as many as the closings since the fetch began. A closing moves each market
behind it up by one place (`RankAfterClosing`), and since no two markets have one rank
(`RanksDistinct`) one market at most crosses into the pages already read; an opening moves them away
(`RankGrows`). At the end every market lies on the pages read, because a page before a market that is
listed beyond it is full (`PageFull`), which needs that ranks have no gaps (`RanksContiguous`).

Every invariant, action property and refinement of the passing runs is proved. Only model-checked are
the liveness properties (`RecycleEnds`, `PendingServed`, `ShutdownTerminates`, `RouterDrains`,
`WorkersEnd`, `Recovers`, `StopReturns`, `EventuallyKnown`, `SignalStops`, `StreamsEnd`,
`ClientsDropped`), because TLAPS does not handle fairness and ENABLED here.

What the proofs changed in the model:

- `NoDowntime` was false for four recycles or more, which no run has: it took for untried the
  replacement of every recycle not over, also of one that had found it healthy and was removing the
  old connection; that replacement may be unhealthy again when the next recycle needs it, but it was
  in service. The attempt to prove `Served` showed it. `OnTrial` are now the replacements that no
  recycle has seen healthy, and those of the recycles that gave up or were cancelled are among them:
  for that, a task that ends so keeps the name of the replacement it leaves behind (`Ended`).
- In BookSync a BOOK message made up for a loss only if no other connection had messages on their way.
  The proof of `BooksConverge` never used that: any BOOK does, and `Converges` now says so, which is
  the stronger statement.
- AssetChannel, `Queued`, `UnderWay`, `Requests` and `Responses` are sets of message numbers, where
  they were sequences or folds over them; the delays of a connection are `Doubled` instead of a power
  of two, of which the provers know nothing. TLC checks the same instances as before.

## 5. What is not modelled

- *WebSocket connection*: a second `start` of one object (nobody calls it), message contents.
- *HTTP server*: the GET handlers, which only read; the interval and the format of what a stream
  sends. `SIGINT` during `_stop` changes nothing and is left out.
- *Workers*: what the reports say (`get_stats` drains the queue, so `/stats` and `/metrics` take reports
  from each other, although its docstring promises the latest of each worker); the pipes under the
  input queues, and with them the exit of the parent when its feeder thread still has items for a
  worker that is gone; crashes.
- *Parser*: decoding, and how `int(float(price) * 1000)` rounds: any two functions are allowed.
- *Metrics, configuration, logging, exceptions*: formatting and set-up. *Exercises*: not part of the
  program.
- *Forced recycles* are called by nobody but an operator; with `Spec`, which lets them survive a stop,
  `NoLeakedConnection` fails. `control_plane` has a forced recycle but no shutdown (`RunningSpec`),
  `liveness` a shutdown but no forced recycle; the hazard list has the combination.
- A loss that no BOOK makes up for leaves a book wrong; `Converges` says when it is right. Such a
  loss also happens when a recycle closes an old connection that lags behind its replacement. That
  is listed as a hazard.

## 6. What is left

1. Proofs: that the connections of ConnectionPool behave as ConnectionView for every step of
   ControlPlane, which would join `ConnectionImplementsView` to the control plane by a theorem instead
   of by the text of `Network`; the cached best prices of OrderBook on their own.
2. The pipes under the input queues and the exit of the parent.
3. A property for the recycle that closes a lagging connection, if the code comes to bound the lag.

--------------------------- MODULE MessageRouter ---------------------------
(***************************************************************************)
(* The message router (src/router.py): from the connections' callback to   *)
(* the input queues of the worker processes.                               *)
(*                                                                         *)
(* The routing task suspends only where it waits for a message: from the   *)
(* first put of a batch to the last, nothing else runs on the event loop,  *)
(* while the workers, other processes, take messages from their queues.    *)
(***************************************************************************)
EXTENDS Naturals, SequencesExt, FiniteSetsExt

CONSTANTS
    Assets,
    Workers,            \* worker indexes
    WorkerOf,           \* asset -> worker: get_worker_for_asset
    Queries,            \* ids of order-book queries
    AsyncQueueSize,     \* ASYNC_QUEUE_SIZE (20000)
    WorkerQueueSize,    \* WORKER_QUEUE_SIZE (5000)
    BatchSize,          \* BATCH_SIZE (100)
    MaxMessages         \* asset -> bound on its messages, for TLC

ASSUME WorkersAssumption == Workers # {} /\ Workers \subseteq Nat
ASSUME WorkerOfAssumption == WorkerOf \in [Assets -> Workers]
ASSUME SizesAssumption == {AsyncQueueSize, WorkerQueueSize, BatchSize} \subseteq Nat \ {0}

VARIABLES
    arrived,        \* asset -> number of messages handed to route_message
    asyncQueue,     \* _async_queue
    batch,          \* the routing loop's batch, less what it has put already
    routing,        \* where the routing task is
    routerStats,    \* messages_routed and messages_dropped
    inputQueue      \* worker -> its multiprocessing queue

routerVars == <<arrived, asyncQueue, batch, routing, routerStats, inputQueue>>

(* What travels in a worker's queue: the n-th message of an asset, the     *)
(* request of query n for an asset, or None.                               *)
Message == [kind : {"message"}, asset : Assets, n : Nat]
Request == [kind : {"request"}, asset : Assets, n : Queries]
Sentinel == [kind |-> "sentinel"]
Item == Message \cup Request \cup {Sentinel}

IsMessageOf(m, a) == m.kind = "message" /\ m.asset = a

(* The numbers of the messages of an asset in a queue.                     *)
Numbers(s, a) == {s[i].n : i \in {j \in 1..Len(s) : IsMessageOf(s[j], a)}}

RouterTypeOK ==
    /\ arrived \in [Assets -> Nat]
    /\ asyncQueue \in Seq(Message) /\ Len(asyncQueue) <= AsyncQueueSize
    /\ batch \in Seq(Message)
    /\ routing \in {"collecting", "routing", "draining", "stopped"}
    /\ routerStats \in [routed : Nat, dropped : Nat]
    /\ inputQueue \in [Workers -> Seq(Item)]
    /\ \A w \in Workers : Len(inputQueue[w]) <= WorkerQueueSize

RouterInit ==
    /\ arrived = [a \in Assets |-> 0]
    /\ asyncQueue = <<>>
    /\ batch = <<>>
    /\ routing = "collecting"
    /\ routerStats = [routed |-> 0, dropped |-> 0]
    /\ inputQueue = [w \in Workers |-> <<>>]

-----------------------------------------------------------------------------
(* Others run on the event loop only while the routing task waits.  Once   *)
(* the router stops, no one else is left: the application has stopped the  *)
(* HTTP server and the connection pool before it.                          *)
LoopFree == routing = "collecting"

HasRoom(w) == Len(inputQueue[w]) < WorkerQueueSize

FaultyWithSentinels == [w \in Workers |-> Append(inputQueue[w], Sentinel)]

(* None, for every worker whose queue has room.                            *)
WithSentinels ==
    [w \in Workers |->
        IF HasRoom(w) THEN Append(inputQueue[w], Sentinel) ELSE inputQueue[w]]

(* route_message: queued, ...                                              *)
RouteMessage(a) ==
    /\ LoopFree
    /\ arrived[a] < MaxMessages[a]
    /\ Len(asyncQueue) < AsyncQueueSize
    /\ arrived' = [arrived EXCEPT ![a] = @ + 1]
    /\ asyncQueue' = Append(asyncQueue, [kind |-> "message", asset |-> a, n |-> arrived[a] + 1])
    /\ UNCHANGED <<batch, routing, routerStats, inputQueue>>

(* ... or dropped, with the queue full.                                    *)
RefuseMessage(a) ==
    /\ LoopFree
    /\ arrived[a] < MaxMessages[a]
    /\ Len(asyncQueue) = AsyncQueueSize
    /\ arrived' = [arrived EXCEPT ![a] = @ + 1]
    /\ routerStats' = [routerStats EXCEPT !.dropped = @ + 1]
    /\ UNCHANGED <<asyncQueue, batch, routing, inputQueue>>

(* The routing loop gets a message.                                        *)
TakeItem ==
    /\ routing = "collecting"
    /\ asyncQueue # <<>>
    /\ Len(batch) < BatchSize
    /\ batch' = Append(batch, Head(asyncQueue))
    /\ asyncQueue' = Tail(asyncQueue)
    /\ UNCHANGED <<arrived, routing, routerStats, inputQueue>>

FaultyBeginBatch ==
    /\ routing = "collecting"
    /\ Len(batch) = BatchSize
    /\ routing' = "routing"
    /\ UNCHANGED <<arrived, asyncQueue, batch, routerStats, inputQueue>>

(* The batch is full, or its 10 ms are over.                               *)
BeginBatch ==
    /\ routing = "collecting"
    /\ batch # <<>>
    /\ routing' = "routing"
    /\ UNCHANGED <<arrived, asyncQueue, batch, routerStats, inputQueue>>

(* _route_batch groups by worker: the next message is the first one for    *)
(* the lowest worker that still has some.                                  *)
NextToRoute ==
    LET worker == [i \in 1..Len(batch) |-> WorkerOf[batch[i].asset]]
    IN  CHOOSE i \in 1..Len(batch) :
            \A j \in 1..Len(batch) :
                worker[i] < worker[j] \/ (worker[i] = worker[j] /\ i <= j)

(* queue.put: there is room, ...                                           *)
RoutePut ==
    /\ routing \in {"routing", "draining"}
    /\ batch # <<>>
    /\ LET m == batch[NextToRoute]
           w == WorkerOf[m.asset]
       IN  /\ HasRoom(w)
           /\ inputQueue' = [inputQueue EXCEPT ![w] = Append(@, m)]
    /\ batch' = RemoveAt(batch, NextToRoute)
    /\ routerStats' = [routerStats EXCEPT !.routed = @ + 1]
    /\ UNCHANGED <<arrived, asyncQueue, routing>>

FaultyRouteDropRequeue ==
    /\ routing \in {"routing", "draining"}
    /\ batch # <<>>
    /\ ~HasRoom(WorkerOf[batch[NextToRoute].asset])
    /\ Len(asyncQueue) < AsyncQueueSize
    /\ asyncQueue' = Append(asyncQueue, batch[NextToRoute])
    /\ batch' = RemoveAt(batch, NextToRoute)
    /\ UNCHANGED <<arrived, routing, inputQueue, routerStats>>

FaultyRouteDropUncounted ==
    /\ routing \in {"routing", "draining"}
    /\ batch # <<>>
    /\ ~HasRoom(WorkerOf[batch[NextToRoute].asset])
    /\ batch' = RemoveAt(batch, NextToRoute)
    /\ UNCHANGED <<arrived, asyncQueue, routing, inputQueue, routerStats>>

(* ... or there is none for a millisecond, and the message is dropped.     *)
RouteDrop ==
    /\ routing \in {"routing", "draining"}
    /\ batch # <<>>
    /\ ~HasRoom(WorkerOf[batch[NextToRoute].asset])
    /\ batch' = RemoveAt(batch, NextToRoute)
    /\ routerStats' = [routerStats EXCEPT !.dropped = @ + 1]
    /\ UNCHANGED <<arrived, asyncQueue, routing, inputQueue>>

EndBatch ==
    /\ routing = "routing"
    /\ batch = <<>>
    /\ routing' = "collecting"
    /\ UNCHANGED <<arrived, asyncQueue, batch, routerStats, inputQueue>>

(* stop(): the cancelled loop takes what is left and routes it, ...        *)
RouterStopBegin ==
    /\ routing = "collecting"
    /\ routing' = "draining"
    /\ batch' = batch \o asyncQueue
    /\ asyncQueue' = <<>>
    /\ UNCHANGED <<arrived, routerStats, inputQueue>>

(* ... and then every worker is sent None.                                 *)
RouterStopEnd ==
    /\ routing = "draining"
    /\ batch = <<>>
    /\ routing' = "stopped"
    /\ inputQueue' = WithSentinels
    /\ UNCHANGED <<arrived, asyncQueue, batch, routerStats>>

=============================================================================

------------------------------- MODULE Worker -------------------------------
(***************************************************************************)
(* The worker processes (src/worker/worker.py) and their manager           *)
(* (src/worker/manager.py): a worker handles what its queue holds, one by  *)
(* one; the manager stops the workers and asks them for order books.       *)
(*                                                                         *)
(* Of a book, this module keeps the number of the last message it has seen;*)
(* what a message does to the book is the subject of OrderBook.            *)
(***************************************************************************)
EXTENDS MessageRouter

CONSTANTS
    StatsPipeSize,      \* reports the pipe under _stats_queue holds
    ResponsePipeSize,   \* responses the pipe under _response_queue holds
    MaxReports          \* bound on the reports a running worker adds to, for TLC

ASSUME PipesAssumption == {StatsPipeSize, ResponsePipeSize, MaxReports} \subseteq Nat

VARIABLES
    workerState,    \* worker -> "running", "exiting" (out of its loop), "stopped"
    reports,        \* number of reports put in _stats_queue and not yet read
    processed,      \* worker -> messages_processed
    seen,           \* asset -> the last message its book has seen
    shutdownEvent,  \* _shutdown_event
    managerState,   \* "running", "stopping" (stop joins the processes), "stopped"
    responseQueue,  \* _response_queue, shared by all the workers and queries
    query           \* query -> its state

workerVars == <<workerState, reports, processed, seen, shutdownEvent, managerState,
                responseQueue, query>>

Response == [query : Queries, seen : Nat]

(* A query: the last message that had been put in the worker's queue when  *)
(* it was sent, and, once there is one, the answer.                        *)
QueryState ==
    [pc : {"idle", "refused", "timeout"}]
        \cup [pc : {"waiting"}, floor : Nat]
        \cup [pc : {"answered"}, floor : Nat, answer : Nat]

WorkerTypeOK ==
    /\ workerState \in [Workers -> {"running", "exiting", "stopped"}]
    /\ reports \in Nat
    /\ processed \in [Workers -> Nat]
    /\ seen \in [Assets -> Nat]
    /\ shutdownEvent \in BOOLEAN
    /\ managerState \in {"running", "stopping", "stopped"}
    /\ responseQueue \in Seq(Response)
    /\ query \in [Queries -> QueryState]

WorkerInit ==
    /\ workerState = [w \in Workers |-> "running"]
    /\ reports = 0
    /\ processed = [w \in Workers |-> 0]
    /\ seen = [a \in Assets |-> 0]
    /\ shutdownEvent = FALSE
    /\ managerState = "running"
    /\ responseQueue = <<>>
    /\ query = [q \in Queries |-> [pc |-> "idle"]]

-----------------------------------------------------------------------------
(* The worker's loop.                                                      *)

(* Out of the loop, it puts its last report; its process ends when what it *)
(* has put has left for the pipes.                                         *)
Leaves(w, periodic) ==
    /\ workerState' = [workerState EXCEPT ![w] = "exiting"]
    /\ reports' = reports + periodic + 1

(* The end of a round, of an item or of a timeout: a report if 30 s are    *)
(* over, and a look at the event.                                          *)
NextRound(w) ==
    \E periodic \in {0, 1} :
        /\ periodic = 1 => reports < MaxReports
        /\ \/ shutdownEvent /\ Leaves(w, periodic)
           \/ ~shutdownEvent /\ workerState' = workerState /\ reports' = reports + periodic

Dequeued(w, kind) ==
    /\ workerState[w] = "running"
    /\ inputQueue[w] # <<>>
    /\ Head(inputQueue[w]).kind = kind
    /\ inputQueue' = [inputQueue EXCEPT ![w] = Tail(@)]
    /\ UNCHANGED <<arrived, asyncQueue, batch, routing, routerStats,
                   shutdownEvent, managerState, query>>

ProcessMessage(w) ==
    LET m == Head(inputQueue[w])
    IN  /\ Dequeued(w, "message")
        /\ seen' = [seen EXCEPT ![m.asset] = m.n]
        /\ processed' = [processed EXCEPT ![w] = @ + 1]
        /\ NextRound(w)
        /\ UNCHANGED responseQueue

(* _handle_orderbook_request: the queue of responses has no bound.         *)
HandleOrderbookRequest(w) ==
    LET r == Head(inputQueue[w])
    IN  /\ Dequeued(w, "request")
        /\ responseQueue' = Append(responseQueue, [query |-> r.n, seen |-> seen[r.asset]])
        /\ NextRound(w)
        /\ UNCHANGED <<seen, processed>>

(* None: the worker leaves its loop.                                       *)
ReceiveSentinel(w) ==
    /\ Dequeued(w, "sentinel")
    /\ Leaves(w, 0)
    /\ UNCHANGED <<seen, processed, responseQueue>>

(* The get timed out.  What has been put may still be with the feeder      *)
(* thread of the queue, out of the worker's reach.                         *)
WorkerIdle(w) ==
    /\ workerState[w] = "running"
    /\ NextRound(w)
    /\ UNCHANGED <<routerVars, processed, seen, shutdownEvent, managerState, responseQueue, query>>

(* The exit waits for the feeder threads of the process, which wait for    *)
(* room in the pipes: all of them find it if what nobody has read fits.    *)
PipesHaveRoom == reports <= StatsPipeSize /\ Len(responseQueue) <= ResponsePipeSize

(* If it does not, this worker's part may still be in the pipe.            *)
ExitProcess(w) ==
    /\ workerState[w] = "exiting"
    /\ workerState' = [workerState EXCEPT ![w] = "stopped"]
    /\ UNCHANGED <<routerVars, reports, processed, seen, shutdownEvent, managerState,
                   responseQueue, query>>

-----------------------------------------------------------------------------
(* The manager.                                                            *)

FaultyManagerStopBegin ==
    /\ managerState = "running"
    /\ managerState' = "stopping"
    /\ inputQueue' = WithSentinels
    /\ UNCHANGED <<arrived, asyncQueue, batch, routing, routerStats,
                   workerState, reports, processed, seen, shutdownEvent, responseQueue, query>>

(* stop(): the event, and another None for whoever has room for it; ...    *)
ManagerStopBegin ==
    /\ managerState = "running"
    /\ managerState' = "stopping"
    /\ shutdownEvent' = TRUE
    /\ inputQueue' = WithSentinels
    /\ UNCHANGED <<arrived, asyncQueue, batch, routing, routerStats,
                   workerState, reports, processed, seen, responseQueue, query>>

(* ... a worker that is still alive after the timeout is killed; ...       *)
KillWorker(w) ==
    /\ managerState = "stopping"
    /\ workerState[w] # "stopped"
    /\ workerState' = [workerState EXCEPT ![w] = "stopped"]
    /\ UNCHANGED <<routerVars, reports, processed, seen, shutdownEvent, managerState, responseQueue, query>>

(* ... and stop() returns when all are gone.                               *)
ManagerStopEnd ==
    /\ managerState = "stopping"
    /\ \A w \in Workers : workerState[w] = "stopped"
    /\ managerState' = "stopped"
    /\ UNCHANGED <<routerVars, workerState, reports, processed, seen, shutdownEvent, responseQueue, query>>

-----------------------------------------------------------------------------
(* get_stats and query_orderbook.                                          *)

(* /stats and /metrics alone read the reports.                             *)
GetStats ==
    /\ LoopFree
    /\ reports' = 0
    /\ UNCHANGED <<routerVars, workerState, processed, seen, shutdownEvent, managerState,
                   responseQueue, query>>

(* The last message of an asset that has been put in its worker's queue.   *)
LastPut(a) == Max({seen[a]} \cup Numbers(inputQueue[WorkerOf[a]], a))

(* The request is put in the worker's queue, ...                           *)
QuerySend(q, a) ==
    /\ LoopFree
    /\ query[q].pc = "idle"
    /\ HasRoom(WorkerOf[a])
    /\ inputQueue' = [inputQueue EXCEPT ![WorkerOf[a]] =
                         Append(@, [kind |-> "request", asset |-> a, n |-> q])]
    /\ query' = [query EXCEPT ![q] = [pc |-> "waiting", floor |-> LastPut(a)]]
    /\ UNCHANGED <<arrived, asyncQueue, batch, routing, routerStats,
                   workerState, reports, processed, seen, shutdownEvent, managerState, responseQueue>>

(* ... unless there is no room for it.                                     *)
QueryRefused(q, a) ==
    /\ LoopFree
    /\ query[q].pc = "idle"
    /\ ~HasRoom(WorkerOf[a])
    /\ query' = [query EXCEPT ![q] = [pc |-> "refused"]]
    /\ UNCHANGED <<routerVars, workerState, reports, processed, seen, shutdownEvent, managerState,
                   responseQueue>>

FaultyQueryPollDiscards(q) ==
    /\ LoopFree
    /\ query[q].pc = "waiting"
    /\ responseQueue # <<>>
    /\ LET r == Head(responseQueue)
       IN  /\ responseQueue' = Tail(responseQueue)
           /\ query' = IF r.query = q
                       THEN [query EXCEPT ![q] = [pc |-> "answered", floor |-> @.floor, answer |-> r.seen]]
                       ELSE query
    /\ UNCHANGED <<routerVars, workerState, reports, processed, seen, shutdownEvent, managerState>>

FaultyQueryPollTakesAny(q) ==
    /\ LoopFree
    /\ query[q].pc = "waiting"
    /\ responseQueue # <<>>
    /\ responseQueue' = Tail(responseQueue)
    /\ query' = [query EXCEPT ![q] =
                    [pc |-> "answered", floor |-> @.floor, answer |-> Head(responseQueue).seen]]
    /\ UNCHANGED <<routerVars, workerState, reports, processed, seen, shutdownEvent, managerState>>

(* Every 10 ms, the first response is taken, and put back if it answers    *)
(* another query.                                                          *)
QueryPoll(q) ==
    /\ LoopFree
    /\ query[q].pc = "waiting"
    /\ responseQueue # <<>>
    /\ LET r == Head(responseQueue)
       IN  IF r.query = q
           THEN /\ responseQueue' = Tail(responseQueue)
                /\ query' = [query EXCEPT ![q] =
                                [pc |-> "answered", floor |-> @.floor, answer |-> r.seen]]
           ELSE /\ responseQueue' = Append(Tail(responseQueue), r)
                /\ query' = query
    /\ UNCHANGED <<routerVars, workerState, reports, processed, seen, shutdownEvent, managerState>>

(* No answer before the deadline; one may still come.                      *)
QueryTimeout(q) ==
    /\ LoopFree
    /\ query[q].pc = "waiting"
    /\ query' = [query EXCEPT ![q] = [pc |-> "timeout"]]
    /\ UNCHANGED <<routerVars, workerState, reports, processed, seen, shutdownEvent, managerState,
                   responseQueue>>

=============================================================================

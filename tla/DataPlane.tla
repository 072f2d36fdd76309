----------------------------- MODULE DataPlane -----------------------------
(***************************************************************************)
(* The data plane: messages go from the connections' callback through the  *)
(* router and the workers' queues to the order books, queries come back    *)
(* the other way, and PolyPy._stop ends it (src/app.py): the router first, *)
(* then the manager.                                                       *)
(***************************************************************************)
EXTENDS Worker

vars == <<routerVars, workerVars>>

Init == RouterInit /\ WorkerInit

(* _stop: first router.stop(), ...                                         *)
StopRouter ==
    /\ RouterStopBegin \/ RouterStopEnd
    /\ UNCHANGED workerVars

(* ... then workers.stop(), which blocks the event loop.                   *)
StopManager ==
    /\ routing = "stopped"
    /\ ManagerStopBegin \/ ManagerStopEnd \/ \E w \in Workers : KillWorker(w)

Arrive(a) == (RouteMessage(a) \/ RefuseMessage(a)) /\ UNCHANGED workerVars

Route ==
    /\ TakeItem \/ BeginBatch \/ RoutePut \/ RouteDrop \/ EndBatch
    /\ UNCHANGED workerVars

Work(w) == ProcessMessage(w) \/ HandleOrderbookRequest(w) \/ ReceiveSentinel(w) \/ WorkerIdle(w)

QueryStep(q) ==
    \/ \E a \in Assets : QuerySend(q, a) \/ QueryRefused(q, a)
    \/ QueryPoll(q)
    \/ QueryTimeout(q)

Next ==
    \/ \E a \in Assets : Arrive(a)
    \/ Route
    \/ \E w \in Workers : Work(w) \/ ExitProcess(w)
    \/ GetStats
    \/ \E q \in Queries : QueryStep(q)
    \/ StopRouter
    \/ StopManager

Spec == Init /\ [][Next]_vars

(* The routing task and the worker processes are scheduled: a message in a *)
(* queue is taken, a batch is sent, a timeout passes, feeder threads that  *)
(* have room end.  Nothing is assumed of the connections, of the queries,  *)
(* of who asks for statistics or stops the application, or of the manager's*)
(* patience: KillWorker need not come.                                     *)
FairSpec ==
    /\ Spec
    /\ WF_vars(Route)
    /\ WF_vars(RouterStopEnd /\ UNCHANGED workerVars)
    /\ \A w \in Workers :
        /\ WF_vars(Work(w))
        /\ WF_vars(PipesHaveRoom /\ ExitProcess(w))

-----------------------------------------------------------------------------
DataPlaneTypeOK == RouterTypeOK /\ WorkerTypeOK

(* The sum of a function to Nat.                                           *)
Sum(f) == Cardinality(UNION {{x} \X (1..f[x]) : x \in DOMAIN f})

(* The messages in the queues of the workers.                              *)
Queued == UNION {{a} \X Numbers(inputQueue[WorkerOf[a]], a) : a \in Assets}

(* Every message that arrived has been put in a worker's queue or counted  *)
(* as dropped, or is still with the router, which has none left once it    *)
(* has stopped; and every one put in a queue has been processed or is      *)
(* still there.  No message vanishes uncounted, and none is counted twice. *)
MessagesAccounted ==
    /\ Sum(arrived) = routerStats.routed + routerStats.dropped + Len(asyncQueue) + Len(batch)
    /\ routing = "stopped" => asyncQueue = <<>> /\ batch = <<>>
    /\ routerStats.routed = Sum(processed) + Cardinality(Queued)

(* The numbers of the messages of an asset under way.                      *)
UnderWay(a) ==
    Numbers(inputQueue[WorkerOf[a]], a) \cup Numbers(batch, a) \cup Numbers(asyncQueue, a)

Channel == INSTANCE AssetChannel WITH transit <- [a \in Assets |-> UnderWay(a)]

(* For each asset, batching, grouping by worker and dropping amount to a   *)
(* channel that may lose messages, but whose order book sees those that    *)
(* are left in the order of their arrival and never twice.                 *)
RefinesChannel == Channel!ChannelSpec

(* A query is answered with a book that has seen every message that was in *)
(* its worker's queue when it was sent: no answer is older than the query, *)
(* as that of another query, sent earlier or about another asset, could be.*)
QueryFresh ==
    \A q \in Queries : query[q].pc = "answered" => query[q].answer >= query[q].floor

(* Where the requests and the responses of a query are.                    *)
Requests(q) ==
    {at \in Workers \X (1..WorkerQueueSize) :
        /\ at[2] <= Len(inputQueue[at[1]])
        /\ inputQueue[at[1]][at[2]].kind = "request"
        /\ inputQueue[at[1]][at[2]].n = q}

Responses(q) == {i \in 1..Len(responseQueue) : responseQueue[i].query = q}

(* While a query waits, there is its request in one place, or its response *)
(* in one place, and not both: concurrent queries that share the queue of  *)
(* responses neither lose nor duplicate each other's answers.              *)
OneAnswer ==
    \A q \in Queries : query[q].pc = "waiting" =>
        Cardinality(Requests(q)) + Cardinality(Responses(q)) = 1

(* The router never stops moving: what has arrived leaves its queue.       *)
RouterDrains == (asyncQueue # <<>> \/ batch # <<>>) ~> (asyncQueue = <<>> /\ batch = <<>>)

(* Once the manager stops, every worker leaves its loop, full queues that  *)
(* had no room for a sentinel included, and its process ends without being *)
(* killed, unless reports or responses that nobody read fill a pipe: then  *)
(* the exit may wait for a feeder thread that never gets rid of its part.  *)
WorkersEnd ==
    managerState = "stopping" ~>
        \A w \in Workers :
            \/ workerState[w] = "stopped"
            \/ workerState[w] = "exiting" /\ ~PipesHaveRoom

=============================================================================

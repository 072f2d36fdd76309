------------------------ MODULE WebsocketConnection ------------------------
(***************************************************************************)
(* One WebSocket connection (src/connection/websocket.py): the receive task*)
(* that connects, subscribes, receives and reconnects with exponential     *)
(* backoff, and the stop() calls that end it.                              *)
(*                                                                         *)
(* A step of the receive task runs from one await to the next.  The pool   *)
(* constructs a connection and starts it in one step, once, so Init is a   *)
(* started connection whose task has not run yet.  Two calls of stop() can *)
(* overlap: pool.stop stops a connection that a recycle which survived the *)
(* recycler's stop (force_recycle) then removes.  There is no clock: the   *)
(* backoff timer may fire whenever it is set, and heard says what          *)
(* last_message_ts tells is_healthy.  The socket is the websockets         *)
(* library's, its ends external.                                           *)
(***************************************************************************)
EXTENDS Naturals, FiniteSetsExt

CONSTANTS
    InitialDelay,   \* INITIAL_RECONNECT_DELAY (1 s)
    MaxDelay,       \* MAX_RECONNECT_DELAY (30 s)
    FailuresCap     \* bound: failures are counted up to here

ASSUME DelayAssumption == InitialDelay \in Nat \ {0} /\ MaxDelay \in Nat /\ InitialDelay <= MaxDelay

(* The first delay, doubled n times.                                       *)
Doubled[n \in Nat] == IF n = 0 THEN InitialDelay ELSE 2 * Doubled[n - 1]

(* Failures are counted up to the one that brings the delay to its maximum.*)
ASSUME FailuresCapAssumption == FailuresCap \in Nat \ {0} /\ Doubled[FailuresCap - 1] >= MaxDelay

VARIABLES
    status,     \* _status
    stopEvent,  \* _stop_event.is_set()
    task,       \* where the receive task is suspended
    cancelled,  \* a CancelledError waits for the task's next step
    socket,     \* the socket _ws refers to
    heard,      \* last_message_ts: "never", "recent", or over a minute ago
    delay,      \* _reconnect_delay
    failures,   \* history: ends of a connection attempt since the last subscription
    stopper     \* call of stop() -> where it is suspended

taskVars == <<task, cancelled>>
vars == <<status, stopEvent, task, cancelled, socket, heard, delay, failures, stopper>>

(* pool.stop, and _remove_connection in a recycle task.                    *)
Stoppers == {"pool", "recycle"}

TypeOK ==
    /\ status \in {"DISCONNECTED", "CONNECTING", "CONNECTED", "DRAINING", "CLOSED"}
    /\ stopEvent \in BOOLEAN
    /\ task \in {"ready", "connecting", "subscribing", "receiving", "closing", "backoff", "done"}
    /\ cancelled \in BOOLEAN
    /\ socket \in {"none", "open", "lost", "closed"}
    /\ heard \in {"never", "recent", "stale"}
    /\ delay \in InitialDelay..MaxDelay
    /\ failures \in 0..FailuresCap
    /\ stopper \in [Stoppers -> {"idle", "awaitTask", "awaitClose", "returned", "abandoned"}]

(* The constructor, then start().                                          *)
Init ==
    /\ status = "CONNECTING"
    /\ stopEvent = FALSE
    /\ task = "ready"
    /\ cancelled = FALSE
    /\ socket = "none"
    /\ heard = "never"
    /\ delay = InitialDelay
    /\ failures = 0
    /\ stopper = [s \in Stoppers |-> "idle"]

IsHealthy == status = "CONNECTED" /\ heard # "stale"

-----------------------------------------------------------------------------
(* The receive task.  One that is cancelled does nothing but take the      *)
(* CancelledError at its next step.                                        *)

At(pc) == task = pc /\ ~cancelled

(* The loop of _connection_loop: _connect_and_run up to the handshake.     *)
BeginConnect ==
    /\ task' = "connecting"
    /\ status' = "CONNECTING"

RunLoop ==
    /\ At("ready") /\ ~stopEvent
    /\ BeginConnect
    /\ UNCHANGED <<stopEvent, cancelled, socket, heard, delay, failures, stopper>>

ConnectOk ==
    /\ At("connecting")
    /\ task' = "subscribing"
    /\ socket' = "open"
    /\ UNCHANGED <<status, stopEvent, cancelled, heard, delay, failures, stopper>>

(* _connect_and_run has returned or raised: wait before the next attempt.  *)
(* Were the connection being stopped the loop would end here, but then the *)
(* task is cancelled.                                                      *)
Retry ==
    /\ ~stopEvent /\ status # "CLOSED"
    /\ status' = "DISCONNECTED"
    /\ task' = "backoff"
    /\ failures' = Min({failures + 1, FailuresCap})
    /\ UNCHANGED <<stopEvent, cancelled, heard, delay, stopper>>

FaultyConnectFail ==
    /\ At("connecting")
    /\ task' = "done"
    /\ UNCHANGED <<status, stopEvent, cancelled, socket, heard, delay, failures, stopper>>

ConnectFail ==
    /\ At("connecting")
    /\ Retry
    /\ UNCHANGED socket

FaultySubscribeOkKeepsDelay ==
    /\ At("subscribing") /\ socket = "open"
    /\ task' = "receiving"
    /\ status' = "CONNECTED"
    /\ failures' = 0
    /\ UNCHANGED <<stopEvent, cancelled, socket, heard, delay, stopper>>

SubscribeOk ==
    /\ At("subscribing") /\ socket = "open"
    /\ task' = "receiving"
    /\ status' = "CONNECTED"
    /\ delay' = InitialDelay
    /\ failures' = 0
    /\ UNCHANGED <<stopEvent, cancelled, socket, heard, stopper>>

(* The send, or the next recv, finds the socket lost; the context manager  *)
(* closes it at once.                                                      *)
NoticeLoss ==
    /\ At("subscribing") \/ At("receiving")
    /\ socket = "lost"
    /\ Retry
    /\ socket' = "closed"

(* A message goes to the callback, which does not suspend.  Some may still *)
(* be buffered when the socket is lost.                                    *)
Receive ==
    /\ At("receiving") /\ socket \in {"open", "lost"}
    /\ heard' = "recent"
    /\ UNCHANGED <<status, stopEvent, task, cancelled, socket, delay, failures, stopper>>

(* The delay is over without a stop: double it and go around the loop.     *)
BackoffOver ==
    /\ At("backoff") /\ ~stopEvent
    /\ delay' = Min({delay * 2, MaxDelay})
    /\ BeginConnect
    /\ UNCHANGED <<stopEvent, cancelled, socket, heard, failures, stopper>>

(* The task takes its CancelledError.  One that holds the socket leaves    *)
(* through the close handshake of the context manager; connect() drops its *)
(* own half-open socket.  A second one, while it is closing, ends it with  *)
(* the socket as it is.                                                    *)
TakeCancellation ==
    /\ cancelled
    /\ cancelled' = FALSE
    /\ IF task \in {"subscribing", "receiving"}
       THEN task' = "closing" /\ status' = status
       ELSE /\ task' = "done"
            /\ status' = IF task \in {"ready", "backoff"} THEN status ELSE "CLOSED"
    /\ UNCHANGED <<stopEvent, socket, heard, delay, failures, stopper>>

CloseDone ==
    /\ At("closing")
    /\ socket' = "closed"
    /\ task' = "done"
    /\ status' = "CLOSED"
    /\ UNCHANGED <<stopEvent, cancelled, heard, delay, failures, stopper>>

-----------------------------------------------------------------------------
(* mark_draining, which _initiate_recycling of the pool calls.             *)

FaultyMarkDraining ==
    /\ status' = "DRAINING"
    /\ UNCHANGED <<stopEvent, task, cancelled, socket, heard, delay, failures, stopper>>

MarkDraining ==
    /\ status = "CONNECTED"
    /\ status' = "DRAINING"
    /\ UNCHANGED <<stopEvent, task, cancelled, socket, heard, delay, failures, stopper>>

-----------------------------------------------------------------------------
(* stop(), as called by s.                                                 *)

(* _remove_connection takes the connection out of the pool before it stops *)
(* it, so the pool does not stop it again.                                 *)
MayStop(s) ==
    /\ stopper[s] = "idle"
    /\ s = "pool" => stopper["recycle"] = "idle"

FaultyStopNoCancel(s) ==
    /\ MayStop(s)
    /\ status' = "CLOSED"
    /\ stopEvent' = TRUE
    /\ stopper' = [stopper EXCEPT ![s] = "awaitTask"]
    /\ UNCHANGED <<task, cancelled, socket, heard, delay, failures>>

Stop(s) ==
    /\ MayStop(s)
    /\ status' = "CLOSED"
    /\ stopEvent' = TRUE
    /\ cancelled' = (task # "done")
    /\ stopper' = [stopper EXCEPT ![s] = "awaitTask"]
    /\ UNCHANGED <<task, socket, heard, delay, failures>>

FaultyStopTaskDone(s) ==
    /\ stopper[s] = "awaitTask" /\ task = "done"
    /\ stopper' = [stopper EXCEPT ![s] = "returned"]
    /\ UNCHANGED <<status, stopEvent, task, cancelled, socket, heard, delay, failures>>

(* The receive task is over: close the socket if it is still there.        *)
StopTaskDone(s) ==
    /\ stopper[s] = "awaitTask" /\ task = "done"
    /\ stopper' = [stopper EXCEPT ![s] = IF socket \in {"open", "lost"} THEN "awaitClose" ELSE "returned"]
    /\ UNCHANGED <<status, stopEvent, task, cancelled, socket, heard, delay, failures>>

StopSocketClosed(s) ==
    /\ stopper[s] = "awaitClose"
    /\ socket' = "closed"
    /\ stopper' = [stopper EXCEPT ![s] = "returned"]
    /\ UNCHANGED <<status, stopEvent, task, cancelled, heard, delay, failures>>

(* recycler.stop cancels the recycle task that is stopping the connection. *)
(* While it awaits the receive task stop() swallows the CancelledError,    *)
(* which cancels the receive task once more; later it ends the call.       *)
StopCancelled ==
    /\ stopper["pool"] = "idle"
    /\ \/ /\ stopper["recycle"] = "awaitTask"
          /\ cancelled' = (task # "done")
          /\ stopper' = stopper
       \/ /\ stopper["recycle"] = "awaitClose"
          /\ cancelled' = cancelled
          /\ stopper' = [stopper EXCEPT !["recycle"] = "abandoned"]
    /\ UNCHANGED <<status, stopEvent, task, socket, heard, delay, failures>>

-----------------------------------------------------------------------------
(* The network and the clock.                                              *)

PeerCloses ==
    /\ socket = "open"
    /\ socket' = "lost"
    /\ UNCHANGED <<status, stopEvent, task, cancelled, heard, delay, failures, stopper>>

GoSilent ==
    /\ heard = "recent"
    /\ heard' = "stale"
    /\ UNCHANGED <<status, stopEvent, task, cancelled, socket, delay, failures, stopper>>

Next ==
    \/ RunLoop \/ ConnectOk \/ ConnectFail \/ SubscribeOk \/ NoticeLoss \/ Receive
    \/ BackoffOver \/ TakeCancellation \/ CloseDone
    \/ MarkDraining
    \/ \E s \in Stoppers : Stop(s) \/ StopTaskDone(s) \/ StopSocketClosed(s)
    \/ StopCancelled
    \/ PeerCloses \/ GoSilent

Spec == Init /\ [][Next]_vars

(* The event loop runs what is ready, a timer fires and a lost socket is   *)
(* noticed (keepalive pings); the server, tried again and again, accepts   *)
(* the connection and the subscription in the end.                         *)
Fairness ==
    /\ WF_vars(RunLoop \/ NoticeLoss \/ BackoffOver \/ TakeCancellation \/ CloseDone)
    /\ WF_vars(ConnectOk \/ ConnectFail)
    /\ SF_vars(ConnectOk) /\ SF_vars(SubscribeOk)
    /\ \A s \in Stoppers : WF_vars(StopTaskDone(s)) /\ WF_vars(StopSocketClosed(s))

FairSpec == Spec /\ Fairness

-----------------------------------------------------------------------------
(* The pool's and the recycler's view of a connection (is_healthy, and that*)
(* it was stopped) is the one module ConnectionPool assumes: in particular *)
(* neither the receive task nor mark_draining brings a stopped connection  *)
(* back, whatever the task was doing when it was stopped.                  *)
View == INSTANCE ConnectionView
    WITH view <- IF status = "CLOSED" THEN "CLOSED" ELSE IF IsHealthy THEN "HEALTHY" ELSE "UNHEALTHY"

RefinesView == View!ViewSpec

(* A call of stop() that returned leaves nothing behind, also when another *)
(* call overlapped it or the caller was cancelled meanwhile: the task is   *)
(* over, the socket is closed, the status is CLOSED.                       *)
StopLeavesNothing ==
    (\E s \in Stoppers : stopper[s] = "returned") =>
        /\ task = "done" /\ status = "CLOSED"
        /\ socket \in {"none", "closed"}

(* The wait before attempt n+1 is INITIAL_RECONNECT_DELAY doubled for each *)
(* failure in a row, at most MAX_RECONNECT_DELAY; only a subscription that *)
(* succeeds starts the row anew, a bare connect does not.                  *)
BackoffCounts ==
    task = "backoff" => delay = Min({Doubled[failures - 1], MaxDelay})

(* A connection that is down comes back, unless it is stopped: no error    *)
(* path of the loop ends the task or leaves it waiting for ever.           *)
Recovers ==
    status \in {"DISCONNECTED", "CONNECTING"} ~> status \in {"CONNECTED", "CLOSED"}

(* stop() returns, wherever the receive task was.                          *)
StopReturns ==
    \A s \in Stoppers : stopper[s] = "awaitTask" ~> stopper[s] \in {"returned", "abandoned"}

=============================================================================

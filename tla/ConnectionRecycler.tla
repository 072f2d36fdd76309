------------------------- MODULE ConnectionRecycler -------------------------
(***************************************************************************)
(* The recycler (src/lifecycle/recycler.py): it finds connections that are *)
(* polluted by expired assets, too old or unhealthy, opens a replacement   *)
(* for their active assets, waits for it to stabilise, and closes the old  *)
(* connection.                                                             *)
(*                                                                         *)
(* A recycle is a task.  It suspends at the semaphore, during the          *)
(* stabilisation delay and while the old connection stops; between these   *)
(* it runs alone.  Its control state is                                    *)
(*   idle -> waiting -> stabilizing -> removing -> completed               *)
(* with failed and cancelled as the other ends, and waiting -> removing    *)
(* when there is nothing to move.  A task is used once, so the number of   *)
(* tasks bounds the recycles of a behaviour.                               *)
(***************************************************************************)
EXTENDS ConnectionPool

CONSTANTS
    MonitorTasks,       \* tasks the monitor loop can create
    ManualTasks,        \* callers of force_recycle
    MaxConcurrent       \* MAX_CONCURRENT_RECYCLES (2)

ASSUME TasksAssumption == MonitorTasks \cap ManualTasks = {}
ASSUME FiniteTasksAssumption == IsFiniteSet(MonitorTasks) /\ IsFiniteSet(ManualTasks)
ASSUME MaxConcurrentAssumption == MaxConcurrent \in Nat \ {0}

VARIABLES
    task,               \* task -> its control state and local variables
    activeRecycles,     \* _active_recycles
    stats,              \* RecycleStats
    recyclerState       \* "running", "stopping" (stop awaits the tasks), "stopped"

recyclerVars == <<task, activeRecycles, stats, recyclerState>>

Tasks == MonitorTasks \cup ManualTasks

(* connection_id, new_connection_id, active_assets and migrated_count.     *)
RecycleTask == [pc : {"idle", "waiting", "stabilizing", "removing",
                      "completed", "failed", "cancelled"},
                conn : Conns \cup {NoConn},
                new : Conns \cup {NoConn},
                active : SUBSET Assets,
                migrated : Nat]

At(pc, c, new, active, migrated) ==
    [pc |-> pc, conn |-> c, new |-> new, active |-> active, migrated |-> migrated]

(* A task that has not begun, or has ended.  One that ended before it saw  *)
(* its replacement healthy leaves it behind: that is kept as history.      *)
Ended(pc, left) == At(pc, NoConn, left, {}, 0)

RecyclerTypeOK ==
    /\ task \in [Tasks -> RecycleTask]
    /\ activeRecycles \in SUBSET Conns
    /\ stats \in [initiated : Nat, completed : Nat, failed : Nat, migrated : Nat]
    /\ recyclerState \in {"running", "stopping", "stopped"}

RecyclerInit ==
    /\ task = [t \in Tasks |-> Ended("idle", NoConn)]
    /\ activeRecycles = {}
    /\ stats = [initiated |-> 0, completed |-> 0, failed |-> 0, migrated |-> 0]
    /\ recyclerState = "running"

-----------------------------------------------------------------------------
With(pc) == {t \in Tasks : task[t].pc = pc}

FaultyInFlightLeak == With("stabilizing") \cup With("removing") \cup With("failed")

(* The holders of the semaphore.                                           *)
InFlight == With("stabilizing") \cup With("removing")

Waiting == With("waiting")

SlotFree == Cardinality(InFlight) < MaxConcurrent

(* An id for a new connection: no task refers to it either.                *)
FreshIds ==
    {c \in Conns : Unreferenced(c) /\ \A t \in Tasks : task[t].conn # c /\ task[t].new # c}

(* The triggers of _check_all_connections.                                 *)
NeedsRecycling(c) ==
    \/ Polluted(reg, c, PollutionPercent)
    \/ now - createdAt[c] >= AgeThreshold
    \/ wsStatus[c] # "HEALTHY"

Due == {c \in pool : c \notin activeRecycles /\ NeedsRecycling(c)}

(* The counters when a recycle begins and when it ends.                    *)
CountInitiated(s) ==
    [initiated |-> s.initiated + 1, completed |-> s.completed, failed |-> s.failed,
     migrated |-> s.migrated]

CountCompleted(s, migrated) ==
    [initiated |-> s.initiated, completed |-> s.completed + 1, failed |-> s.failed,
     migrated |-> s.migrated + migrated]

CountFailed(s) ==
    [initiated |-> s.initiated, completed |-> s.completed, failed |-> s.failed + 1,
     migrated |-> s.migrated]

(* A task ends: its `finally` discards the connection.                     *)
EndTask(t, pc, left) ==
    /\ task' = [task EXCEPT ![t] = Ended(pc, left)]
    /\ activeRecycles' = activeRecycles \ {task[t].conn}

-----------------------------------------------------------------------------
(* The monitor loop: one task for every connection that is due.  A task    *)
(* that can run does so long before the next check, a minute later: at a   *)
(* check, only a full semaphore keeps tasks waiting.  (is_draining never   *)
(* holds: nothing that runs marks a connection as draining.)               *)
CheckAllConnections ==
    /\ recyclerState = "running"
    /\ Due # {}
    /\ Waiting # {} => ~SlotFree
    /\ \E f \in [Due -> MonitorTasks \cap With("idle")] :
        /\ \A c, d \in Due : f[c] = f[d] => c = d
        /\ task' = [t \in Tasks |->
               IF \E c \in Due : f[c] = t
               THEN At("waiting", CHOOSE c \in Due : f[c] = t, NoConn, {}, 0)
               ELSE task[t]]
    /\ UNCHANGED <<activeRecycles, stats, recyclerState, reg, poolVars>>

(* force_recycle, by a caller that knows the connection from the stats.    *)
ForceRecycle(t, c) ==
    /\ t \in ManualTasks /\ task[t].pc = "idle"
    /\ c \in pool /\ c \notin activeRecycles
    /\ task' = [task EXCEPT ![t] = At("waiting", c, NoConn, {}, 0)]
    /\ UNCHANGED <<activeRecycles, stats, recyclerState, reg, poolVars>>

(* What every recycle does on getting the semaphore.                       *)
Acquire(t) ==
    /\ task[t].pc = "waiting"
    /\ SlotFree
    /\ recyclerState' = recyclerState

(* Nothing active, and the connection is gone: _remove_connection returns  *)
(* at once.                                                                *)
BeginGone(t) ==
    /\ Acquire(t)
    /\ ActiveByConnection(reg, task[t].conn) = {}
    /\ task[t].conn \notin pool
    /\ EndTask(t, "completed", NoConn)
    /\ stats' = CountCompleted(CountInitiated(stats), 0)
    /\ UNCHANGED <<reg, poolVars>>

(* Nothing active: the connection is removed without a replacement.        *)
BeginEmpty(t) ==
    LET c == task[t].conn
    IN  /\ Acquire(t)
        /\ ActiveByConnection(reg, c) = {}
        /\ c \in pool
        /\ PopConnection(c)
        /\ task' = [task EXCEPT ![t] = At("removing", c, NoConn, {}, 0)]
        /\ activeRecycles' = activeRecycles \cup {c}
        /\ stats' = CountInitiated(stats)
        /\ reg' = reg

FaultyBeginReplaceExpired(t, new) ==
    LET c == task[t].conn
        active == reg.byConnection[c]
    IN  /\ Acquire(t)
        /\ ActiveByConnection(reg, c) # {}
        /\ ForceSubscribe(active, new)
        /\ task' = [task EXCEPT ![t] = At("stabilizing", c, new, active, 0)]
        /\ activeRecycles' = activeRecycles \cup {c}
        /\ stats' = CountInitiated(stats)

(* A replacement for the active assets, or the refusal of force_subscribe  *)
(* to put too many on one connection.                                      *)
BeginReplace(t, new) ==
    LET c == task[t].conn
        active == ActiveByConnection(reg, c)
    IN  /\ Acquire(t)
        /\ active # {}
        /\ IF Cardinality(active) > MaxMarkets
           THEN /\ EndTask(t, "failed", NoConn)
                /\ stats' = CountFailed(CountInitiated(stats))
                /\ UNCHANGED <<reg, poolVars>>
           ELSE /\ ForceSubscribe(active, new)
                /\ task' = [task EXCEPT ![t] = At("stabilizing", c, new, active, 0)]
                /\ activeRecycles' = activeRecycles \cup {c}
                /\ stats' = CountInitiated(stats)

(* get_connection_stats at the end of the delay: the replacement is in the *)
(* pool and healthy.                                                       *)
ReplacementHealthy(t) == task[t].new \in pool /\ wsStatus[task[t].new] = "HEALTHY"

FaultyAbortClosesReplacement(t) ==
    /\ task[t].pc = "stabilizing"
    /\ task[t].new \in pool /\ ~ReplacementHealthy(t)
    /\ PopConnection(task[t].new)
    /\ EndTask(t, "failed", NoConn)
    /\ stats' = CountFailed(stats)
    /\ UNCHANGED <<recyclerState, reg>>

FaultyAbortUncounted(t) ==
    /\ task[t].pc = "stabilizing"
    /\ ~ReplacementHealthy(t)
    /\ EndTask(t, "failed", task[t].new)
    /\ UNCHANGED <<stats, recyclerState, reg, poolVars>>

(* It is not: the recycle is aborted, and both connections stay.           *)
AbortUnhealthy(t) ==
    /\ task[t].pc = "stabilizing"
    /\ ~ReplacementHealthy(t)
    /\ EndTask(t, "failed", task[t].new)
    /\ stats' = CountFailed(stats)
    /\ UNCHANGED <<recyclerState, reg, poolVars>>

FaultyCutOverUnchecked(t) ==
    LET c == task[t].conn
        active == task[t].active
    IN  /\ task[t].pc = "stabilizing"
        /\ c \in pool
        /\ reg' = ReassignConnection(reg, active, c, task[t].new)
        /\ task' = [task EXCEPT ![t] = At("removing", c, task[t].new, active, 0)]
        /\ PopConnection(c)
        /\ UNCHANGED <<activeRecycles, stats, recyclerState>>

(* It is: the registry is updated and the old connection is removed.       *)
CutOver(t) ==
    LET c == task[t].conn
        active == task[t].active
    IN  /\ task[t].pc = "stabilizing"
        /\ ReplacementHealthy(t)
        /\ c \in pool
        /\ reg' = ReassignConnection(reg, active, c, task[t].new)
        /\ task' = [task EXCEPT ![t] = At("removing", c, task[t].new, active,
                                          Cardinality(Reassignable(reg, active, c)))]
        /\ PopConnection(c)
        /\ UNCHANGED <<activeRecycles, stats, recyclerState>>

FaultyCutOverGoneCloses(t) ==
    /\ task[t].pc = "stabilizing"
    /\ ReplacementHealthy(t)
    /\ task[t].conn \notin pool
    /\ PopConnection(task[t].new)
    /\ EndTask(t, "failed", NoConn)
    /\ stats' = CountFailed(stats)
    /\ UNCHANGED <<recyclerState, reg>>

FaultyCutOverGoneUncounted(t) ==
    /\ task[t].pc = "stabilizing"
    /\ ReplacementHealthy(t)
    /\ task[t].conn \notin pool
    /\ reg' = ReassignConnection(reg, task[t].active, task[t].conn, task[t].new)
    /\ EndTask(t, "completed", NoConn)
    /\ UNCHANGED <<stats, recyclerState, poolVars>>

(* It is, and somebody else has removed the old connection already.        *)
CutOverGone(t) ==
    LET c == task[t].conn
        active == task[t].active
    IN  /\ task[t].pc = "stabilizing"
        /\ ReplacementHealthy(t)
        /\ c \notin pool
        /\ reg' = ReassignConnection(reg, active, c, task[t].new)
        /\ EndTask(t, "completed", NoConn)
        /\ stats' = CountCompleted(stats, Cardinality(Reassignable(reg, active, c)))
        /\ UNCHANGED <<recyclerState, poolVars>>

(* The old connection has stopped.                                         *)
FinishRemoval(t) ==
    LET c == task[t].conn
    IN  /\ task[t].pc = "removing"
        /\ reg' = RemoveConnection(reg, c)
        /\ DropConnection(c)
        /\ EndTask(t, "completed", NoConn)
        /\ stats' = CountCompleted(stats, task[t].migrated)
        /\ recyclerState' = recyclerState

(* stop() raised: the registry keeps its index of the connection.  With a  *)
(* replacement in place this is only logged; without one it is a failure.  *)
RemovalRaises(t) ==
    LET c == task[t].conn
    IN  /\ task[t].pc = "removing"
        /\ DropConnection(c)
        /\ IF task[t].new = NoConn
           THEN EndTask(t, "failed", NoConn) /\ stats' = CountFailed(stats)
           ELSE EndTask(t, "completed", NoConn) /\ stats' = CountCompleted(stats, task[t].migrated)
        /\ UNCHANGED <<recyclerState, reg>>

-----------------------------------------------------------------------------
(* stop(): the monitor loop is cancelled, and the recycles it created have *)
(* thirty seconds to finish.                                               *)
RecyclerStopBegin ==
    /\ recyclerState = "running"
    /\ recyclerState' = "stopping"
    /\ UNCHANGED <<task, activeRecycles, stats, reg, poolVars>>

Live(t) == task[t].pc \in {"waiting", "stabilizing", "removing"}

(* They took longer and are cancelled.  Cancelling one that awaits the     *)
(* connection's stop() may be swallowed there (it belongs to `survivors`,  *)
(* and goes on), or it abandons the removal half-way.                      *)
RecyclerTimeout ==
    \E survivors \in SUBSET (MonitorTasks \cap With("removing")) :
        LET cancelled == {t \in MonitorTasks \ survivors : Live(t)}
            abandoned == {task[t].conn : t \in cancelled \cap With("removing")}
            left == [t \in cancelled |-> IF t \in With("stabilizing") THEN task[t].new ELSE NoConn]
        IN  /\ recyclerState = "stopping"
            /\ cancelled # {}
            /\ task' = [t \in Tasks |-> IF t \in cancelled THEN Ended("cancelled", left[t]) ELSE task[t]]
            /\ activeRecycles' = activeRecycles \ {task[t].conn : t \in cancelled}
            /\ wsAssets' = [c \in Conns |-> IF c \in abandoned THEN {} ELSE wsAssets[c]]
            /\ createdAt' = [c \in Conns |-> IF c \in abandoned THEN 0 ELSE createdAt[c]]
            /\ UNCHANGED <<stats, recyclerState, reg, pool, wsStatus, poolState>>

(* All of them are done.  Recycles of force_recycle are not waited for.    *)
RecyclerStopEnd ==
    /\ recyclerState = "stopping"
    /\ \A t \in MonitorTasks : ~Live(t)
    /\ recyclerState' = "stopped"
    /\ UNCHANGED <<task, activeRecycles, stats, reg, poolVars>>

=============================================================================

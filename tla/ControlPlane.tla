---------------------------- MODULE ControlPlane ----------------------------
(***************************************************************************)
(* Registry, pool, recycler and lifecycle controller together, as App runs *)
(* them on one event loop (src/app.py), with the network and the clock as  *)
(* their environment.                                                      *)
(***************************************************************************)
EXTENDS ConnectionRecycler, LifecycleController

vars == <<reg, now, poolVars, recyclerVars, lifecycleVars>>

TypeOK ==
    /\ RegistryTypeOK
    /\ PoolTypeOK
    /\ RecyclerTypeOK
    /\ LifecycleTypeOK
    /\ now \in Nat

Init ==
    /\ RegistryInit
    /\ ClockInit
    /\ PoolInit
    /\ RecyclerInit
    /\ LifecycleInit

-----------------------------------------------------------------------------
(* One action for every step of a task, with what the step leaves alone.   *)

Tick == Advance /\ UNCHANGED <<reg, poolVars, recyclerVars, lifecycleVars>>

Network(c) ==
    /\ GetHealthy(c) \/ GetUnhealthy(c)
    /\ UNCHANGED <<now, recyclerVars, lifecycleVars>>

PoolStep ==
    /\ \E c \in FreshIds : ProcessPendingMarkets(c)
    /\ UNCHANGED <<now, recyclerVars, lifecycleVars>>

LifecycleStep ==
    /\ DiscoverMarkets \/ AddMarketManually \/ CheckExpirations \/ CleanupExpired
    /\ UNCHANGED <<poolVars, recyclerVars>>

MonitorStep == CheckAllConnections /\ UNCHANGED <<now, lifecycleVars>>

ManualStep ==
    /\ \E t \in ManualTasks, c \in Conns : ForceRecycle(t, c)
    /\ UNCHANGED <<now, lifecycleVars>>

RecycleStep(t) ==
    /\ \/ BeginGone(t)
       \/ BeginEmpty(t)
       \/ \E new \in FreshIds : BeginReplace(t, new)
       \/ AbortUnhealthy(t)
       \/ CutOver(t)
       \/ CutOverGone(t)
       \/ FinishRemoval(t)
       \/ RemovalRaises(t)
    /\ UNCHANGED <<now, lifecycleVars>>

(* While the application runs.                                             *)
RunningNext ==
    \/ Tick
    \/ \E c \in Conns : Network(c)
    \/ PoolStep
    \/ LifecycleStep
    \/ MonitorStep
    \/ ManualStep
    \/ \E t \in Tasks : RecycleStep(t)

(* App._stop: the recycler, then the lifecycle controller, then the pool.  *)
StopRecycler ==
    /\ RecyclerStopBegin \/ RecyclerTimeout \/ RecyclerStopEnd
    /\ UNCHANGED <<now, lifecycleVars>>

StopLifecycle ==
    /\ recyclerState = "stopped"
    /\ LifecycleStop
    /\ UNCHANGED <<poolVars, recyclerVars>>

StopPool ==
    /\ ~lifecycleRunning
    /\ PoolStopBegin \/ PoolStopEnd
    /\ UNCHANGED <<now, recyclerVars, lifecycleVars>>

Shutdown == StopRecycler \/ StopLifecycle \/ StopPool

Next == RunningNext \/ Shutdown

Spec == Init /\ [][Next]_vars

(* The same while nobody stops the application.                            *)
RunningSpec == Init /\ [][RunningNext]_vars

(* Fairness.  The event loop runs a task that is ready; a semaphore wakes  *)
(* its waiters in order; the stabilisation delay ends, and connection.stop *)
(* returns because closing a WebSocket has a timeout: a recycle that can   *)
(* take a step takes it.  The subscription loop wakes every half minute.   *)
(* A shutdown that has begun goes on (nothing obliges it to begin, and     *)
(* stop() does not wait for its tasks for ever).  Nothing is assumed of    *)
(* the network, the clock, the callers or the controller.                  *)
ShutdownGoesOn ==
    \/ StopRecycler /\ recyclerState = "stopping"
    \/ StopLifecycle
    \/ StopPool

FairSpec ==
    /\ Spec
    /\ WF_vars(PoolStep)
    /\ \A t \in Tasks : WF_vars(RecycleStep(t))
    /\ WF_vars(ShutdownGoesOn)

-----------------------------------------------------------------------------
(* Properties.                                                             *)

IsSubscribed(a) == HasStatus(reg, a, "SUBSCRIBED")

(* An asset is PENDING exactly while it waits in the pending queue.  A     *)
(* PENDING asset outside the queue would never be subscribed: batches are  *)
(* taken from the queue, and nothing puts an asset back.                   *)
PendingIsQueued ==
    \A a \in Assets : HasStatus(reg, a, "PENDING") <=> a \in Queued(reg)

(* While the pool runs, the connection the registry names for a SUBSCRIBED *)
(* asset is in the pool, was not stopped, and has the asset in its         *)
(* subscription: no recycle, failed or not, and no race of two recycles    *)
(* leaves an asset subscribed on paper only.                               *)
SubscribedIsManaged ==
    poolState = "running" =>
        \A a \in Assets : IsSubscribed(a) =>
            LET c == reg.assets[a].conn
            IN  c \in pool /\ wsStatus[c] # "CLOSED" /\ a \in wsAssets[c]

(* The replacements no recycle has seen working: it still waits for them,  *)
(* found them unhealthy, or was cancelled before.                          *)
OnTrial == {task[t].new : t \in Tasks \ (With("removing") \cup With("completed"))}

(* Zero-downtime migration: when a connection leaves a running pool, every *)
(* asset the registry still has SUBSCRIBED on it is carried by another     *)
(* connection of the pool: a healthy one, or at least not a replacement    *)
(* that no recycle has seen working.  (A connection that pending assets    *)
(* were given to is admitted even if it has yet to become healthy: nothing *)
(* in the code waits for that.)                                            *)
NoDowntime ==
    [][\A c \in pool \ pool' : poolState' = "running" =>
          \A a \in reg.byConnection[c] : IsSubscribed(a) =>
              \E d \in pool' :
                  /\ a \in wsAssets'[d]
                  /\ wsStatus'[d] = "HEALTHY" \/ d \notin OnTrial]_vars

(* Statuses only move forward.  In particular a recycle, which subscribes  *)
(* again whatever it is given, never brings an EXPIRED asset back, and     *)
(* only EXPIRED assets are removed.                                        *)
StatusOnlyForward ==
    [][\A a \in Assets :
          LET from == reg.assets[a].status
              to == reg'.assets[a].status
          IN  from # to => <<from, to>> \in {<<"ABSENT", "PENDING">>, <<"PENDING", "SUBSCRIBED">>,
                                             <<"SUBSCRIBED", "EXPIRED">>, <<"EXPIRED", "ABSENT">>}]_vars

(* Every recycle is counted once as begun and, unless stop() cancels it,   *)
(* once as completed or failed, on whichever path it ends.                 *)
StatsAccount ==
    With("cancelled") = {} =>
        stats.initiated = stats.completed + stats.failed + Cardinality(InFlight)

(* Every connection that was not stopped is in the pool, where stop() and  *)
(* the recycler find it.                                                   *)
NoLeakedConnection == \A c \in Conns : wsStatus[c] # "CLOSED" => c \in pool

(* Once the application has stopped, every connection it ever opened has   *)
(* been stopped: also those of recycles that were cancelled half-way, or   *)
(* that went on after stop() had tried to cancel them.                     *)
ShutdownClosesAll ==
    poolState = "stopped" =>
        pool = {} /\ \A c \in Conns : wsStatus[c] = "CLOSED"

(* A recycle that has been asked for ends, whatever the network does and   *)
(* however many others hold the semaphore.                                 *)
RecycleEnds ==
    \A t \in Tasks : task[t].pc = "waiting" ~>
        task[t].pc \in {"completed", "failed", "cancelled"}

(* Assets do not wait for ever once MIN_PENDING of them wait: the queue    *)
(* shrinks below the minimum again, unless the pool stops first.           *)
PendingServed ==
    poolState = "running" /\ PendingCount(reg) >= MinPending ~>
        poolState # "running" \/ PendingCount(reg) < MinPending

(* A shutdown that has begun is completed.                                 *)
ShutdownTerminates == recyclerState = "stopping" ~> poolState = "stopped"

(* What the documents say and the code does not do: each is the subject of *)
(* a run that TLC refutes.                                                 *)

(* The recycler skips connections that are already being recycled.         *)
NoDuplicateRecycle ==
    \A t, u \in InFlight : task[t].conn = task[u].conn => t = u

(* A recycle with a replacement counts the markets it migrates.            *)
MigrationCounted ==
    \A t \in With("removing") : task[t].new # NoConn => task[t].migrated > 0

(* remove_asset fully removes an asset: no index keeps it.                 *)
GhostFree == \A c \in Conns : reg.byConnection[c] \subseteq Tracked(reg)

=============================================================================

--------------------------- MODULE ConnectionPool ---------------------------
(***************************************************************************)
(* The pool of WebSocket connections (src/connection/pool.py): it batches  *)
(* pending assets into new connections, opens replacements on demand and   *)
(* closes connections.                                                     *)
(*                                                                         *)
(* A WebsocketConnection is seen as the pool and the recycler see it: its  *)
(* asset_ids, its age, whether is_healthy holds, and whether it was        *)
(* stopped.  The pool's lock is never contended (nothing suspends while    *)
(* holding it), so the only place where a pool operation lets others run is*)
(* connection.stop(): _remove_connection and stop are two steps each, and  *)
(* every other operation is one.                                           *)
(***************************************************************************)
EXTENDS AssetRegistry, Clock

CONSTANTS
    MinPending,         \* MIN_PENDING_FOR_NEW_CONNECTION (50)
    MaxMarkets,         \* MAX_MARKETS_PER_CONNECTION (500)
    PollutionPercent,   \* POLLUTION_THRESHOLD (30%)
    AgeThreshold        \* AGE_THRESHOLD (24 hours)

ASSUME MinPendingAssumption == MinPending \in Nat \ {0}
ASSUME MaxMarketsAssumption == MaxMarkets \in Nat /\ Target <= MaxMarkets
ASSUME PollutionAssumption == PollutionPercent \in 1..100
ASSUME AgeAssumption == AgeThreshold \in Nat \ {0}

VARIABLES
    pool,           \* the keys of _connections
    wsStatus,       \* connection -> how it looks to is_healthy
    wsAssets,       \* connection -> its asset_ids
    createdAt,      \* connection -> ConnectionInfo.created_at
    poolState       \* "running", "stopping" (stop awaits the connections), "stopped"

poolVars == <<pool, wsStatus, wsAssets, createdAt, poolState>>

WsStatus == {"HEALTHY", "UNHEALTHY", "CLOSED"}

PoolTypeOK ==
    /\ pool \in SUBSET Conns
    /\ wsStatus \in [Conns -> WsStatus]
    /\ wsAssets \in [Conns -> SUBSET Assets]
    /\ createdAt \in [Conns -> Nat]
    /\ poolState \in {"running", "stopping", "stopped"}

(* An id nobody uses is that of a connection object that does not exist.   *)
PoolInit ==
    /\ pool = {}
    /\ wsStatus = [c \in Conns |-> "CLOSED"]
    /\ wsAssets = [c \in Conns |-> {}]
    /\ createdAt = [c \in Conns |-> 0]
    /\ poolState = "running"

(* uuid4 gives every connection an id nobody holds.  Ids are a finite set  *)
(* here, so an id comes back once nothing refers to it any more.           *)
Unreferenced(c) ==
    /\ c \notin pool
    /\ wsStatus[c] = "CLOSED"
    /\ reg.byConnection[c] = {}
    /\ \A a \in Assets : reg.assets[a].conn # c

-----------------------------------------------------------------------------
(* What the pool's operations do to the connections.                       *)

(* A new WebsocketConnection in the pool; start() has made it CONNECTING.  *)
OpenConnection(c, S) ==
    /\ pool' = pool \cup {c}
    /\ wsStatus' = [wsStatus EXCEPT ![c] = "UNHEALTHY"]
    /\ wsAssets' = [wsAssets EXCEPT ![c] = S]
    /\ createdAt' = [createdAt EXCEPT ![c] = now]
    /\ poolState' = poolState

FaultyPopConnectionOpen(c) ==
    /\ pool' = pool \ {c}
    /\ UNCHANGED <<wsStatus, wsAssets, createdAt, poolState>>

(* _remove_connection up to the await of stop(), which makes it CLOSED.    *)
PopConnection(c) ==
    /\ pool' = pool \ {c}
    /\ wsStatus' = [wsStatus EXCEPT ![c] = "CLOSED"]
    /\ UNCHANGED <<wsAssets, createdAt, poolState>>

(* The object of a popped connection goes away when stop() has returned.   *)
DropConnection(c) ==
    /\ wsAssets' = [wsAssets EXCEPT ![c] = {}]
    /\ createdAt' = [createdAt EXCEPT ![c] = 0]
    /\ UNCHANGED <<pool, wsStatus, poolState>>

(* force_subscribe: the registry after it.                                 *)
ForceSubscribe(S, c) ==
    /\ OpenConnection(c, S)
    /\ reg' = MarkSubscribed(reg, S, c, now)

-----------------------------------------------------------------------------
(* The steps of the pool's own tasks.                                      *)

FaultyProcessPendingNoMark(c) ==
    LET batch == PendingBatch(reg, Target)
    IN  /\ poolState = "running"
        /\ PendingCount(reg) >= MinPending
        /\ OpenConnection(c, batch)
        /\ reg' = TakePendingBatch(reg, Target)

FaultyProcessPendingStrict(c) ==
    LET batch == PendingBatch(reg, Target)
    IN  /\ poolState = "running"
        /\ PendingCount(reg) > MinPending
        /\ OpenConnection(c, batch)
        /\ reg' = MarkSubscribed(TakePendingBatch(reg, Target), batch, c, now)

FaultyProcessPendingStopping(c) ==
    LET batch == PendingBatch(reg, Target)
    IN  /\ poolState # "stopped"
        /\ PendingCount(reg) >= MinPending
        /\ OpenConnection(c, batch)
        /\ reg' = MarkSubscribed(TakePendingBatch(reg, Target), batch, c, now)

(* _subscription_loop finding enough pending assets: the oldest Target of  *)
(* them leave the queue, get a connection and are marked as subscribed,    *)
(* with no suspension in between.  (With a longer queue the loop goes on to*)
(* the next batch at once; letting others run between batches, as here,    *)
(* only adds behaviours.)                                                  *)
ProcessPendingMarkets(c) ==
    LET batch == PendingBatch(reg, Target)
    IN  /\ poolState = "running"
        /\ PendingCount(reg) >= MinPending
        /\ OpenConnection(c, batch)
        /\ reg' = MarkSubscribed(TakePendingBatch(reg, Target), batch, c, now)

(* stop(): no more batches; every connection in the pool is told to stop.  *)
PoolStopBegin ==
    /\ poolState = "running"
    /\ poolState' = "stopping"
    /\ wsStatus' = [c \in Conns |-> IF c \in pool THEN "CLOSED" ELSE wsStatus[c]]
    /\ UNCHANGED <<pool, wsAssets, createdAt, reg>>

FaultyPoolStopEndWaits ==
    /\ poolState = "stopping" /\ pool = {}
    /\ poolState' = "stopped"
    /\ UNCHANGED <<pool, wsAssets, createdAt, wsStatus, reg>>

(* The gather is over: _connections.clear(), whatever it holds by now.     *)
PoolStopEnd ==
    LET stopped == {c \in pool : wsStatus[c] = "CLOSED"}
    IN  /\ poolState = "stopping"
        /\ poolState' = "stopped"
        /\ pool' = {}
        /\ wsAssets' = [c \in Conns |-> IF c \in stopped THEN {} ELSE wsAssets[c]]
        /\ createdAt' = [c \in Conns |-> IF c \in stopped THEN 0 ELSE createdAt[c]]
        /\ UNCHANGED <<wsStatus, reg>>

(* The network: a connection that was not stopped connects or resumes      *)
(* receiving, ...                                                          *)
GetHealthy(c) ==
    /\ wsStatus[c] = "UNHEALTHY"
    /\ wsStatus' = [wsStatus EXCEPT ![c] = "HEALTHY"]
    /\ UNCHANGED <<pool, wsAssets, createdAt, poolState, reg>>

(* ... drops, or is silent for a minute.                                   *)
GetUnhealthy(c) ==
    /\ wsStatus[c] = "HEALTHY"
    /\ wsStatus' = [wsStatus EXCEPT ![c] = "UNHEALTHY"]
    /\ UNCHANGED <<pool, wsAssets, createdAt, poolState, reg>>

=============================================================================

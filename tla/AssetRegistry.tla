--------------------------- MODULE AssetRegistry ---------------------------
(***************************************************************************)
(* The central registry of tracked assets (src/registry/asset_registry.py) *)
(* and its five indexes.                                                   *)
(*                                                                         *)
(* Every method of AssetRegistry runs without suspending: its lock is never*)
(* held across an await that yields.  A method is therefore one atomic     *)
(* step on the event loop, and is written here as an operator from the     *)
(* registry before the call to the registry after it.  The pool, the       *)
(* recycler and the lifecycle controller use these operators inside their  *)
(* own, larger, atomic steps.                                              *)
(***************************************************************************)
EXTENDS Integers, FiniteSets

CONSTANTS
    Assets,         \* asset (token) ids
    Conditions,     \* condition (market) ids
    Conns,          \* connection ids
    NoConn,         \* connection_id = None
    NoCondition,    \* condition of an asset the registry does not track
    Expirations,    \* the expiration_ts values in use; 0 stands for unknown
    Target          \* the largest batch take_pending_batch ever returns (400)

ASSUME AssetsAssumption == IsFiniteSet(Assets)
ASSUME ConnsAssumption == NoConn \notin Conns
ASSUME ConditionsAssumption == NoCondition \notin Conditions
ASSUME ExpirationsAssumption == Expirations \subseteq Nat /\ 0 \in Expirations
ASSUME TargetAssumption == Target \in Nat \ {0}

VARIABLE reg        \* the one AssetRegistry object

-----------------------------------------------------------------------------
(* AssetStatus, and "ABSENT" for an id that is not a key of _assets.       *)
Status == {"PENDING", "SUBSCRIBED", "EXPIRED"}

(* AssetEntry.  `since` is subscribed_at, or created_at before the first   *)
(* subscription: the code only ever reads the two together, as             *)
(* `subscribed_at or created_at`.                                          *)
AssetEntry == [status : Status \cup {"ABSENT"},
               condition : Conditions \cup {NoCondition},
               conn : Conns \cup {NoConn},
               exp : Expirations,
               since : Nat]

NoEntry == [status |-> "ABSENT", condition |-> NoCondition,
            conn |-> NoConn, exp |-> 0, since |-> 0]

(* Operators named Faulty... are slips a change to the code could make; no *)
(* specification uses them.  Each run shows that its properties tell them  *)
(* from the operator they stand beside.                                    *)
FaultySubscribedAge(entry, c, t) ==
    [status |-> "SUBSCRIBED", condition |-> entry.condition, conn |-> c,
     exp |-> entry.exp, since |-> entry.since - t]

(* The fields mark_subscribed, mark_expired and the calls that move or     *)
(* orphan an asset write.                                                  *)
Subscribed(entry, c, t) ==
    [status |-> "SUBSCRIBED", condition |-> entry.condition, conn |-> c,
     exp |-> entry.exp, since |-> t]

Expired(entry) ==
    [status |-> "EXPIRED", condition |-> entry.condition, conn |-> entry.conn,
     exp |-> entry.exp, since |-> entry.since]

OnConnection(entry, c) ==
    [status |-> entry.status, condition |-> entry.condition, conn |-> c,
     exp |-> entry.exp, since |-> entry.since]

(* The registry.  A key an index does not hold is a key with an empty set: *)
(* the code reads every index with a default of set().  `pendingQueue`     *)
(* gives each asset its place in the list _pending_queue, counted from 1,  *)
(* and 0 to an asset that is not in the list.                              *)
Registry == [assets : [Assets -> AssetEntry],
             byCondition : [Conditions -> SUBSET Assets],
             byConnection : [Conns -> SUBSET Assets],
             byStatus : [Status -> SUBSET Assets],
             byExpiration : [Expirations -> SUBSET Assets],
             pendingQueue : [Assets -> Nat]]

EmptyRegistry == [assets |-> [a \in Assets |-> NoEntry],
                  byCondition |-> [m \in Conditions |-> {}],
                  byConnection |-> [c \in Conns |-> {}],
                  byStatus |-> [s \in Status |-> {}],
                  byExpiration |-> [e \in Expirations |-> {}],
                  pendingQueue |-> [a \in Assets |-> 0]]

-----------------------------------------------------------------------------
(* Reads.                                                                  *)
Tracked(r) == {a \in Assets : r.assets[a].status # "ABSENT"}

HasStatus(r, a, s) == r.assets[a].status = s

Queued(r) == {a \in Assets : r.pendingQueue[a] > 0}

PendingCount(r) == Cardinality(Queued(r))

ActiveByConnection(r, c) ==
    {a \in r.byConnection[c] : HasStatus(r, a, "SUBSCRIBED")}

ExpiringBefore(r, t) ==
    UNION {r.byExpiration[e] : e \in {x \in Expirations : x < t}}

(* connection_stats: `total` counts what the index holds, whether or not   *)
(* the registry still tracks it.                                           *)
ConnectionStats(r, c) ==
    [total |-> Cardinality(r.byConnection[c]),
     subscribed |-> Cardinality(ActiveByConnection(r, c)),
     expired |-> Cardinality({a \in r.byConnection[c] : HasStatus(r, a, "EXPIRED")})]

(* pollution_ratio >= percent / 100, and 0.0 for an empty connection.      *)
Polluted(r, c, percent) ==
    LET stats == ConnectionStats(r, c)
    IN  /\ stats.total > 0
        /\ 100 * stats.expired >= percent * stats.total

-----------------------------------------------------------------------------
FaultyDequeueShift(queue, S) ==
    [a \in Assets |->
        IF a \in S \/ queue[a] = 0 THEN 0 ELSE queue[a] - Cardinality(S)]

(* The pending queue with the assets of S taken out of the middle.         *)
Dequeue(queue, S) ==
    [a \in Assets |->
        IF a \in S \/ queue[a] = 0 THEN 0
        ELSE queue[a] - Cardinality({b \in S : 0 < queue[b] /\ queue[b] < queue[a]})]

(* add_asset at time t: PENDING, and the last of the queue.                *)
AddAsset(r, a, m, e, t) ==
    IF a \in Tracked(r) THEN r
    ELSE [assets |-> [r.assets EXCEPT ![a] =
              [status |-> "PENDING", condition |-> m, conn |-> NoConn,
               exp |-> e, since |-> t]],
          byCondition |-> [r.byCondition EXCEPT ![m] = @ \cup {a}],
          byConnection |-> r.byConnection,
          byStatus |-> [r.byStatus EXCEPT !["PENDING"] = @ \cup {a}],
          byExpiration |-> IF e > 0 THEN [r.byExpiration EXCEPT ![e] = @ \cup {a}]
                           ELSE r.byExpiration,
          pendingQueue |-> [r.pendingQueue EXCEPT ![a] = PendingCount(r) + 1]]

(* _by_status when the assets of M move from their old status to s.        *)
MoveStatus(r, M, s) ==
    [x \in Status |-> IF x = s THEN r.byStatus[x] \cup M
                      ELSE r.byStatus[x] \ {a \in M : HasStatus(r, a, x)}]

(* mark_subscribed.  Note what it does not do: the assets stay in the index*)
(* of the connection they were on before, and an EXPIRED asset comes back. *)
MarkSubscribed(r, S, c, t) ==
    LET M == S \cap Tracked(r)
    IN  [assets |-> [a \in Assets |->
             IF a \in M THEN Subscribed(r.assets[a], c, t) ELSE r.assets[a]],
         byCondition |-> r.byCondition,
         byConnection |-> [r.byConnection EXCEPT ![c] = @ \cup M],
         byStatus |-> MoveStatus(r, M, "SUBSCRIBED"),
         byExpiration |-> r.byExpiration,
         pendingQueue |-> Dequeue(r.pendingQueue, M)]

FaultyMarkExpiredStatusIndex(r, S) ==
    LET M == {a \in S \cap Tracked(r) : ~HasStatus(r, a, "EXPIRED")}
    IN  [r EXCEPT !.assets = [a \in Assets |->
                      IF a \in M THEN Expired(r.assets[a]) ELSE r.assets[a]],
                  !.byStatus["EXPIRED"] = @ \cup M]

(* mark_expired: the connection index and the pending queue keep them.     *)
MarkExpired(r, S) ==
    LET M == {a \in S \cap Tracked(r) : ~HasStatus(r, a, "EXPIRED")}
    IN  [assets |-> [a \in Assets |->
             IF a \in M THEN Expired(r.assets[a]) ELSE r.assets[a]],
         byCondition |-> r.byCondition,
         byConnection |-> r.byConnection,
         byStatus |-> MoveStatus(r, M, "EXPIRED"),
         byExpiration |-> r.byExpiration,
         pendingQueue |-> r.pendingQueue]

FaultyPendingBatchFromTail(r, n) ==
    {a \in Queued(r) : PendingCount(r) - r.pendingQueue[a] < n}

(* take_pending_batch: what it returns, and the queue it leaves.           *)
PendingBatch(r, n) ==
    {a \in Queued(r) : r.pendingQueue[a] <= n /\ r.pendingQueue[a] <= Target}

TakePendingBatch(r, n) ==
    [assets |-> r.assets,
     byCondition |-> r.byCondition,
     byConnection |-> r.byConnection,
     byStatus |-> r.byStatus,
     byExpiration |-> r.byExpiration,
     pendingQueue |-> Dequeue(r.pendingQueue, PendingBatch(r, n))]

(* reassign_connection moves only what still points at the old connection. *)
Reassignable(r, S, old) == {a \in S \cap Tracked(r) : r.assets[a].conn = old}

FaultyReassignNoIndex(r, S, old, new) ==
    [r EXCEPT !.assets = [a \in Assets |->
        IF a \in Reassignable(r, S, old) THEN OnConnection(r.assets[a], new) ELSE r.assets[a]]]

ReassignConnection(r, S, old, new) ==
    LET M == Reassignable(r, S, old)
    IN  [assets |-> [a \in Assets |->
             IF a \in M THEN OnConnection(r.assets[a], new) ELSE r.assets[a]],
         byCondition |-> r.byCondition,
         byConnection |-> [c \in Conns |->
             IF c = new THEN r.byConnection[c] \cup M
             ELSE IF c = old THEN r.byConnection[c] \ M ELSE r.byConnection[c]],
         byStatus |-> r.byStatus,
         byExpiration |-> r.byExpiration,
         pendingQueue |-> r.pendingQueue]

(* remove_connection: the entries that point at it are orphaned.           *)
RemoveConnection(r, c) ==
    [assets |-> [a \in Assets |->
         IF a \in r.byConnection[c] /\ r.assets[a].conn = c
         THEN OnConnection(r.assets[a], NoConn) ELSE r.assets[a]],
     byCondition |-> r.byCondition,
     byConnection |-> [r.byConnection EXCEPT ![c] = {}],
     byStatus |-> r.byStatus,
     byExpiration |-> r.byExpiration,
     pendingQueue |-> r.pendingQueue]

FaultyRemoveAssetsQueue(r, S) ==
    LET M == S \cap Tracked(r)
    IN  [assets |-> [a \in Assets |-> IF a \in M THEN NoEntry ELSE r.assets[a]],
         byCondition |-> [m \in Conditions |-> r.byCondition[m] \ M],
         byConnection |-> [c \in Conns |-> r.byConnection[c] \ M],
         byStatus |-> [s \in Status |-> r.byStatus[s] \ M],
         byExpiration |-> [e \in Expirations |-> r.byExpiration[e] \ M],
         pendingQueue |-> r.pendingQueue]

FaultyRemoveAssetsExpiration(r, S) ==
    LET M == S \cap Tracked(r)
    IN  [assets |-> [a \in Assets |-> IF a \in M THEN NoEntry ELSE r.assets[a]],
         byCondition |-> [m \in Conditions |-> r.byCondition[m] \ M],
         byConnection |-> [c \in Conns |-> r.byConnection[c] \ M],
         byStatus |-> [s \in Status |-> r.byStatus[s] \ M],
         byExpiration |-> r.byExpiration,
         pendingQueue |-> Dequeue(r.pendingQueue, M)]

(* remove_asset for each asset of S, in no matter which order: out of the  *)
(* index of the connection its entry points at, and of no other.           *)
RemoveAssets(r, S) ==
    LET M == S \cap Tracked(r)
    IN  [assets |-> [a \in Assets |-> IF a \in M THEN NoEntry ELSE r.assets[a]],
         byCondition |-> [m \in Conditions |->
             r.byCondition[m] \ {a \in M : r.assets[a].condition = m}],
         byConnection |-> [c \in Conns |->
             r.byConnection[c] \ {a \in M : r.assets[a].conn = c}],
         byStatus |-> [s \in Status |-> r.byStatus[s] \ {a \in M : HasStatus(r, a, s)}],
         byExpiration |-> [e \in Expirations |->
             r.byExpiration[e] \ {a \in M : r.assets[a].exp = e}],
         pendingQueue |-> Dequeue(r.pendingQueue, M)]

-----------------------------------------------------------------------------
(* The registry on its own, under callers that call anything at any time.  *)
CONSTANT Times      \* values of time.monotonic() in the calls
ASSUME TimesAssumption == Times \subseteq Nat

RegistryInit == reg = EmptyRegistry

DoAddAsset == \E a \in Assets, m \in Conditions, e \in Expirations, t \in Times :
    reg' = AddAsset(reg, a, m, e, t)

DoMarkSubscribed == \E S \in SUBSET Assets, c \in Conns, t \in Times :
    reg' = MarkSubscribed(reg, S, c, t)

DoMarkExpired == \E S \in SUBSET Assets : reg' = MarkExpired(reg, S)

DoTakePendingBatch == \E n \in 0..(Target + 1) : reg' = TakePendingBatch(reg, n)

DoReassignConnection == \E S \in SUBSET Assets, old, new \in Conns :
    reg' = ReassignConnection(reg, S, old, new)

DoRemoveConnection == \E c \in Conns : reg' = RemoveConnection(reg, c)

DoRemoveAsset == \E a \in Assets : reg' = RemoveAssets(reg, {a})

RegistryNext ==
    \/ DoAddAsset
    \/ DoMarkSubscribed
    \/ DoMarkExpired
    \/ DoTakePendingBatch
    \/ DoReassignConnection
    \/ DoRemoveConnection
    \/ DoRemoveAsset

RegistrySpec == RegistryInit /\ [][RegistryNext]_reg

-----------------------------------------------------------------------------
(* Properties of every registry, whoever calls it.  They are predicates of *)
(* a registry value, so that the modules above can state them too.         *)

(* The type invariant: every index holds assets, every entry its fields,   *)
(* every place in the pending queue is a natural number.                   *)
RegistryTypeOK == reg \in Registry

(* _by_status is exact: an asset is in the set of its entry's status and   *)
(* of no other.  _check_expirations and _cleanup_expired choose their      *)
(* assets by it.                                                           *)
StatusIndexed(r) ==
    \A s \in Status : r.byStatus[s] = {a \in Assets : HasStatus(r, a, s)}

StatusIndexExact == StatusIndexed(reg)

(* _by_condition and _by_expiration hold exactly the tracked assets of the *)
(* market and of the time: an asset missing from the latter never expires, *)
(* one left over is reported for ever.                                     *)
MarketIndexed(r) ==
    /\ \A m \in Conditions : r.byCondition[m] = {a \in Tracked(r) : r.assets[a].condition = m}
    /\ \A e \in Expirations : r.byExpiration[e] =
            IF e = 0 THEN {} ELSE {a \in Tracked(r) : r.assets[a].exp = e}

MarketIndexesExact == MarketIndexed(reg)

(* The connection an entry points at has the asset in its index.  Without  *)
(* it a recycle of that connection would leave the asset behind, and       *)
(* reassign_connection would raise KeyError.  The converse does not hold:  *)
(* see GhostFree in ControlPlane.                                          *)
ConnectionIndexed(r) ==
    \A a \in Assets : \A c \in Conns :
        r.assets[a].conn = c => a \in r.byConnection[c]

EntryConnectionIndexed == ConnectionIndexed(reg)

(* The places in the pending queue are 1..n, one asset each, and whoever   *)
(* is in the queue is tracked and not SUBSCRIBED: take_pending_batch hands *)
(* out no asset twice and none that is gone.                               *)
QueueSound ==
    /\ {reg.pendingQueue[a] : a \in Queued(reg)} = 1..PendingCount(reg)
    /\ \A a \in Queued(reg) : reg.assets[a].status \in {"PENDING", "EXPIRED"}

(* First in, first out: whoever is still queued keeps its place relative   *)
(* to the others, and an asset leaves for a batch (its entry untouched)    *)
(* only with everybody ahead of it.                                        *)
QueueFifo ==
    [][\A a, b \in Queued(reg) :
          reg.pendingQueue[a] < reg.pendingQueue[b] =>
            /\ b \in Queued(reg') /\ a \in Queued(reg') =>
                  reg'.pendingQueue[a] < reg'.pendingQueue[b]
            /\ b \notin Queued(reg') /\ reg'.assets = reg.assets =>
                  a \notin Queued(reg')]_reg

=============================================================================

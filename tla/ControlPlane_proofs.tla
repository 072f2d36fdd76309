------------------------- MODULE ControlPlane_proofs -------------------------
(***************************************************************************)
(* What the control plane guarantees for any number of assets, markets,    *)
(* connections and recycles: that every asset it calls subscribed has a    *)
(* connection, and keeps one while connections are replaced.               *)
(*                                                                         *)
(* The registry enters these proofs through two lemmas for each method: the*)
(* one of AssetRegistry_proofs (the method keeps RegistryInv) and one here *)
(* that says what the method does to the status and the connection of each *)
(* asset, to the index of each connection, and to the pending queue.       *)
(***************************************************************************)
EXTENDS ControlPlane, AssetRegistry_proofs

(* An asset is PENDING exactly while it is queued.                         *)
QueueIsPending(r) == \A a \in Assets : HasStatus(r, a, "PENDING") <=> a \in Queued(r)

RegOK(r) == RegistryInv(r) /\ QueueIsPending(r)

-----------------------------------------------------------------------------
(* What the methods of the registry do.                                    *)

(* after is r with the assets of S added as PENDING, subscribed on c,      *)
(* expired, removed; with the assets of M moved to new; with every entry   *)
(* on c orphaned and the index of c emptied.                               *)
Pended(r, after, S) ==
    /\ \A a \in Assets :
          /\ after.assets[a].status = IF a \in S THEN "PENDING" ELSE r.assets[a].status
          /\ after.assets[a].conn = IF a \in S THEN NoConn ELSE r.assets[a].conn
    /\ after.byConnection = r.byConnection
    /\ Queued(after) = Queued(r) \cup S

SubscribedTo(r, after, S, c) ==
    /\ \A a \in Assets :
          /\ after.assets[a].status = IF a \in S THEN "SUBSCRIBED" ELSE r.assets[a].status
          /\ after.assets[a].conn = IF a \in S THEN c ELSE r.assets[a].conn
    /\ \A d \in Conns : after.byConnection[d] =
          IF d = c THEN r.byConnection[d] \cup S ELSE r.byConnection[d]
    /\ Queued(after) = Queued(r) \ S

ExpiredNow(r, after, S) ==
    /\ \A a \in Assets :
          /\ after.assets[a].status = IF a \in S THEN "EXPIRED" ELSE r.assets[a].status
          /\ after.assets[a].conn = r.assets[a].conn
    /\ after.byConnection = r.byConnection
    /\ Queued(after) = Queued(r)

Removed(r, after, S) ==
    /\ \A a \in Assets : after.assets[a] = IF a \in S THEN NoEntry ELSE r.assets[a]
    /\ \A d \in Conns : /\ r.byConnection[d] \ S \subseteq after.byConnection[d]
                        /\ after.byConnection[d] \subseteq r.byConnection[d]
    /\ Queued(after) = Queued(r) \ S

Moved(r, after, M, new) ==
    /\ \A a \in Assets :
          /\ after.assets[a].status = r.assets[a].status
          /\ after.assets[a].conn = IF a \in M THEN new ELSE r.assets[a].conn
    /\ \A d \in Conns : r.byConnection[d] \ M \subseteq after.byConnection[d]
    /\ Queued(after) = Queued(r)

Orphaned(r, after, c) ==
    /\ \A a \in Assets :
          /\ after.assets[a].status = r.assets[a].status
          /\ after.assets[a].conn = IF r.assets[a].conn = c THEN NoConn ELSE r.assets[a].conn
    /\ \A d \in Conns : after.byConnection[d] = IF d = c THEN {} ELSE r.byConnection[d]
    /\ Queued(after) = Queued(r)

LEMMA QueuedMembers ==
    ASSUME NEW r
    PROVE  Queued(r) = Members(r.pendingQueue)
BY DEF Queued, Members

(* mark_subscribed, for assets the registry tracks.                        *)
LEMMA MarkSubscribedEffect ==
    ASSUME NEW r, RegistryInv(r), NEW S \in SUBSET Tracked(r), NEW c \in Conns, NEW t \in Nat,
           NEW after, after = MarkSubscribed(r, S, c, t)
    PROVE  SubscribedTo(r, after, S, c)
<1>1. r \in Registry /\ Orderly(r.pendingQueue) /\ S \in SUBSET Assets /\ S \cap Tracked(r) = S
  BY DEF RegistryInv, Tracked
<1>2. /\ after.assets = [a \in Assets |-> IF a \in S THEN Subscribed(r.assets[a], c, t) ELSE r.assets[a]]
      /\ after.byConnection = [r.byConnection EXCEPT ![c] = @ \cup S]
      /\ after.pendingQueue = Dequeue(r.pendingQueue, S)
  BY <1>1 DEF MarkSubscribed
<1>3. r.pendingQueue \in [Assets -> Nat] /\ r.byConnection \in [Conns -> SUBSET Assets]
  BY <1>1 DEF Registry
<1>4. Members(after.pendingQueue) = Members(r.pendingQueue) \ S
  BY <1>1, <1>2, <1>3, DequeueOrder DEF Orderly
<1>5. \A a \in Assets :
          /\ after.assets[a].status = IF a \in S THEN "SUBSCRIBED" ELSE r.assets[a].status
          /\ after.assets[a].conn = IF a \in S THEN c ELSE r.assets[a].conn
  BY <1>2 DEF Subscribed
<1>6. \A d \in Conns : after.byConnection[d] =
          IF d = c THEN r.byConnection[d] \cup S ELSE r.byConnection[d]
  BY <1>2, <1>3
<1>. QED  BY <1>4, <1>5, <1>6, QueuedMembers DEF SubscribedTo

LEMMA MarkExpiredEffect ==
    ASSUME NEW r, NEW S \in SUBSET Assets, \A a \in S : HasStatus(r, a, "SUBSCRIBED"),
           NEW after, after = MarkExpired(r, S)
    PROVE  ExpiredNow(r, after, S)
<1>1. S = {a \in S \cap Tracked(r) : ~HasStatus(r, a, "EXPIRED")}
  BY DEF HasStatus, Tracked
<1>2. /\ after.assets = [a \in Assets |-> IF a \in S THEN Expired(r.assets[a]) ELSE r.assets[a]]
      /\ after.byConnection = r.byConnection
      /\ after.pendingQueue = r.pendingQueue
  BY <1>1 DEF MarkExpired
<1>. QED  BY <1>2 DEF Expired, Queued, ExpiredNow

LEMMA TakePendingBatchEffect ==
    ASSUME NEW r, RegistryInv(r), NEW n \in Nat, NEW after, after = TakePendingBatch(r, n)
    PROVE  /\ after.assets = r.assets
           /\ after.byConnection = r.byConnection
           /\ Queued(after) = Queued(r) \ PendingBatch(r, n)
<1>1. /\ r.pendingQueue \in [Assets -> Nat]
      /\ Orderly(r.pendingQueue)
      /\ PendingBatch(r, n) \in SUBSET Assets
  BY DEF RegistryInv, Registry, PendingBatch, Queued
<1>2. /\ after.assets = r.assets
      /\ after.byConnection = r.byConnection
      /\ after.pendingQueue = Dequeue(r.pendingQueue, PendingBatch(r, n))
  BY DEF TakePendingBatch
<1>3. Members(after.pendingQueue) = Members(r.pendingQueue) \ PendingBatch(r, n)
  BY <1>1, <1>2, DequeueOrder DEF Orderly
<1>. QED  BY <1>2, <1>3, QueuedMembers

LEMMA ReassignConnectionEffect ==
    ASSUME NEW r, NEW S, NEW old \in Conns, NEW new \in Conns,
           NEW after, after = ReassignConnection(r, S, old, new)
    PROVE  Moved(r, after, Reassignable(r, S, old), new)
<1> DEFINE M == Reassignable(r, S, old)
<1>1. /\ after.assets = [a \in Assets |-> IF a \in M THEN OnConnection(r.assets[a], new) ELSE r.assets[a]]
      /\ after.byConnection = [c \in Conns |->
             IF c = new THEN r.byConnection[c] \cup M
             ELSE IF c = old THEN r.byConnection[c] \ M ELSE r.byConnection[c]]
      /\ after.pendingQueue = r.pendingQueue
  BY DEF ReassignConnection
<1>. HIDE DEF M
<1>2. \A a \in Assets :
          /\ after.assets[a].status = r.assets[a].status
          /\ after.assets[a].conn = IF a \in M THEN new ELSE r.assets[a].conn
  BY <1>1 DEF OnConnection
<1>3. \A d \in Conns : r.byConnection[d] \ M \subseteq after.byConnection[d]
  BY <1>1
<1>4. Queued(after) = Queued(r)
  BY <1>1 DEF Queued
<1>. QED  BY <1>2, <1>3, <1>4 DEF M, Moved

LEMMA RemoveConnectionEffect ==
    ASSUME NEW r, RegistryInv(r), NEW c \in Conns, NEW after, after = RemoveConnection(r, c)
    PROVE  Orphaned(r, after, c)
<1>1. /\ after.assets = [a \in Assets |->
             IF a \in r.byConnection[c] /\ r.assets[a].conn = c
             THEN OnConnection(r.assets[a], NoConn) ELSE r.assets[a]]
      /\ after.byConnection = [r.byConnection EXCEPT ![c] = {}]
      /\ after.pendingQueue = r.pendingQueue
  BY DEF RemoveConnection
<1>2. r.byConnection \in [Conns -> SUBSET Assets]
  BY DEF RegistryInv, Registry
<1>3. \A a \in Assets : r.assets[a].conn = c => a \in r.byConnection[c]
  BY DEF RegistryInv, Indexed, ConnectionIndexed
<1>. QED  BY <1>1, <1>2, <1>3 DEF OnConnection, Queued, Orphaned

LEMMA RemoveAssetsEffect ==
    ASSUME NEW r, RegistryInv(r), NEW S \in SUBSET Tracked(r), NEW after, after = RemoveAssets(r, S)
    PROVE  Removed(r, after, S)
<1>1. /\ r.pendingQueue \in [Assets -> Nat]
      /\ Orderly(r.pendingQueue)
      /\ S \in SUBSET Assets
      /\ S \cap Tracked(r) = S
  BY DEF RegistryInv, Registry, Tracked
<1>2. /\ after.assets = [a \in Assets |-> IF a \in S THEN NoEntry ELSE r.assets[a]]
      /\ after.byConnection = [c \in Conns |-> r.byConnection[c] \ {a \in S : r.assets[a].conn = c}]
      /\ after.pendingQueue = Dequeue(r.pendingQueue, S)
  BY <1>1 DEF RemoveAssets
<1>3. Members(after.pendingQueue) = Members(r.pendingQueue) \ S
  BY <1>1, <1>2, DequeueOrder DEF Orderly
<1>. QED  BY <1>2, <1>3, QueuedMembers DEF Removed

(* add_asset, for an asset the registry does not track.                    *)
LEMMA AddAssetEffect ==
    ASSUME NEW r, r \in Registry, NEW a \in Assets \ Tracked(r), NEW m \in Conditions,
           NEW e \in Expirations, NEW t \in Nat, NEW after, after = AddAsset(r, a, m, e, t)
    PROVE  Pended(r, after, {a})
<1>1. PendingCount(r) \in Nat
  BY AssetsAssumption, FS_Subset, FS_CardinalityType, Queued(r) \subseteq Assets DEF PendingCount, Queued
<1>2. /\ r.assets \in [Assets -> AssetEntry]
      /\ r.pendingQueue \in [Assets -> Nat]
  BY DEF Registry
<1>3. /\ after.assets = [r.assets EXCEPT ![a] =
                  [status |-> "PENDING", condition |-> m, conn |-> NoConn, exp |-> e, since |-> t]]
      /\ after.byConnection = r.byConnection
      /\ after.pendingQueue = [r.pendingQueue EXCEPT ![a] = PendingCount(r) + 1]
  BY DEF AddAsset
<1>4. \A b \in Assets :
          /\ after.assets[b].status = IF b = a THEN "PENDING" ELSE r.assets[b].status
          /\ after.assets[b].conn = IF b = a THEN NoConn ELSE r.assets[b].conn
  BY <1>2, <1>3
<1>5. Queued(after) = Queued(r) \cup {a}
  BY <1>1, <1>2, <1>3 DEF Queued
<1>. QED  BY <1>3, <1>4, <1>5 DEF Pended

LEMMA AddAssetsEffect ==
    ASSUME NEW r, r \in Registry, NEW S \in SUBSET Assets, NEW order \in Orders(S),
           NEW after, after = AddAssets(r, S, order)
    PROVE  /\ Pended(r, after, S)
           /\ \A a \in Assets : after.pendingQueue[a] =
                 IF a \in S THEN PendingCount(r) + order[a] ELSE r.pendingQueue[a]
<1>1. PendingCount(r) \in Nat /\ Cardinality(S) \in Nat
  BY AssetsAssumption, FS_Subset, FS_CardinalityType, Queued(r) \subseteq Assets DEF PendingCount, Queued
<1>2. \A a \in S : order[a] \in Nat /\ order[a] > 0
  BY <1>1 DEF Orders
<1>3. \A a \in Assets :
          /\ after.assets[a].status = IF a \in S THEN "PENDING" ELSE r.assets[a].status
          /\ after.assets[a].conn = IF a \in S THEN NoConn ELSE r.assets[a].conn
  BY DEF AddAssets
<1>4. /\ after.byConnection = r.byConnection
      /\ \A a \in Assets : after.pendingQueue[a] =
            IF a \in S THEN PendingCount(r) + order[a] ELSE r.pendingQueue[a]
  BY DEF AddAssets
<1>5. Queued(after) = Queued(r) \cup S
  BY <1>1, <1>2, <1>4 DEF Queued, Registry
<1>. QED  BY <1>3, <1>4, <1>5 DEF Pended

(* The assets of a fetch get the places behind the queue, in some order.   *)
LEMMA AddAssetsOrderly ==
    ASSUME NEW r, RegistryInv(r), NEW S \in SUBSET (Assets \ Tracked(r)), NEW order \in Orders(S),
           NEW after, after = AddAssets(r, S, order)
    PROVE  after.pendingQueue \in [Assets -> Nat] /\ Orderly(after.pendingQueue)
<1> DEFINE queue == r.pendingQueue
           n == PendingCount(r)
           k == Cardinality(S)
           new == after.pendingQueue
<1>1. r \in Registry /\ Orderly(queue) /\ queue \in [Assets -> Nat]
  BY DEF RegistryInv, Registry
<1>2. /\ n \in Nat /\ n = Cardinality(Members(queue)) /\ IsFiniteSet(Members(queue))
      /\ k \in Nat /\ IsFiniteSet(S)
  BY AssetsAssumption, FS_Subset, FS_CardinalityType, Queued(r) \subseteq Assets, QueuedMembers
     DEF PendingCount, Queued
<1>3. Members(queue) \cap S = {}
  BY <1>1 DEF RegistryInv, QueuedUnsubscribed, Queued, Members, Tracked
<1>4. /\ \A a \in Assets : new[a] = IF a \in S THEN n + order[a] ELSE queue[a]
      /\ Members(new) = Members(queue) \cup S
  BY <1>1, AddAssetsEffect, QueuedMembers DEF Pended
<1>5. \A a \in S : order[a] \in 1..k
  BY DEF Orders
<1>6. \A a, b \in S : order[a] = order[b] => a = b
  BY DEF Orders
<1>7. Cardinality(Members(new)) = n + k
  <2>. HIDE DEF n, k
  <2>1. Cardinality(Members(queue) \cap S) = 0
    BY <1>3, FS_EmptySet
  <2>2. Cardinality(Members(queue) \cup S) =
          Cardinality(Members(queue)) + Cardinality(S) - Cardinality(Members(queue) \cap S)
    BY <1>2, FS_Union
  <2>. QED  BY <1>2, <1>4, <2>1, <2>2 DEF k
<1>8. new = [a \in Assets |-> new[a]]
  BY DEF AddAssets
<1>. HIDE DEF n, k, queue, new
<1>9. new \in [Assets -> Nat]
  <2>. SUFFICES \A a \in Assets : new[a] \in Nat
    BY <1>8
  <2>. QED  BY <1>1, <1>2, <1>4, <1>5
<1>10. \A a \in Assets : queue[a] \in Nat /\ queue[a] <= n
  BY <1>1, <1>2 DEF Orderly
<1>11. DistinctPlaces(new)
  <2>. SUFFICES ASSUME NEW a \in Assets, NEW b \in Assets, new[a] > 0, new[a] = new[b]
                PROVE  a = b
    BY DEF DistinctPlaces
  <2>1. CASE a \in S /\ b \in S
    BY <2>1, <1>2, <1>4, <1>5, <1>6
  <2>2. CASE a \in S /\ b \notin S
    BY <2>2, <1>2, <1>4, <1>5, <1>10
  <2>3. CASE a \notin S /\ b \in S
    BY <2>3, <1>2, <1>4, <1>5, <1>10
  <2>4. CASE a \notin S /\ b \notin S
    BY <2>4, <1>1, <1>4 DEF Orderly, DistinctPlaces
  <2>. QED  BY <2>1, <2>2, <2>3, <2>4
<1>12. \A a \in Assets : new[a] <= n + k
  BY <1>2, <1>4, <1>5, <1>10
<1>. QED  BY <1>7, <1>9, <1>11, <1>12 DEF Orderly, new

LEMMA AddAssetsInv ==
    ASSUME now \in Nat, NEW r, RegistryInv(r), NEW S \in SUBSET (Assets \ Tracked(r)),
           NEW order \in Orders(S)
    PROVE  RegistryInv(AddAssets(r, S, order))
<1> DEFINE after == AddAssets(r, S, order)
           entry(a) == [status |-> "PENDING", condition |-> Market[a], conn |-> NoConn,
                        exp |-> EndTimestamp[Market[a]], since |-> now]
<1>0. r \in Registry /\ Indexed(r) /\ QueuedUnsubscribed(r) /\ S \in SUBSET Assets
  BY DEF RegistryInv
<1>1. /\ after.assets = [a \in Assets |-> IF a \in S THEN entry(a) ELSE r.assets[a]]
      /\ after.byCondition = [m \in Conditions |-> r.byCondition[m] \cup {a \in S : Market[a] = m}]
      /\ after.byConnection = r.byConnection
      /\ after.byStatus = [s \in Status |->
             IF s = "PENDING" THEN r.byStatus[s] \cup S ELSE r.byStatus[s]]
      /\ after.byExpiration = [e \in Expirations |->
             IF e = 0 THEN r.byExpiration[e]
             ELSE r.byExpiration[e] \cup {a \in S : EndTimestamp[Market[a]] = e}]
  BY DEF AddAssets
<1>2. after.pendingQueue \in [Assets -> Nat] /\ Orderly(after.pendingQueue)
  BY AddAssetsOrderly
<1>3. \A a \in S : entry(a) \in AssetEntry
  BY <1>0, MarketAssumption, EndAssumption DEF AssetEntry, Status
<1>4. after \in [assets : {after.assets}, byCondition : {after.byCondition},
                   byConnection : {after.byConnection}, byStatus : {after.byStatus},
                   byExpiration : {after.byExpiration}, pendingQueue : {after.pendingQueue}]
  BY DEF AddAssets
<1>5. \A a \in Assets : after.assets[a] = IF a \in S THEN entry(a) ELSE r.assets[a]
  BY <1>1
<1>6. \A a \in S : r.assets[a].status = "ABSENT"
  BY <1>0 DEF Tracked
<1>7. \A a \in S : /\ entry(a).status = "PENDING" /\ entry(a).condition = Market[a]
                   /\ entry(a).exp = EndTimestamp[Market[a]] /\ entry(a).conn = NoConn
  OBVIOUS
<1>8. Queued(after) = Queued(r) \cup S
  BY <1>0, AddAssetsEffect DEF Pended
<1>. HIDE DEF after, entry
<1>9. QueuedUnsubscribed(after)
  BY <1>0, <1>5, <1>7, <1>8 DEF QueuedUnsubscribed, Queued
<1>10. Tracked(after) = Tracked(r) \cup S
  BY <1>0, <1>5, <1>7 DEF Tracked
<1>11. after \in Registry
  <2>0. /\ r.assets \in [Assets -> AssetEntry]
        /\ r.byCondition \in [Conditions -> SUBSET Assets]
        /\ r.byConnection \in [Conns -> SUBSET Assets]
        /\ r.byStatus \in [Status -> SUBSET Assets]
        /\ r.byExpiration \in [Expirations -> SUBSET Assets]
    BY <1>0 DEF Registry
  <2>1. after.assets \in [Assets -> AssetEntry]
    BY <2>0, <1>1, <1>3
  <2>2. after.byCondition \in [Conditions -> SUBSET Assets]
    BY <1>0, <2>0, <1>1
  <2>3. after.byConnection \in [Conns -> SUBSET Assets]
    BY <2>0, <1>1
  <2>4. after.byStatus \in [Status -> SUBSET Assets]
    BY <1>0, <2>0, <1>1
  <2>5. after.byExpiration \in [Expirations -> SUBSET Assets]
    BY <1>0, <2>0, <1>1
  <2>. QED  BY <1>2, <1>4, <2>1, <2>2, <2>3, <2>4, <2>5 DEF Registry
<1>12. StatusIndexed(after)
  BY <1>0, <1>1, <1>5, <1>6, <1>7 DEF Indexed, StatusIndexed, HasStatus, Status
<1>13. \A x \in Conditions : after.byCondition[x] = {a \in Tracked(after) : after.assets[a].condition = x}
  <2>. SUFFICES ASSUME NEW x \in Conditions
                PROVE  after.byCondition[x] = {a \in Tracked(after) : after.assets[a].condition = x}
    OBVIOUS
  <2>1. r.byCondition[x] = {a \in Tracked(r) : r.assets[a].condition = x}
    BY <1>0 DEF Indexed, MarketIndexed
  <2>2. after.byCondition[x] = r.byCondition[x] \cup {a \in S : Market[a] = x}
    BY <1>1
  <2>. QED  BY <1>0, <1>5, <1>6, <1>7, <1>10, <2>1, <2>2 DEF Tracked
<1>14. ASSUME NEW x \in Expirations
       PROVE  after.byExpiration[x] =
                  IF x = 0 THEN {} ELSE {a \in Tracked(after) : after.assets[a].exp = x}
  <2>1. r.byExpiration[x] = IF x = 0 THEN {} ELSE {a \in Tracked(r) : r.assets[a].exp = x}
    BY <1>0 DEF Indexed, MarketIndexed
  <2>2. after.byExpiration[x] = IF x = 0 THEN r.byExpiration[x]
                                ELSE r.byExpiration[x] \cup {a \in S : EndTimestamp[Market[a]] = x}
    BY <1>1
  <2>3. CASE x = 0
    BY <2>1, <2>2, <2>3
  <2>4. CASE x # 0
    BY <1>0, <1>5, <1>6, <1>7, <1>10, <2>1, <2>2, <2>4 DEF Tracked
  <2>. QED  BY <2>3, <2>4
<1>15. ConnectionIndexed(after)
  BY <1>0, <1>1, <1>5, <1>7, ConnsAssumption DEF Indexed, ConnectionIndexed
<1>. QED  BY <1>2, <1>11, <1>9, <1>12, <1>13, <1>14, <1>15 DEF RegistryInv, Indexed, MarketIndexed, after

-----------------------------------------------------------------------------
(* Types, the registry and the queue.                                      *)

(* A task that has begun and not ended works on a connection.              *)
LiveOnConnection == \A t \in Tasks : Live(t) => task[t].conn \in Conns

Core == TypeOK /\ RegOK(reg) /\ LiveOnConnection

LEMMA CoreFacts ==
    ASSUME Core
    PROVE  /\ reg \in Registry /\ RegistryInv(reg) /\ now \in Nat
           /\ \A c \in Conns : reg.byConnection[c] \in SUBSET Assets
           /\ \A s \in Status : reg.byStatus[s] = {a \in Assets : HasStatus(reg, a, s)}
           /\ \A a \in Assets : HasStatus(reg, a, "PENDING") <=> a \in Queued(reg)
           /\ \A a \in Assets : \A c \in Conns : reg.assets[a].conn = c => a \in reg.byConnection[c]
BY DEF Core, TypeOK, RegOK, RegistryInv, Registry, Indexed, StatusIndexed, ConnectionIndexed, QueueIsPending

LEMMA FreshFacts ==
    ASSUME NEW c \in FreshIds
    PROVE  /\ c \in Conns /\ c \notin pool
           /\ reg.byConnection[c] = {}
           /\ \A a \in Assets : reg.assets[a].conn # c
           /\ \A t \in Tasks : task[t].conn # c /\ task[t].new # c
BY DEF FreshIds, Unreferenced

(* A batch holds PENDING assets, and gives all of them to its connection.  *)
LEMMA BatchEffect ==
    ASSUME Core, NEW c \in Conns, ProcessPendingMarkets(c)
    PROVE  LET S == PendingBatch(reg, Target)
           IN  /\ S \in SUBSET Assets
               /\ \A a \in S : HasStatus(reg, a, "PENDING")
               /\ SubscribedTo(reg, reg', S, c)
               /\ RegOK(reg')
               /\ poolState = "running"
               /\ OpenConnection(c, S)
<1> DEFINE S == PendingBatch(reg, Target)
           mid == TakePendingBatch(reg, Target)
<1>1. Target \in Nat /\ RegistryInv(reg) /\ now \in Nat
  BY CoreFacts, TargetAssumption
<1>2. /\ S \in SUBSET Assets
      /\ S \subseteq Queued(reg)
      /\ \A a \in S : HasStatus(reg, a, "PENDING")
  BY CoreFacts DEF PendingBatch, Queued
<1>3. /\ reg' = MarkSubscribed(mid, S, c, now)
      /\ poolState = "running"
      /\ OpenConnection(c, S)
  BY DEF ProcessPendingMarkets
<1>4. RegistryInv(mid)
  BY <1>1, TakePendingBatchInv
<1>5. /\ mid.assets = reg.assets
      /\ mid.byConnection = reg.byConnection
      /\ Queued(mid) = Queued(reg) \ S
  BY <1>1, TakePendingBatchEffect
<1>. HIDE DEF S, mid
<1>6. S \in SUBSET Tracked(mid)
  BY <1>2, <1>5 DEF Tracked, HasStatus
<1>7. RegistryInv(reg')
  BY <1>1, <1>2, <1>3, <1>4, MarkSubscribedInv
<1>8. SubscribedTo(mid, reg', S, c)
  BY <1>1, <1>3, <1>4, <1>6, MarkSubscribedEffect
<1>9. SubscribedTo(reg, reg', S, c)
  BY <1>5, <1>8 DEF SubscribedTo
<1>10. QueueIsPending(reg')
  BY <1>9, CoreFacts DEF QueueIsPending, HasStatus, SubscribedTo
<1>. QED  BY <1>2, <1>3, <1>7, <1>9, <1>10 DEF RegOK, S

(* A replacement takes assets that are SUBSCRIBED.                         *)
LEMMA ForceSubscribeEffect ==
    ASSUME Core, NEW S \in SUBSET Assets, \A a \in S : HasStatus(reg, a, "SUBSCRIBED"),
           NEW c \in Conns, ForceSubscribe(S, c)
    PROVE  SubscribedTo(reg, reg', S, c) /\ RegOK(reg') /\ OpenConnection(c, S)
<1>1. RegistryInv(reg) /\ now \in Nat /\ S \in SUBSET Tracked(reg)
  BY CoreFacts DEF Tracked, HasStatus
<1>2. reg' = MarkSubscribed(reg, S, c, now) /\ OpenConnection(c, S)
  BY DEF ForceSubscribe
<1>3. RegistryInv(reg')
  BY <1>1, <1>2, MarkSubscribedInv
<1>4. SubscribedTo(reg, reg', S, c)
  BY <1>1, <1>2, MarkSubscribedEffect
<1>5. QueueIsPending(reg')
  BY <1>4, CoreFacts DEF QueueIsPending, HasStatus, SubscribedTo
<1>. QED  BY <1>2, <1>3, <1>4, <1>5 DEF RegOK

(* Discovery and manual registration add assets the registry lacked.       *)
LEMMA AddEffect ==
    ASSUME Core, DiscoverMarkets \/ AddMarketManually
    PROVE  /\ \E S \in SUBSET (Assets \ Tracked(reg)) : Pended(reg, reg', S)
           /\ RegOK(reg')
<1>1. RegistryInv(reg) /\ now \in Nat /\ reg \in Registry
  BY CoreFacts
<1>2. CASE DiscoverMarkets
  <2>0. PICK S \in SUBSET (Assets \ Tracked(reg)) : \E order \in Orders(S) : reg' = AddAssets(reg, S, order)
    BY <1>2 DEF DiscoverMarkets
  <2>1. PICK order \in Orders(S) : reg' = AddAssets(reg, S, order)
    BY <2>0
  <2>2. RegistryInv(reg')
    BY <1>1, <2>1, AddAssetsInv
  <2>3. Pended(reg, reg', S)
    BY <1>1, <2>1, AddAssetsEffect
  <2>4. QueueIsPending(reg')
    BY <2>3, CoreFacts DEF QueueIsPending, HasStatus, Pended
  <2>. QED  BY <2>2, <2>3, <2>4 DEF RegOK
<1>3. CASE AddMarketManually
  <2>1. PICK a \in Assets \ Tracked(reg), e \in Expirations : reg' = AddAsset(reg, a, Market[a], e, now)
    BY <1>3 DEF AddMarketManually
  <2>2. Market[a] \in Conditions
    BY MarketAssumption
  <2>3. RegistryInv(reg')
    BY <1>1, <2>1, <2>2, AddAssetInv
  <2>4. Pended(reg, reg', {a})
    BY <1>1, <2>1, <2>2, AddAssetEffect
  <2>5. QueueIsPending(reg')
    BY <2>4, CoreFacts DEF QueueIsPending, HasStatus, Pended
  <2>6. {a} \in SUBSET (Assets \ Tracked(reg))
    OBVIOUS
  <2>. QED  BY <2>3, <2>4, <2>5, <2>6 DEF RegOK
<1>. QED  BY <1>2, <1>3

LEMMA ExpireEffect ==
    ASSUME Core, CheckExpirations
    PROVE  /\ \E S \in SUBSET {a \in Assets : HasStatus(reg, a, "SUBSCRIBED")} : ExpiredNow(reg, reg', S)
           /\ RegOK(reg')
<1> DEFINE S == ExpiringBefore(reg, now) \cap reg.byStatus["SUBSCRIBED"]
<1>1. S \in SUBSET Assets /\ \A a \in S : HasStatus(reg, a, "SUBSCRIBED")
  BY CoreFacts DEF Status
<1>2. reg' = MarkExpired(reg, S)
  BY DEF CheckExpirations
<1>. HIDE DEF S
<1>3. RegistryInv(reg')
  BY <1>1, <1>2, CoreFacts, MarkExpiredInv
<1>4. ExpiredNow(reg, reg', S)
  BY <1>1, <1>2, MarkExpiredEffect
<1>5. QueueIsPending(reg')
  BY <1>1, <1>4, CoreFacts DEF QueueIsPending, HasStatus, ExpiredNow
<1>. QED  BY <1>1, <1>3, <1>4, <1>5 DEF RegOK

LEMMA CleanupEffect ==
    ASSUME Core, CleanupExpired
    PROVE  /\ \E S \in SUBSET {a \in Assets : HasStatus(reg, a, "EXPIRED")} : Removed(reg, reg', S)
           /\ RegOK(reg')
<1> DEFINE S == {a \in reg.byStatus["EXPIRED"] : now - reg.assets[a].since > CleanupDelay}
<1>1. S \in SUBSET Assets /\ \A a \in S : HasStatus(reg, a, "EXPIRED")
  BY CoreFacts DEF Status
<1>2. reg' = RemoveAssets(reg, S)
  BY DEF CleanupExpired
<1>. HIDE DEF S
<1>3. S \in SUBSET Tracked(reg)
  BY <1>1 DEF Tracked, HasStatus
<1>4. RegistryInv(reg')
  BY <1>1, <1>2, CoreFacts, RemoveAssetsInv
<1>5. Removed(reg, reg', S)
  BY <1>2, <1>3, CoreFacts, RemoveAssetsEffect
<1>6. QueueIsPending(reg')
  BY <1>1, <1>5, CoreFacts DEF QueueIsPending, HasStatus, Removed, NoEntry
<1>. QED  BY <1>1, <1>4, <1>5, <1>6 DEF RegOK

LEMMA ReassignEffect ==
    ASSUME Core, NEW S \in SUBSET Assets, NEW old \in Conns, NEW new \in Conns,
           reg' = ReassignConnection(reg, S, old, new)
    PROVE  Moved(reg, reg', Reassignable(reg, S, old), new) /\ RegOK(reg')
<1>1. RegistryInv(reg')
  BY CoreFacts, ReassignConnectionInv
<1>2. Moved(reg, reg', Reassignable(reg, S, old), new)
  BY ReassignConnectionEffect
<1>3. QueueIsPending(reg')
  BY <1>2, CoreFacts DEF QueueIsPending, HasStatus, Moved
<1>. QED  BY <1>1, <1>2, <1>3 DEF RegOK

LEMMA OrphanEffect ==
    ASSUME Core, NEW c \in Conns, reg' = RemoveConnection(reg, c)
    PROVE  Orphaned(reg, reg', c) /\ RegOK(reg')
<1>1. RegistryInv(reg')
  BY CoreFacts, RemoveConnectionInv
<1>2. Orphaned(reg, reg', c)
  BY CoreFacts, RemoveConnectionEffect
<1>3. QueueIsPending(reg')
  BY <1>2, CoreFacts DEF QueueIsPending, HasStatus, Orphaned
<1>. QED  BY <1>1, <1>2, <1>3 DEF RegOK

(* The parts of Core after a step.                                         *)
LEMMA CoreParts ==
    ASSUME RegOK(reg'), PoolTypeOK', RecyclerTypeOK', LifecycleTypeOK', now' \in Nat, LiveOnConnection'
    PROVE  Core'
BY DEF Core, TypeOK, RegOK, RegistryTypeOK, RegistryInv, Registry, Indexed, StatusIndexed, MarketIndexed,
       ConnectionIndexed, QueuedUnsubscribed, QueueIsPending, Queued, Tracked, HasStatus

LEMMA OpenTypes ==
    ASSUME PoolTypeOK, now \in Nat, NEW c \in Conns, NEW S \in SUBSET Assets, OpenConnection(c, S)
    PROVE  PoolTypeOK'
BY DEF PoolTypeOK, OpenConnection, WsStatus

LEMMA PopTypes ==
    ASSUME PoolTypeOK, NEW c \in Conns, PopConnection(c)
    PROVE  PoolTypeOK'
BY DEF PoolTypeOK, PopConnection, WsStatus

LEMMA DropTypes ==
    ASSUME PoolTypeOK, NEW c \in Conns, DropConnection(c)
    PROVE  PoolTypeOK'
BY DEF PoolTypeOK, DropConnection

(* The other steps of the pool and of the network.                         *)
LEMMA OtherPoolTypes ==
    ASSUME PoolTypeOK,
           \/ PoolStopBegin \/ PoolStopEnd
           \/ \E c \in Conns : GetHealthy(c) \/ GetUnhealthy(c)
    PROVE  PoolTypeOK' /\ reg' = reg
BY DEF PoolTypeOK, PoolStopBegin, PoolStopEnd, GetHealthy, GetUnhealthy, WsStatus

(* A task moves to another control state, or ends.                         *)
LEMMA MoveTypes ==
    ASSUME RecyclerTypeOK, NEW t \in Tasks, NEW c \in Conns, NEW new \in Conns \cup {NoConn},
           NEW pc \in {"waiting", "stabilizing", "removing"}, NEW active \in SUBSET Assets, NEW n \in Nat,
           LiveOnConnection, task' = [task EXCEPT ![t] = At(pc, c, new, active, n)]
    PROVE  task' \in [Tasks -> RecycleTask] /\ LiveOnConnection'
<1>1. At(pc, c, new, active, n) \in RecycleTask /\ At(pc, c, new, active, n).conn = c
  BY DEF At, RecycleTask
<1>2. task \in [Tasks -> RecycleTask]
  BY DEF RecyclerTypeOK
<1>3. task' \in [Tasks -> RecycleTask]
  BY <1>1, <1>2
<1>4. \A u \in Tasks : task'[u] = IF u = t THEN At(pc, c, new, active, n) ELSE task[u]
  BY <1>2
<1>. QED  BY <1>1, <1>3, <1>4 DEF LiveOnConnection, Live

LEMMA EndTypes ==
    ASSUME RecyclerTypeOK, NEW t \in Tasks, NEW pc \in {"completed", "failed"},
           NEW left \in Conns \cup {NoConn}, LiveOnConnection, EndTask(t, pc, left)
    PROVE  /\ task' \in [Tasks -> RecycleTask]
           /\ activeRecycles' \in SUBSET Conns
           /\ LiveOnConnection'
<1>1. /\ Ended(pc, left) \in RecycleTask
      /\ Ended(pc, left).pc \notin {"waiting", "stabilizing", "removing"}
  BY DEF Ended, At, RecycleTask
<1>2. task \in [Tasks -> RecycleTask] /\ activeRecycles \in SUBSET Conns
  BY DEF RecyclerTypeOK
<1>3. task' = [task EXCEPT ![t] = Ended(pc, left)] /\ activeRecycles' = activeRecycles \ {task[t].conn}
  BY DEF EndTask
<1>4. task' \in [Tasks -> RecycleTask]
  BY <1>1, <1>2, <1>3
<1>5. \A u \in Tasks : task'[u] = IF u = t THEN Ended(pc, left) ELSE task[u]
  BY <1>2, <1>3
<1>. QED  BY <1>1, <1>2, <1>3, <1>4, <1>5 DEF LiveOnConnection, Live

Counters == [initiated : Nat, completed : Nat, failed : Nat, migrated : Nat]

LEMMA CountTypes ==
    ASSUME NEW s \in Counters, NEW n \in Nat
    PROVE  /\ CountInitiated(s) \in Counters
           /\ CountCompleted(s, n) \in Counters
           /\ CountFailed(s) \in Counters
BY DEF Counters, CountInitiated, CountCompleted, CountFailed

LEMMA RecycleCore ==
    ASSUME Core, NEW t \in Tasks, RecycleStep(t)
    PROVE  Core'
<1> DEFINE c == task[t].conn
<1>1. /\ RegOK(reg) /\ PoolTypeOK /\ RecyclerTypeOK /\ LifecycleTypeOK /\ LiveOnConnection
      /\ now \in Nat /\ stats \in Counters
      /\ activeRecycles \in SUBSET Conns
      /\ recyclerState \in {"running", "stopping", "stopped"}
      /\ task[t] \in RecycleTask
  BY DEF Core, TypeOK, RecyclerTypeOK, Counters
<1>2. /\ task[t].active \in SUBSET Assets /\ task[t].migrated \in Nat
      /\ task[t].new \in Conns \cup {NoConn}
  BY <1>1 DEF RecycleTask
<1>3. LifecycleTypeOK' /\ now' \in Nat
  BY <1>1 DEF RecycleStep, LifecycleTypeOK, lifecycleVars
<1>4. Live(t) => c \in Conns
  BY <1>1 DEF LiveOnConnection
<1>5. Live(t) => /\ ActiveByConnection(reg, c) \in SUBSET Assets
                 /\ \A a \in ActiveByConnection(reg, c) : HasStatus(reg, a, "SUBSCRIBED")
  BY <1>4, CoreFacts DEF ActiveByConnection
<1>6. \A S, old : /\ IsFiniteSet(Reassignable(reg, S, old))
                  /\ Cardinality(Reassignable(reg, S, old)) \in Nat
  BY AssetsAssumption, FS_Subset, FS_CardinalityType DEF Reassignable, Tracked
<1>7. UNCHANGED poolVars => PoolTypeOK'
  BY <1>1 DEF PoolTypeOK, poolVars
<1>8. /\ task' \in [Tasks -> RecycleTask]
      /\ activeRecycles' \in SUBSET Conns
      /\ stats' \in Counters
      /\ recyclerState' = recyclerState
      => RecyclerTypeOK'
  BY <1>1 DEF RecyclerTypeOK, Counters
<1>. HIDE DEF c
<1>9. CASE BeginGone(t)
  <2>1. /\ EndTask(t, "completed", NoConn)
        /\ stats' = CountCompleted(CountInitiated(stats), 0)
        /\ UNCHANGED poolVars /\ reg' = reg /\ recyclerState' = recyclerState
    BY <1>9 DEF BeginGone, Acquire
  <2>2. stats' \in Counters
    BY <1>1, <2>1, CountTypes
  <2>. QED  BY <1>1, <1>3, <1>7, <1>8, <2>1, <2>2, EndTypes, CoreParts
<1>10. CASE BeginEmpty(t)
  <2>1. /\ Live(t)
        /\ PopConnection(c)
        /\ task' = [task EXCEPT ![t] = At("removing", c, NoConn, {}, 0)]
        /\ activeRecycles' = activeRecycles \cup {c}
        /\ stats' = CountInitiated(stats)
        /\ reg' = reg /\ recyclerState' = recyclerState
    BY <1>10 DEF BeginEmpty, Acquire, Live, c
  <2>2. task' \in [Tasks -> RecycleTask] /\ LiveOnConnection'
    BY <1>1, <1>4, <2>1, MoveTypes
  <2>3. stats' \in Counters
    BY <1>1, <2>1, CountTypes
  <2>. QED  BY <1>1, <1>3, <1>4, <1>8, <2>1, <2>2, <2>3, PopTypes, CoreParts
<1>11. ASSUME NEW new \in FreshIds, BeginReplace(t, new)
       PROVE  Core'
  <2> DEFINE active == ActiveByConnection(reg, c)
  <2>0. Live(t) /\ recyclerState' = recyclerState /\ new \in Conns
    BY <1>11, FreshFacts DEF BeginReplace, Acquire, Live
  <2>1. CASE Cardinality(active) > MaxMarkets
    <3>1. /\ EndTask(t, "failed", NoConn)
          /\ stats' = CountFailed(CountInitiated(stats))
          /\ UNCHANGED poolVars /\ reg' = reg
      BY <1>11, <2>1 DEF BeginReplace, c
    <3>2. stats' \in Counters
      BY <1>1, <3>1, CountTypes
    <3>. QED  BY <1>1, <1>3, <1>7, <1>8, <2>0, <3>1, <3>2, EndTypes, CoreParts
  <2>2. CASE ~(Cardinality(active) > MaxMarkets)
    <3>1. /\ ForceSubscribe(active, new)
          /\ task' = [task EXCEPT ![t] = At("stabilizing", c, new, active, 0)]
          /\ activeRecycles' = activeRecycles \cup {c}
          /\ stats' = CountInitiated(stats)
      BY <1>11, <2>2 DEF BeginReplace, c
    <3>2. active \in SUBSET Assets /\ \A a \in active : HasStatus(reg, a, "SUBSCRIBED")
      BY <1>5, <2>0
    <3>. HIDE DEF active
    <3>3. RegOK(reg') /\ OpenConnection(new, active)
      BY <2>0, <3>1, <3>2, ForceSubscribeEffect
    <3>4. PoolTypeOK'
      BY <1>1, <2>0, <3>2, <3>3, OpenTypes
    <3>5. task' \in [Tasks -> RecycleTask] /\ LiveOnConnection'
      BY <1>1, <1>4, <2>0, <3>1, <3>2, MoveTypes
    <3>6. stats' \in Counters
      BY <1>1, <3>1, CountTypes
    <3>. QED  BY <1>1, <1>3, <1>4, <1>8, <2>0, <3>1, <3>3, <3>4, <3>5, <3>6, CoreParts
  <2>. QED  BY <2>1, <2>2
<1>12. CASE AbortUnhealthy(t)
  <2>1. /\ EndTask(t, "failed", task[t].new)
        /\ stats' = CountFailed(stats)
        /\ UNCHANGED poolVars /\ reg' = reg /\ recyclerState' = recyclerState
    BY <1>12 DEF AbortUnhealthy
  <2>2. stats' \in Counters
    BY <1>1, <2>1, CountTypes
  <2>3. task[t].new \in Conns \cup {NoConn}
    BY DEF Core, TypeOK, RecyclerTypeOK, RecycleTask
  <2>. QED  BY <1>1, <1>3, <1>7, <1>8, <2>1, <2>2, <2>3, EndTypes, CoreParts
<1>13. CASE CutOver(t)
  <2> DEFINE n == Cardinality(Reassignable(reg, task[t].active, c))
  <2>1. /\ Live(t)
        /\ task[t].new \in pool
        /\ PopConnection(c)
        /\ reg' = ReassignConnection(reg, task[t].active, c, task[t].new)
        /\ task' = [task EXCEPT ![t] = At("removing", c, task[t].new, task[t].active, n)]
        /\ UNCHANGED <<activeRecycles, stats, recyclerState>>
    BY <1>13 DEF CutOver, ReplacementHealthy, Live, c
  <2>2. task[t].new \in Conns /\ c \in Conns /\ n \in Nat
    BY <1>1, <1>4, <1>6, <2>1 DEF PoolTypeOK
  <2>. HIDE DEF n
  <2>3. RegOK(reg')
    BY <1>2, <2>1, <2>2, ReassignEffect
  <2>4. task' \in [Tasks -> RecycleTask] /\ LiveOnConnection'
    BY <1>1, <1>2, <2>1, <2>2, MoveTypes
  <2>. QED  BY <1>1, <1>3, <1>8, <2>1, <2>2, <2>3, <2>4, PopTypes, CoreParts
<1>14. CASE CutOverGone(t)
  <2> DEFINE n == Cardinality(Reassignable(reg, task[t].active, c))
  <2>1. /\ Live(t)
        /\ task[t].new \in pool
        /\ reg' = ReassignConnection(reg, task[t].active, c, task[t].new)
        /\ EndTask(t, "completed", NoConn)
        /\ stats' = CountCompleted(stats, n)
        /\ UNCHANGED poolVars /\ recyclerState' = recyclerState
    BY <1>14 DEF CutOverGone, ReplacementHealthy, Live, c
  <2>2. task[t].new \in Conns /\ c \in Conns /\ n \in Nat
    BY <1>1, <1>4, <1>6, <2>1 DEF PoolTypeOK
  <2>. HIDE DEF n
  <2>3. RegOK(reg')
    BY <1>2, <2>1, <2>2, ReassignEffect
  <2>4. stats' \in Counters
    BY <1>1, <2>1, <2>2, CountTypes
  <2>. QED  BY <1>1, <1>3, <1>7, <1>8, <2>1, <2>3, <2>4, EndTypes, CoreParts
<1>15. CASE FinishRemoval(t)
  <2>1. /\ Live(t)
        /\ reg' = RemoveConnection(reg, c)
        /\ DropConnection(c)
        /\ EndTask(t, "completed", NoConn)
        /\ stats' = CountCompleted(stats, task[t].migrated)
        /\ recyclerState' = recyclerState
    BY <1>15 DEF FinishRemoval, Live, c
  <2>2. RegOK(reg')
    BY <1>4, <2>1, OrphanEffect
  <2>3. stats' \in Counters
    BY <1>1, <1>2, <2>1, CountTypes
  <2>. QED  BY <1>1, <1>3, <1>4, <1>8, <2>1, <2>2, <2>3, DropTypes, EndTypes, CoreParts
<1>16. CASE RemovalRaises(t)
  <2>1. /\ Live(t)
        /\ DropConnection(c)
        /\ \/ EndTask(t, "failed", NoConn) /\ stats' = CountFailed(stats)
           \/ EndTask(t, "completed", NoConn) /\ stats' = CountCompleted(stats, task[t].migrated)
        /\ reg' = reg /\ recyclerState' = recyclerState
    BY <1>16 DEF RemovalRaises, Live, c
  <2>2. stats' \in Counters
    BY <1>1, <1>2, <2>1, CountTypes
  <2>. QED  BY <1>1, <1>3, <1>4, <1>8, <2>1, <2>2, DropTypes, EndTypes, CoreParts
<1>. QED
  BY <1>9, <1>10, <1>11, <1>12, <1>13, <1>14, <1>15, <1>16 DEF RecycleStep

(* A check turns idle tasks of the monitor into waiting ones.              *)
LEMMA CheckEffect ==
    ASSUME Core, CheckAllConnections
    PROVE  /\ \A t \in Tasks :
                 \/ task'[t] = task[t]
                 \/ /\ t \in MonitorTasks
                    /\ task[t].pc = "idle"
                    /\ \E c \in Conns : task'[t] = At("waiting", c, NoConn, {}, 0)
           /\ RecyclerTypeOK' /\ LiveOnConnection'
           /\ recyclerState = "running"
           /\ UNCHANGED <<activeRecycles, stats, recyclerState, reg, poolVars>>
<1>1. /\ PoolTypeOK /\ RecyclerTypeOK /\ LiveOnConnection
      /\ task \in [Tasks -> RecycleTask]
  BY DEF Core, TypeOK, RecyclerTypeOK
<1>2. PICK f \in [Due -> MonitorTasks \cap With("idle")] :
          task' = [t \in Tasks |->
              IF \E c \in Due : f[c] = t
              THEN At("waiting", CHOOSE c \in Due : f[c] = t, NoConn, {}, 0)
              ELSE task[t]]
  BY DEF CheckAllConnections
<1>3. Due \subseteq Conns
  BY <1>1 DEF Due, PoolTypeOK
<1>4. ASSUME NEW c \in Conns
      PROVE  /\ At("waiting", c, NoConn, {}, 0) \in RecycleTask
             /\ At("waiting", c, NoConn, {}, 0).conn = c
  BY DEF At, RecycleTask
<1>5. \A t \in Tasks : \/ task'[t] = task[t]
                       \/ /\ t \in MonitorTasks
                          /\ task[t].pc = "idle"
                          /\ \E c \in Conns : task'[t] = At("waiting", c, NoConn, {}, 0)
  BY <1>2, <1>3 DEF With
<1>6. task' \in [Tasks -> RecycleTask]
  BY <1>1, <1>2, <1>3, <1>4
<1>7. LiveOnConnection'
  BY <1>1, <1>4, <1>5 DEF LiveOnConnection, Live
<1>8. /\ recyclerState = "running"
      /\ UNCHANGED <<activeRecycles, stats, recyclerState, reg, poolVars>>
  BY DEF CheckAllConnections
<1>. QED  BY <1>1, <1>5, <1>6, <1>7, <1>8 DEF RecyclerTypeOK

(* Cancelled, a task leaves its replacement behind if it was waiting to see*)
(* it healthy.                                                             *)
Cancelled(t) ==
    task'[t] = Ended("cancelled", IF task[t].pc = "stabilizing" THEN task[t].new ELSE NoConn)

(* A timeout cancels tasks of the monitor; the connections that lose their *)
(* assets are those whose removal is abandoned.                            *)
LEMMA TimeoutEffect ==
    ASSUME Core, RecyclerTimeout
    PROVE  /\ \A t \in Tasks :
                 \/ task'[t] = task[t]
                 \/ t \in MonitorTasks /\ Cancelled(t)
           /\ \E t \in Tasks : Cancelled(t)
           /\ \A c \in Conns :
                 \/ wsAssets'[c] = wsAssets[c]
                 \/ \E t \in With("removing") : task[t].conn = c
           /\ RecyclerTypeOK' /\ LiveOnConnection' /\ PoolTypeOK'
           /\ recyclerState = "stopping"
           /\ UNCHANGED <<stats, recyclerState, reg, pool, wsStatus, poolState>>
<1>1. /\ PoolTypeOK /\ RecyclerTypeOK /\ LiveOnConnection
      /\ task \in [Tasks -> RecycleTask]
  BY DEF Core, TypeOK, RecyclerTypeOK
<1>2. PICK survivors \in SUBSET (MonitorTasks \cap With("removing")) :
          LET cancelled == {t \in MonitorTasks \ survivors : Live(t)}
              abandoned == {task[t].conn : t \in cancelled \cap With("removing")}
              left == [t \in cancelled |-> IF t \in With("stabilizing") THEN task[t].new ELSE NoConn]
          IN  /\ recyclerState = "stopping"
              /\ cancelled # {}
              /\ task' = [t \in Tasks |-> IF t \in cancelled THEN Ended("cancelled", left[t]) ELSE task[t]]
              /\ activeRecycles' = activeRecycles \ {task[t].conn : t \in cancelled}
              /\ wsAssets' = [c \in Conns |-> IF c \in abandoned THEN {} ELSE wsAssets[c]]
              /\ createdAt' = [c \in Conns |-> IF c \in abandoned THEN 0 ELSE createdAt[c]]
              /\ UNCHANGED <<stats, recyclerState, reg, pool, wsStatus, poolState>>
  BY DEF RecyclerTimeout
<1>3. \A left \in Conns \cup {NoConn} :
          Ended("cancelled", left) \in RecycleTask /\ Ended("cancelled", left).pc = "cancelled"
  BY DEF Ended, At, RecycleTask
<1>0. \A t \in Tasks :
          (IF task[t].pc = "stabilizing" THEN task[t].new ELSE NoConn) \in Conns \cup {NoConn}
  BY <1>1 DEF RecycleTask
<1>5. /\ \A t \in Tasks : \/ task'[t] = task[t]
                          \/ t \in MonitorTasks /\ Cancelled(t)
      /\ \E t \in Tasks : Cancelled(t)
      /\ DOMAIN task' = Tasks
  BY <1>2 DEF Tasks, With, Cancelled
<1>9. \A t \in Tasks : Cancelled(t) => task'[t] \in RecycleTask /\ task'[t].pc = "cancelled"
  BY <1>0, <1>3 DEF Cancelled
<1>4. task' \in [Tasks -> RecycleTask]
  <2>1. task' = [t \in Tasks |-> task'[t]]
    BY <1>2
  <2>2. \A t \in Tasks : task'[t] \in RecycleTask
    BY <1>1, <1>5, <1>9
  <2>. QED
    BY <2>1, <2>2
<1>6. LiveOnConnection'
  BY <1>1, <1>5, <1>9 DEF LiveOnConnection, Live
<1>7. \A c \in Conns : \/ wsAssets'[c] = wsAssets[c]
                       \/ \E t \in With("removing") : task[t].conn = c
  BY <1>2
<1>8. /\ wsAssets' \in [Conns -> SUBSET Assets]
      /\ createdAt' \in [Conns -> Nat]
  BY <1>1, <1>2 DEF PoolTypeOK
<1>. QED  BY <1>1, <1>2, <1>4, <1>5, <1>6, <1>7, <1>8 DEF RecyclerTypeOK, PoolTypeOK

LEMMA CoreInit == Init => Core
<1>. SUFFICES ASSUME Init PROVE Core
  OBVIOUS
<1>1. reg = EmptyRegistry /\ RegistryInv(reg)
  BY EmptyRegistryInv DEF Init, RegistryInit
<1>2. QueueIsPending(reg)
  BY <1>1 DEF QueueIsPending, EmptyRegistry, HasStatus, NoEntry, Queued
<1>3. RegistryTypeOK
  BY <1>1 DEF RegistryTypeOK, RegistryInv
<1>4. PoolTypeOK
  BY DEF Init, PoolInit, PoolTypeOK, WsStatus
<1>5. RecyclerTypeOK /\ LiveOnConnection
  BY DEF Init, RecyclerInit, RecyclerTypeOK, RecycleTask, Ended, At, LiveOnConnection, Live
<1>6. LifecycleTypeOK /\ now \in Nat
  BY DEF Init, LifecycleInit, LifecycleTypeOK, ClockInit
<1>. QED  BY <1>1, <1>2, <1>3, <1>4, <1>5, <1>6 DEF Core, TypeOK, RegOK

LEMMA CoreStep == Core /\ [Next]_vars => Core'
<1>. SUFFICES ASSUME Core, [Next]_vars PROVE Core'
  OBVIOUS
<1>1. /\ RegOK(reg) /\ PoolTypeOK /\ RecyclerTypeOK /\ LifecycleTypeOK /\ LiveOnConnection
      /\ now \in Nat
  BY DEF Core, TypeOK
<1>2. UNCHANGED poolVars => PoolTypeOK'
  BY <1>1 DEF PoolTypeOK, poolVars
<1>3. UNCHANGED recyclerVars => RecyclerTypeOK' /\ LiveOnConnection'
  BY <1>1 DEF RecyclerTypeOK, recyclerVars, LiveOnConnection, Live
<1>4. UNCHANGED lifecycleVars => LifecycleTypeOK'
  BY <1>1 DEF LifecycleTypeOK, lifecycleVars
<1>5. CASE Tick
  <2>1. /\ now' \in Nat /\ reg' = reg
        /\ UNCHANGED poolVars /\ UNCHANGED recyclerVars /\ UNCHANGED lifecycleVars
    BY <1>1, <1>5 DEF Tick, Advance
  <2>. QED  BY <1>1, <1>2, <1>3, <1>4, <2>1, CoreParts
<1>6. ASSUME NEW c \in Conns, Network(c)
      PROVE  Core'
  <2>1. /\ now' = now /\ UNCHANGED recyclerVars /\ UNCHANGED lifecycleVars
        /\ GetHealthy(c) \/ GetUnhealthy(c)
    BY <1>6 DEF Network
  <2>. QED  BY <1>1, <1>3, <1>4, <2>1, OtherPoolTypes, CoreParts
<1>7. CASE PoolStep
  <2>1. /\ now' = now /\ UNCHANGED recyclerVars /\ UNCHANGED lifecycleVars
        /\ \E c \in FreshIds : ProcessPendingMarkets(c)
    BY <1>7 DEF PoolStep
  <2>2. PICK c \in FreshIds : ProcessPendingMarkets(c)
    BY <2>1
  <2>3. c \in Conns
    BY FreshFacts
  <2>4. /\ PendingBatch(reg, Target) \in SUBSET Assets
        /\ RegOK(reg')
        /\ OpenConnection(c, PendingBatch(reg, Target))
    BY <2>2, <2>3, BatchEffect
  <2>5. PoolTypeOK'
    BY <1>1, <2>3, <2>4, OpenTypes
  <2>. QED  BY <1>1, <1>3, <1>4, <2>1, <2>4, <2>5, CoreParts
<1>8. CASE LifecycleStep
  <2>1. /\ UNCHANGED poolVars /\ UNCHANGED recyclerVars
        /\ DiscoverMarkets \/ AddMarketManually \/ CheckExpirations \/ CleanupExpired
    BY <1>8 DEF LifecycleStep
  <2>2. RegOK(reg')
    BY <2>1, AddEffect, ExpireEffect, CleanupEffect
  <2>3. now' = now /\ LifecycleTypeOK'
    <3>1. CASE DiscoverMarkets
      BY <1>1, <3>1 DEF DiscoverMarkets, LifecycleTypeOK
    <3>2. CASE AddMarketManually
      BY <1>1, <3>2, MarketAssumption DEF AddMarketManually, LifecycleTypeOK
    <3>3. CASE CheckExpirations \/ CleanupExpired
      BY <1>1, <3>3 DEF CheckExpirations, CleanupExpired, LifecycleTypeOK
    <3>. QED  BY <2>1, <3>1, <3>2, <3>3
  <2>. QED  BY <1>1, <1>2, <1>3, <2>1, <2>2, <2>3, CoreParts
<1>9. CASE MonitorStep
  <2>1. now' = now /\ UNCHANGED lifecycleVars /\ CheckAllConnections
    BY <1>9 DEF MonitorStep
  <2>. QED  BY <1>1, <1>2, <1>4, <2>1, CheckEffect, CoreParts
<1>10. CASE ManualStep
  <2>1. PICK t \in ManualTasks, c \in Conns : ForceRecycle(t, c)
    BY <1>10 DEF ManualStep
  <2>2. /\ now' = now /\ UNCHANGED lifecycleVars /\ UNCHANGED poolVars /\ reg' = reg
        /\ UNCHANGED <<activeRecycles, stats, recyclerState>>
        /\ t \in Tasks
        /\ task' = [task EXCEPT ![t] = At("waiting", c, NoConn, {}, 0)]
    BY <1>10, <2>1 DEF ManualStep, ForceRecycle, Tasks
  <2>3. task' \in [Tasks -> RecycleTask] /\ LiveOnConnection'
    BY <1>1, <2>2, MoveTypes
  <2>4. RecyclerTypeOK'
    BY <1>1, <2>2, <2>3 DEF RecyclerTypeOK
  <2>. QED  BY <1>1, <1>2, <1>4, <2>2, <2>3, <2>4, CoreParts
<1>11. ASSUME NEW t \in Tasks, RecycleStep(t)
       PROVE  Core'
  BY <1>11, RecycleCore
<1>12. CASE StopRecycler
  <2>1. now' = now /\ UNCHANGED lifecycleVars
    BY <1>12 DEF StopRecycler
  <2>2. CASE RecyclerTimeout
    BY <1>1, <1>4, <2>1, <2>2, TimeoutEffect, CoreParts
  <2>3. CASE RecyclerStopBegin \/ RecyclerStopEnd
    <3>1. /\ reg' = reg /\ UNCHANGED poolVars /\ UNCHANGED <<task, activeRecycles, stats>>
          /\ recyclerState' \in {"running", "stopping", "stopped"}
      BY <2>3 DEF RecyclerStopBegin, RecyclerStopEnd
    <3>2. RecyclerTypeOK' /\ LiveOnConnection'
      BY <1>1, <3>1 DEF RecyclerTypeOK, LiveOnConnection, Live
    <3>. QED  BY <1>1, <1>2, <1>4, <2>1, <3>1, <3>2, CoreParts
  <2>. QED  BY <1>12, <2>2, <2>3 DEF StopRecycler
<1>13. CASE StopLifecycle
  <2>1. /\ reg' = reg /\ now' = now /\ UNCHANGED poolVars /\ UNCHANGED recyclerVars
        /\ LifecycleTypeOK'
    BY <1>1, <1>13 DEF StopLifecycle, LifecycleStop, LifecycleTypeOK
  <2>. QED  BY <1>1, <1>2, <1>3, <2>1, CoreParts
<1>14. CASE StopPool
  <2>1. /\ now' = now /\ UNCHANGED recyclerVars /\ UNCHANGED lifecycleVars
        /\ PoolStopBegin \/ PoolStopEnd
    BY <1>14 DEF StopPool
  <2>. QED  BY <1>1, <1>3, <1>4, <2>1, OtherPoolTypes, CoreParts
<1>15. CASE UNCHANGED vars
  <2>1. /\ now' = now /\ reg' = reg
        /\ UNCHANGED poolVars /\ UNCHANGED recyclerVars /\ UNCHANGED lifecycleVars
    BY <1>15 DEF vars
  <2>. QED  BY <1>1, <1>2, <1>3, <1>4, <2>1, CoreParts
<1>. QED
  BY <1>5, <1>6, <1>7, <1>8, <1>9, <1>10, <1>11, <1>12, <1>13, <1>14, <1>15 DEF Next, RunningNext, Shutdown

LEMMA CoreInvariant == Spec => []Core
<1>. QED  BY CoreInit, CoreStep, PTL DEF Spec

(* Registry, pool, recycler and controller keep their types.               *)
THEOREM ControlPlaneTypes == Spec => []TypeOK
<1>1. Core => TypeOK
  BY DEF Core
<1>. QED  BY <1>1, CoreInvariant, PTL

(* No PENDING asset is ever outside the pending queue, and the queue holds *)
(* no other asset: whatever is registered waits for a batch until it is    *)
(* subscribed.                                                             *)
THEOREM PendingIsQueuedAlways == Spec => []PendingIsQueued
<1>1. Core => PendingIsQueued
  BY DEF Core, RegOK, QueueIsPending, PendingIsQueued
<1>. QED  BY <1>1, CoreInvariant, PTL

-----------------------------------------------------------------------------
(* What the steps of a recycle do to the registry and to the pool.         *)

LEMMA BeginReplaceEffect ==
    ASSUME Core, NEW t \in Tasks, NEW new \in FreshIds, BeginReplace(t, new)
    PROVE  LET c == task[t].conn
               active == ActiveByConnection(reg, c)
           IN  /\ Live(t) /\ task[t].pc = "waiting"
               /\ c \in Conns
               /\ active \in SUBSET Assets
               /\ \A a \in active : HasStatus(reg, a, "SUBSCRIBED")
               /\ \/ /\ reg' = reg /\ UNCHANGED poolVars
                     /\ task' = [task EXCEPT ![t] = Ended("failed", NoConn)]
                  \/ /\ SubscribedTo(reg, reg', active, new)
                     /\ OpenConnection(new, active)
                     /\ task' = [task EXCEPT ![t] = At("stabilizing", c, new, active, 0)]
<1> DEFINE c == task[t].conn
           active == ActiveByConnection(reg, c)
<1>1. /\ Live(t) /\ task[t].pc = "waiting"
      /\ \/ EndTask(t, "failed", NoConn) /\ reg' = reg /\ UNCHANGED poolVars
         \/ /\ ForceSubscribe(active, new)
            /\ task' = [task EXCEPT ![t] = At("stabilizing", c, new, active, 0)]
  BY DEF BeginReplace, Acquire, Live
<1>2. c \in Conns /\ new \in Conns
  BY <1>1, FreshFacts DEF Core, LiveOnConnection
<1>. HIDE DEF c
<1>3. active \in SUBSET Assets /\ \A a \in active : HasStatus(reg, a, "SUBSCRIBED")
  BY <1>2, CoreFacts DEF ActiveByConnection
<1>. HIDE DEF active
<1>4. ForceSubscribe(active, new) => SubscribedTo(reg, reg', active, new) /\ OpenConnection(new, active)
  BY <1>2, <1>3, ForceSubscribeEffect
<1>5. EndTask(t, "failed", NoConn) => task' = [task EXCEPT ![t] = Ended("failed", NoConn)]
  BY DEF EndTask
<1>. QED  BY <1>1, <1>2, <1>3, <1>4, <1>5 DEF c, active

LEMMA CutOverEffect ==
    ASSUME Core, NEW t \in Tasks, CutOver(t) \/ CutOverGone(t)
    PROVE  LET c == task[t].conn
               new == task[t].new
           IN  /\ Live(t) /\ task[t].pc = "stabilizing"
               /\ c \in Conns /\ new \in Conns
               /\ new \in pool /\ wsStatus[new] = "HEALTHY"
               /\ Moved(reg, reg', Reassignable(reg, task[t].active, c), new)
<1>1. /\ Live(t) /\ task[t].pc = "stabilizing"
      /\ task[t].new \in pool /\ wsStatus[task[t].new] = "HEALTHY"
      /\ reg' = ReassignConnection(reg, task[t].active, task[t].conn, task[t].new)
  BY DEF CutOver, CutOverGone, ReplacementHealthy, Live
<1>2. /\ task[t].conn \in Conns /\ task[t].new \in Conns
      /\ task[t].active \in SUBSET Assets
  BY <1>1 DEF Core, LiveOnConnection, TypeOK, PoolTypeOK, RecyclerTypeOK, RecycleTask
<1>. QED  BY <1>1, <1>2, ReassignEffect

LEMMA FinishRemovalEffect ==
    ASSUME Core, NEW t \in Tasks, FinishRemoval(t)
    PROVE  LET c == task[t].conn
           IN  /\ task[t].pc = "removing"
               /\ c \in Conns
               /\ Orphaned(reg, reg', c)
               /\ DropConnection(c)
               /\ task' = [task EXCEPT ![t] = Ended("completed", NoConn)]
<1>1. /\ Live(t) /\ task[t].pc = "removing"
      /\ reg' = RemoveConnection(reg, task[t].conn)
      /\ DropConnection(task[t].conn)
      /\ task' = [task EXCEPT ![t] = Ended("completed", NoConn)]
  BY DEF FinishRemoval, Live, EndTask
<1>2. task[t].conn \in Conns
  BY <1>1 DEF Core, LiveOnConnection
<1>. QED  BY <1>1, <1>2, OrphanEffect

-----------------------------------------------------------------------------
(* Statuses.                                                               *)

Forward(r, after) ==
    \A a \in Assets :
        LET from == r.assets[a].status
            to == after.assets[a].status
        IN  from # to => <<from, to>> \in {<<"ABSENT", "PENDING">>, <<"PENDING", "SUBSCRIBED">>,
                                           <<"SUBSCRIBED", "EXPIRED">>, <<"EXPIRED", "ABSENT">>}

LEMMA ForwardStep == Core /\ [Next]_vars => Forward(reg, reg')
<1>. SUFFICES ASSUME Core, [Next]_vars PROVE Forward(reg, reg')
  OBVIOUS
<1>1. reg' = reg => Forward(reg, reg')
  BY DEF Forward
<1>2. CASE PoolStep
  <2>1. PICK c \in FreshIds : ProcessPendingMarkets(c)
    BY <1>2 DEF PoolStep
  <2>2. PICK S \in SUBSET Assets : /\ \A a \in S : HasStatus(reg, a, "PENDING")
                                   /\ SubscribedTo(reg, reg', S, c)
    BY <2>1, FreshFacts, BatchEffect
  <2>. QED  BY <2>2 DEF SubscribedTo, Forward, HasStatus
<1>3. CASE LifecycleStep
  <2>1. CASE DiscoverMarkets \/ AddMarketManually
    <3>1. PICK S \in SUBSET (Assets \ Tracked(reg)) : Pended(reg, reg', S)
      BY <2>1, AddEffect
    <3>. QED  BY <3>1 DEF Pended, Forward, Tracked
  <2>2. CASE CheckExpirations
    <3>1. PICK S \in SUBSET {a \in Assets : HasStatus(reg, a, "SUBSCRIBED")} : ExpiredNow(reg, reg', S)
      BY <2>2, ExpireEffect
    <3>. QED  BY <3>1 DEF ExpiredNow, Forward, HasStatus
  <2>3. CASE CleanupExpired
    <3>1. PICK S \in SUBSET {a \in Assets : HasStatus(reg, a, "EXPIRED")} : Removed(reg, reg', S)
      BY <2>3, CleanupEffect
    <3>. QED  BY <3>1 DEF Removed, Forward, HasStatus, NoEntry
  <2>. QED  BY <1>3, <2>1, <2>2, <2>3 DEF LifecycleStep
<1>4. ASSUME NEW t \in Tasks, RecycleStep(t)
      PROVE  Forward(reg, reg')
  <2>1. ASSUME NEW new \in FreshIds, BeginReplace(t, new)
        PROVE  Forward(reg, reg')
    <3> DEFINE active == ActiveByConnection(reg, task[t].conn)
    <3>1. /\ \A a \in active : HasStatus(reg, a, "SUBSCRIBED")
          /\ reg' = reg \/ SubscribedTo(reg, reg', active, new)
      BY <2>1, BeginReplaceEffect
    <3>. HIDE DEF active
    <3>. QED  BY <1>1, <3>1 DEF SubscribedTo, Forward, HasStatus
  <2>2. CASE CutOver(t) \/ CutOverGone(t)
    BY <2>2, CutOverEffect DEF Moved, Forward
  <2>3. CASE FinishRemoval(t)
    BY <2>3, FinishRemovalEffect DEF Orphaned, Forward
  <2>4. CASE BeginGone(t) \/ BeginEmpty(t) \/ AbortUnhealthy(t) \/ RemovalRaises(t)
    BY <1>1, <2>4 DEF BeginGone, BeginEmpty, AbortUnhealthy, RemovalRaises
  <2>. QED  BY <1>4, <2>1, <2>2, <2>3, <2>4 DEF RecycleStep
<1>5. CASE Tick \/ MonitorStep \/ ManualStep \/ Shutdown \/ \E c \in Conns : Network(c)
  BY <1>1, <1>5 DEF Tick, MonitorStep, CheckAllConnections, ManualStep, ForceRecycle, Shutdown,
     StopRecycler, RecyclerStopBegin, RecyclerTimeout, RecyclerStopEnd, StopLifecycle, LifecycleStop,
     StopPool, PoolStopBegin, PoolStopEnd, Network, GetHealthy, GetUnhealthy
<1>6. CASE UNCHANGED vars
  BY <1>1, <1>6 DEF vars
<1>. QED  BY <1>2, <1>3, <1>4, <1>5, <1>6 DEF Next, RunningNext

(* An asset goes from PENDING to SUBSCRIBED to EXPIRED and out, and never  *)
(* back: no recycle brings an expired asset back, no batch subscribes one, *)
(* and only expired assets are removed.                                    *)
THEOREM StatusesOnlyMoveForward == Spec => StatusOnlyForward
<1>1. Core /\ [Next]_vars =>
        [\A a \in Assets :
          LET from == reg.assets[a].status
              to == reg'.assets[a].status
          IN  from # to => <<from, to>> \in {<<"ABSENT", "PENDING">>, <<"PENDING", "SUBSCRIBED">>,
                                             <<"SUBSCRIBED", "EXPIRED">>, <<"EXPIRED", "ABSENT">>}]_vars
  BY ForwardStep DEF Forward
<1>. QED  BY <1>1, CoreInvariant, PTL DEF Spec, StatusOnlyForward

-----------------------------------------------------------------------------
(* The counters of the recycler.                                           *)

InSlots(tasks) == {t \in Tasks : tasks[t].pc \in {"stabilizing", "removing"}}

Uncancelled(tasks) == \A t \in Tasks : tasks[t].pc # "cancelled"

Balanced(s, tasks) ==
    Uncancelled(tasks) => s.initiated = s.completed + s.failed + Cardinality(InSlots(tasks))

LEMMA BalancedIsAccount == StatsAccount <=> Balanced(stats, task)
<1>1. InFlight = InSlots(task)
  BY DEF InFlight, With, InSlots
<1>2. With("cancelled") = {} <=> Uncancelled(task)
  BY DEF With, Uncancelled
<1>. QED  BY <1>1, <1>2 DEF StatsAccount, Balanced

LEMMA SlotsFinite ==
    ASSUME NEW tasks
    PROVE  IsFiniteSet(InSlots(tasks)) /\ Cardinality(InSlots(tasks)) \in Nat
<1>1. IsFiniteSet(Tasks)
  BY FiniteTasksAssumption, FS_Union DEF Tasks
<1>. QED  BY <1>1, FS_Subset, FS_CardinalityType DEF InSlots

(* One task changes: what that does to the holders of the semaphore.       *)
Becomes(tasks, after, t, x) == after = [tasks EXCEPT ![t] = x]

LEMMA SlotsAfter ==
    ASSUME NEW tasks \in [Tasks -> RecycleTask], NEW t \in Tasks, NEW x, tasks[t].pc # "cancelled",
           NEW after, Becomes(tasks, after, t, x)
    PROVE  /\ Uncancelled(after) => Uncancelled(tasks)
           /\ ~(tasks[t].pc \in {"stabilizing", "removing"}) /\ x.pc \in {"stabilizing", "removing"} =>
                 Cardinality(InSlots(after)) = Cardinality(InSlots(tasks)) + 1
           /\ tasks[t].pc \in {"stabilizing", "removing"} /\ ~(x.pc \in {"stabilizing", "removing"}) =>
                 Cardinality(InSlots(after)) = Cardinality(InSlots(tasks)) - 1
           /\ (tasks[t].pc \in {"stabilizing", "removing"} <=> x.pc \in {"stabilizing", "removing"}) =>
                 Cardinality(InSlots(after)) = Cardinality(InSlots(tasks))
<1>1. \A u \in Tasks : after[u] = IF u = t THEN x ELSE tasks[u]
  BY DEF Becomes
<1>2. Uncancelled(after) => Uncancelled(tasks)
  BY <1>1 DEF Uncancelled
<1>3. IsFiniteSet(InSlots(tasks))
  BY SlotsFinite
<1>4. CASE t \notin InSlots(tasks) /\ x.pc \in {"stabilizing", "removing"}
  <2>1. InSlots(after) = InSlots(tasks) \cup {t}
    BY <1>1, <1>4 DEF InSlots
  <2>2. Cardinality(InSlots(tasks) \cup {t}) = Cardinality(InSlots(tasks)) + 1
    BY <1>3, <1>4, FS_AddElement
  <2>. QED  BY <1>2, <1>4, <2>1, <2>2 DEF InSlots
<1>5. CASE t \in InSlots(tasks) /\ ~(x.pc \in {"stabilizing", "removing"})
  <2>1. InSlots(after) = InSlots(tasks) \ {t}
    BY <1>1, <1>5 DEF InSlots
  <2>2. Cardinality(InSlots(tasks) \ {t}) = Cardinality(InSlots(tasks)) - 1
    BY <1>3, <1>5, FS_RemoveElement
  <2>. QED  BY <1>2, <1>5, <2>1, <2>2 DEF InSlots
<1>6. CASE t \in InSlots(tasks) <=> x.pc \in {"stabilizing", "removing"}
  <2>1. InSlots(after) = InSlots(tasks)
    BY <1>1, <1>6 DEF InSlots
  <2>. QED  BY <1>2, <1>6, <2>1 DEF InSlots
<1>. QED  BY <1>4, <1>5, <1>6

LEMMA BalancedRecycle ==
    ASSUME Core, Balanced(stats, task), NEW t \in Tasks, RecycleStep(t)
    PROVE  Balanced(stats', task')
<1> DEFINE c == task[t].conn
           n == Cardinality(InSlots(task))
           slots == {"stabilizing", "removing"}
<1>1. /\ task \in [Tasks -> RecycleTask]
      /\ stats.initiated \in Nat /\ stats.completed \in Nat /\ stats.failed \in Nat
      /\ n \in Nat
  BY SlotsFinite DEF Core, TypeOK, RecyclerTypeOK
<1>2. \A pc \in {"completed", "failed"} : \A left : ~(Ended(pc, left).pc \in slots)
  BY DEF Ended, At
<1>3. \A pc \in slots : \A x, y, z, w : At(pc, x, y, z, w).pc \in slots
  BY DEF At
<1>4. /\ CountInitiated(stats).initiated = stats.initiated + 1
      /\ CountInitiated(stats).completed = stats.completed
      /\ CountInitiated(stats).failed = stats.failed
      /\ CountFailed(stats).initiated = stats.initiated
      /\ CountFailed(stats).completed = stats.completed
      /\ CountFailed(stats).failed = stats.failed + 1
  BY DEF CountInitiated, CountFailed
<1>5. \A i : /\ CountCompleted(stats, i).initiated = stats.initiated
             /\ CountCompleted(stats, i).completed = stats.completed + 1
             /\ CountCompleted(stats, i).failed = stats.failed
  BY DEF CountCompleted
<1>6. /\ CountCompleted(CountInitiated(stats), 0).initiated = stats.initiated + 1
      /\ CountCompleted(CountInitiated(stats), 0).completed = stats.completed + 1
      /\ CountCompleted(CountInitiated(stats), 0).failed = stats.failed
      /\ CountFailed(CountInitiated(stats)).initiated = stats.initiated + 1
      /\ CountFailed(CountInitiated(stats)).completed = stats.completed
      /\ CountFailed(CountInitiated(stats)).failed = stats.failed + 1
  BY DEF CountInitiated, CountFailed, CountCompleted
<1>. HIDE DEF c, n
(* Begun and ended at once.                                                *)
<1>7. ASSUME task[t].pc = "waiting", NEW pc \in {"completed", "failed"}, NEW left,
             task' = [task EXCEPT ![t] = Ended(pc, left)],
             \/ stats' = CountCompleted(CountInitiated(stats), 0)
             \/ stats' = CountFailed(CountInitiated(stats))
      PROVE  Balanced(stats', task')
  <2>0. /\ task[t].pc \notin slots /\ task[t].pc # "cancelled"
        /\ Ended(pc, left).pc \notin slots
        /\ Becomes(task, task', t, Ended(pc, left))
    BY <1>2, <1>7 DEF Becomes
  <2>1. /\ Uncancelled(task') => Uncancelled(task)
        /\ Cardinality(InSlots(task')) = n
    BY <1>1, <1>7, <2>0, SlotsAfter DEF n
  <2>2. /\ stats'.initiated = stats.initiated + 1
        /\ stats'.completed + stats'.failed = stats.completed + stats.failed + 1
    BY <1>1, <1>6, <1>7
  <2>. QED  BY <1>1, <2>1, <2>2 DEF Balanced, n
(* Begun.                                                                  *)
<1>8. ASSUME task[t].pc = "waiting", NEW pc \in slots, NEW x, NEW y, NEW z, NEW w,
             task' = [task EXCEPT ![t] = At(pc, x, y, z, w)],
             stats' = CountInitiated(stats)
      PROVE  Balanced(stats', task')
  <2>0. /\ task[t].pc \notin slots /\ task[t].pc # "cancelled"
        /\ At(pc, x, y, z, w).pc \in slots
        /\ Becomes(task, task', t, At(pc, x, y, z, w))
    BY <1>3, <1>8 DEF Becomes
  <2>1. /\ Uncancelled(task') => Uncancelled(task)
        /\ Cardinality(InSlots(task')) = n + 1
    BY <1>1, <1>8, <2>0, SlotsAfter DEF n
  <2>2. /\ stats'.initiated = stats.initiated + 1
        /\ stats'.completed = stats.completed /\ stats'.failed = stats.failed
    BY <1>4, <1>8
  <2>. QED  BY <1>1, <2>1, <2>2 DEF Balanced, n
(* Ended.                                                                  *)
<1>9. ASSUME task[t].pc \in slots, NEW pc \in {"completed", "failed"}, NEW left,
             task' = [task EXCEPT ![t] = Ended(pc, left)],
             \/ stats' = CountFailed(stats)
             \/ \E i : stats' = CountCompleted(stats, i)
      PROVE  Balanced(stats', task')
  <2>0. /\ task[t].pc \in slots /\ task[t].pc # "cancelled"
        /\ Ended(pc, left).pc \notin slots
        /\ Becomes(task, task', t, Ended(pc, left))
    BY <1>2, <1>9 DEF Becomes
  <2>1. /\ Uncancelled(task') => Uncancelled(task)
        /\ Cardinality(InSlots(task')) = n - 1
    BY <1>1, <1>9, <2>0, SlotsAfter DEF n
  <2>2. /\ stats'.initiated = stats.initiated
        /\ stats'.completed + stats'.failed = stats.completed + stats.failed + 1
    BY <1>1, <1>4, <1>5, <1>9
  <2>. QED  BY <1>1, <2>1, <2>2 DEF Balanced, n
<1>10. CASE BeginGone(t)
  BY <1>7, <1>10 DEF BeginGone, Acquire, EndTask
<1>11. CASE BeginEmpty(t)
  BY <1>8, <1>11 DEF BeginEmpty, Acquire
<1>12. ASSUME NEW new \in FreshIds, BeginReplace(t, new)
       PROVE  Balanced(stats', task')
  <2>1. /\ task[t].pc = "waiting"
        /\ \/ /\ task' = [task EXCEPT ![t] = Ended("failed", NoConn)]
              /\ stats' = CountFailed(CountInitiated(stats))
           \/ /\ task' = [task EXCEPT ![t] =
                     At("stabilizing", c, new, ActiveByConnection(reg, c), 0)]
              /\ stats' = CountInitiated(stats)
    BY <1>12 DEF BeginReplace, Acquire, EndTask, c
  <2>. QED  BY <1>7, <1>8, <2>1
<1>13. CASE AbortUnhealthy(t)
  BY <1>9, <1>13 DEF AbortUnhealthy, EndTask
<1>14. CASE CutOver(t)
  <2>1. /\ task[t].pc = "stabilizing"
        /\ stats' = stats
        /\ \E x, y, z, w : task' = [task EXCEPT ![t] = At("removing", x, y, z, w)]
    BY <1>14 DEF CutOver
  <2>2. PICK x, y, z, w : task' = [task EXCEPT ![t] = At("removing", x, y, z, w)]
    BY <2>1
  <2>. DEFINE x1 == At("removing", x, y, z, w)
  <2>3. /\ task[t].pc \in slots /\ task[t].pc # "cancelled" /\ x1.pc \in slots
        /\ Becomes(task, task', t, x1)
    BY <1>3, <2>1, <2>2 DEF Becomes
  <2>. HIDE DEF x1
  <2>4. /\ Uncancelled(task') => Uncancelled(task)
        /\ Cardinality(InSlots(task')) = n
    BY <1>1, <2>3, SlotsAfter DEF n
  <2>. QED  BY <2>1, <2>4 DEF Balanced, n
<1>15. CASE CutOverGone(t)
  BY <1>9, <1>15 DEF CutOverGone, EndTask
<1>16. CASE FinishRemoval(t)
  BY <1>9, <1>16 DEF FinishRemoval, EndTask
<1>17. CASE RemovalRaises(t)
  BY <1>9, <1>17 DEF RemovalRaises, EndTask
<1>. QED
  BY <1>10, <1>11, <1>12, <1>13, <1>14, <1>15, <1>16, <1>17 DEF RecycleStep

LEMMA BalancedStep == Core /\ Balanced(stats, task) /\ [Next]_vars => Balanced(stats', task')
<1>. SUFFICES ASSUME Core, Balanced(stats, task), [Next]_vars PROVE Balanced(stats', task')
  OBVIOUS
<1>0. task \in [Tasks -> RecycleTask]
  BY DEF Core, TypeOK, RecyclerTypeOK
<1>1. UNCHANGED <<task, stats>> => Balanced(stats', task')
  OBVIOUS
<1>2. ASSUME stats' = stats,
             \A t \in Tasks : \/ task'[t] = task[t]
                              \/ /\ task[t].pc = "idle"
                                 /\ task'[t].pc = "waiting"
      PROVE  Balanced(stats', task')
  <2>1. InSlots(task') = InSlots(task)
    BY <1>2 DEF InSlots
  <2>2. Uncancelled(task') => Uncancelled(task)
    BY <1>2 DEF Uncancelled
  <2>. QED  BY <1>2, <2>1, <2>2 DEF Balanced
<1>3. CASE MonitorStep
  <2>1. \A c : At("waiting", c, NoConn, {}, 0).pc = "waiting"
    BY DEF At
  <2>2. /\ stats' = stats
        /\ \A t \in Tasks : \/ task'[t] = task[t]
                            \/ /\ task[t].pc = "idle"
                               /\ \E c \in Conns : task'[t] = At("waiting", c, NoConn, {}, 0)
    BY <1>3, CheckEffect DEF MonitorStep
  <2>. QED  BY <1>2, <2>1, <2>2
<1>4. CASE ManualStep
  <2>1. PICK t \in Tasks, c \in Conns : /\ stats' = stats /\ task[t].pc = "idle"
                                        /\ task' = [task EXCEPT ![t] = At("waiting", c, NoConn, {}, 0)]
    BY <1>4 DEF ManualStep, ForceRecycle, Tasks
  <2>2. At("waiting", c, NoConn, {}, 0).pc = "waiting"
    BY DEF At
  <2>. QED  BY <1>0, <1>2, <2>1, <2>2
<1>5. ASSUME NEW t \in Tasks, RecycleStep(t)
      PROVE  Balanced(stats', task')
  BY <1>5, BalancedRecycle
<1>6. CASE StopRecycler
  <2>1. CASE RecyclerTimeout
    <3>1. \E t \in Tasks : Cancelled(t)
      BY <2>1, TimeoutEffect
    <3>2. \A left : Ended("cancelled", left).pc = "cancelled"
      BY DEF Ended, At
    <3>3. ~Uncancelled(task')
      BY <3>1, <3>2 DEF Uncancelled, Cancelled
    <3>. QED  BY <3>3 DEF Balanced
  <2>2. CASE RecyclerStopBegin \/ RecyclerStopEnd
    BY <1>1, <2>2 DEF RecyclerStopBegin, RecyclerStopEnd
  <2>. QED  BY <1>6, <2>1, <2>2 DEF StopRecycler
<1>7. CASE \/ Tick \/ PoolStep \/ LifecycleStep \/ StopLifecycle \/ StopPool \/ UNCHANGED vars
           \/ \E c \in Conns : Network(c)
  BY <1>1, <1>7 DEF Tick, PoolStep, LifecycleStep, StopLifecycle, StopPool, Network, vars, recyclerVars
<1>. QED  BY <1>3, <1>4, <1>5, <1>6, <1>7 DEF Next, RunningNext, Shutdown

(* However many recycles run at once, and on whichever path each of them   *)
(* ends, none is counted twice and none is forgotten.                      *)
THEOREM RecyclesAccountedFor == Spec => []StatsAccount
<1>1. Init => StatsAccount
  <2>. SUFFICES ASSUME Init PROVE Balanced(stats, task)
    BY BalancedIsAccount
  <2>1. InSlots(task) = {}
    BY DEF Init, RecyclerInit, InSlots, Ended, At
  <2>2. Cardinality(InSlots(task)) = 0
    BY <2>1, FS_EmptySet
  <2>. QED  BY <2>2 DEF Init, RecyclerInit, Balanced
<1>2. StatsAccount /\ Core /\ [Next]_vars => StatsAccount'
  <2>1. Balanced(stats', task') => StatsAccount'
    BY DEF Balanced, StatsAccount, Uncancelled, With, InFlight, InSlots
  <2>. QED  BY <2>1, BalancedIsAccount, BalancedStep
<1>. QED  BY <1>1, <1>2, CoreInvariant, PTL DEF Spec

-----------------------------------------------------------------------------
(* The kinds of steps.  For the assets that are SUBSCRIBED and the         *)
(* connections of the pool, all but five kinds of steps change nothing that*)
(* matters: the network comes and goes, assets expire, tasks end.          *)

Slots == {"stabilizing", "removing"}

(* Where the replacement of a task has been seen healthy.                  *)
Tried == {"removing", "completed"}

(* No task takes the semaphore.                                            *)
CalmTasks ==
    \A t \in Tasks :
        /\ task'[t].pc \in Slots => task'[t] = task[t]
        /\ \/ task'[t].new = NoConn
           \/ task'[t].new = task[t].new /\ (task[t].pc \in Tried => task'[t].pc \in Tried)

(* No connection enters or leaves the pool, is closed or loses its assets. *)
CalmPool ==
    /\ pool' = pool /\ poolState' = poolState
    /\ \A c \in Conns : /\ c \in pool => wsAssets'[c] = wsAssets[c]
                        /\ wsStatus'[c] = "CLOSED" <=> wsStatus[c] = "CLOSED"

(* Whoever is SUBSCRIBED was so, and where it was.                         *)
CalmRegistry ==
    \A a \in Assets : HasStatus(reg', a, "SUBSCRIBED") =>
        /\ HasStatus(reg, a, "SUBSCRIBED")
        /\ reg'.assets[a].conn = reg.assets[a].conn
        /\ \A c \in pool : a \in reg.byConnection[c] => a \in reg'.byConnection[c]

Calm == CalmTasks /\ CalmPool /\ CalmRegistry

(* A batch of PENDING assets gets a connection.                            *)
Batched(c) ==
    /\ poolState = "running"
    /\ task' = task
    /\ OpenConnection(c, PendingBatch(reg, Target))
    /\ SubscribedTo(reg, reg', PendingBatch(reg, Target), c)

(* A recycle opens a replacement.                                          *)
Replaced(t, new) ==
    LET c == task[t].conn
        active == ActiveByConnection(reg, c)
    IN  /\ task[t].pc = "waiting"
        /\ c \in Conns
        /\ OpenConnection(new, active)
        /\ SubscribedTo(reg, reg', active, new)
        /\ task' = [task EXCEPT ![t] = At("stabilizing", c, new, active, 0)]

(* A recycle takes a connection without SUBSCRIBED assets from the pool.   *)
Emptied(t) ==
    LET c == task[t].conn
    IN  /\ task[t].pc = "waiting"
        /\ c \in pool
        /\ ActiveByConnection(reg, c) = {}
        /\ PopConnection(c)
        /\ reg' = reg
        /\ task' = [task EXCEPT ![t] = At("removing", c, NoConn, {}, 0)]

(* A recycle takes a connection from the pool whose replacement works.     *)
HandedOver(t) ==
    LET c == task[t].conn
    IN  /\ task[t].pc = "stabilizing"
        /\ ReplacementHealthy(t)
        /\ c \in pool
        /\ PopConnection(c)
        /\ CalmRegistry
        /\ \E n \in Nat : task' = [task EXCEPT ![t] =
               At("removing", c, task[t].new, task[t].active, n)]

(* The pool stops.                                                         *)
Stopped == (PoolStopBegin \/ PoolStopEnd) /\ task' = task

(* The tasks that hold the semaphore: the replacement of one that waits    *)
(* for it is its own, and carries what the task took; the connection of one*)
(* that removes it has left the pool.                                      *)
TasksOK ==
    /\ \A t \in With("stabilizing") :
          /\ task[t].new \in Conns /\ task[t].new # task[t].conn
          /\ task[t].new \in pool => wsAssets[task[t].new] = task[t].active
    /\ \A t \in With("stabilizing"), u \in Tasks : task[t].new = task[u].new => t = u
    /\ \A t \in With("removing") : task[t].conn \notin pool

(* No SUBSCRIBED asset points at a connection that is being recycled.      *)
Drained ==
    \A t \in InFlight : \A a \in Assets :
        HasStatus(reg, a, "SUBSCRIBED") => reg.assets[a].conn # task[t].conn

Recycling == Core /\ TasksOK /\ Drained

LEMMA CalmStutter == UNCHANGED <<task, poolVars, reg>> => Calm
BY DEF Calm, CalmTasks, CalmPool, CalmRegistry, poolVars

LEMMA CalmRecycle ==
    ASSUME Recycling, NEW t \in Tasks, RecycleStep(t)
    PROVE  \/ Calm
           \/ \E new \in FreshIds : Replaced(t, new)
           \/ Emptied(t)
           \/ HandedOver(t)
<1> DEFINE c == task[t].conn
<1>1. /\ task \in [Tasks -> RecycleTask] /\ pool \in SUBSET Conns
      /\ wsAssets \in [Conns -> SUBSET Assets]
  BY DEF Recycling, Core, TypeOK, RecyclerTypeOK, PoolTypeOK
<1>2. UNCHANGED poolVars => CalmPool
  BY DEF CalmPool, poolVars
<1>3. reg' = reg => CalmRegistry
  BY DEF CalmRegistry
<1>4. ASSUME NEW pc \in {"completed", "failed"}, NEW left,
             task' = [task EXCEPT ![t] = Ended(pc, left)],
             left = NoConn \/ (left = task[t].new /\ task[t].pc \notin Tried)
      PROVE  CalmTasks
  <2>1. Ended(pc, left).pc = pc /\ Ended(pc, left).new = left
    BY DEF Ended, At
  <2>2. /\ task'[t].pc = pc /\ task'[t].new = left
        /\ \A u \in Tasks : u # t => task'[u] = task[u]
    BY <1>1, <1>4, <2>1
  <2>. QED  BY <1>4, <2>2 DEF CalmTasks, Slots, Tried
<1>5. task[t].pc \in Slots => \A a \in Assets : HasStatus(reg, a, "SUBSCRIBED") => reg.assets[a].conn # c
  BY DEF Recycling, Drained, InFlight, With, Slots
<1>. HIDE DEF c
<1>6. CutOver(t) \/ CutOverGone(t) => CalmRegistry
  <2>. SUFFICES ASSUME CutOver(t) \/ CutOverGone(t) PROVE CalmRegistry
    OBVIOUS
  <2>1. /\ task[t].pc = "stabilizing"
        /\ Moved(reg, reg', Reassignable(reg, task[t].active, c), task[t].new)
    BY CutOverEffect DEF Recycling, c
  <2>2. \A a \in Reassignable(reg, task[t].active, c) : ~HasStatus(reg, a, "SUBSCRIBED")
    BY <1>5, <2>1 DEF Reassignable, Tracked, Slots
  <2>. QED  BY <1>1, <2>1, <2>2 DEF CalmRegistry, Moved, HasStatus
<1>7. task[t].pc = "removing" => c \notin pool
  BY DEF Recycling, TasksOK, With, c
<1>8. task[t].pc = "removing" /\ DropConnection(c) => CalmPool
  BY <1>1, <1>7 DEF DropConnection, CalmPool
<1>9. CASE BeginGone(t)
  BY <1>2, <1>3, <1>4, <1>9 DEF BeginGone, EndTask, Calm
<1>10. CASE BeginEmpty(t)
  BY <1>10 DEF BeginEmpty, Acquire, Emptied
<1>11. ASSUME NEW new \in FreshIds, BeginReplace(t, new)
       PROVE  Calm \/ Replaced(t, new)
  BY <1>2, <1>3, <1>4, <1>11, BeginReplaceEffect DEF Recycling, Calm, Replaced
<1>12. CASE AbortUnhealthy(t)
  BY <1>2, <1>3, <1>4, <1>12 DEF AbortUnhealthy, EndTask, Calm, Tried
<1>13. CASE CutOver(t)
  <2> DEFINE n == Cardinality(Reassignable(reg, task[t].active, task[t].conn))
  <2>1. n \in Nat
    BY AssetsAssumption, FS_Subset, FS_CardinalityType DEF Reassignable, Tracked
  <2>2. task' = [task EXCEPT ![t] = At("removing", task[t].conn, task[t].new, task[t].active, n)]
    BY <1>13 DEF CutOver
  <2>. HIDE DEF n
  <2>3. \E k \in Nat : task' = [task EXCEPT ![t] =
            At("removing", task[t].conn, task[t].new, task[t].active, k)]
    BY <2>1, <2>2
  <2>. QED  BY <1>6, <1>13, <2>3 DEF CutOver, HandedOver
<1>14. CASE CutOverGone(t)
  BY <1>2, <1>4, <1>6, <1>14 DEF CutOverGone, EndTask, Calm
<1>15. CASE FinishRemoval(t)
  <2>1. /\ task[t].pc = "removing"
        /\ Orphaned(reg, reg', c) /\ DropConnection(c)
        /\ task' = [task EXCEPT ![t] = Ended("completed", NoConn)]
    BY <1>15, FinishRemovalEffect DEF Recycling, c
  <2>2. CalmRegistry
    BY <1>1, <1>5, <1>7, <2>1 DEF CalmRegistry, Orphaned, HasStatus, Slots
  <2>. QED  BY <1>4, <1>8, <2>1, <2>2 DEF Calm
<1>16. CASE RemovalRaises(t)
  BY <1>3, <1>4, <1>8, <1>16 DEF RemovalRaises, EndTask, Calm, c
<1>. QED
  BY <1>9, <1>10, <1>11, <1>12, <1>13, <1>14, <1>15, <1>16 DEF RecycleStep

LEMMA CalmLifecycle == Core /\ LifecycleStep => CalmRegistry
<1>. SUFFICES ASSUME Core, LifecycleStep PROVE CalmRegistry
  OBVIOUS
<1>0. pool \in SUBSET Conns
  BY DEF Core, TypeOK, PoolTypeOK
<1>1. CASE DiscoverMarkets \/ AddMarketManually
  <2>1. PICK S \in SUBSET (Assets \ Tracked(reg)) : Pended(reg, reg', S)
    BY <1>1, AddEffect
  <2>. QED  BY <2>1 DEF Pended, CalmRegistry, HasStatus
<1>2. CASE CheckExpirations
  <2>1. PICK S \in SUBSET {a \in Assets : HasStatus(reg, a, "SUBSCRIBED")} : ExpiredNow(reg, reg', S)
    BY <1>2, ExpireEffect
  <2>. QED  BY <2>1 DEF ExpiredNow, CalmRegistry, HasStatus
<1>3. CASE CleanupExpired
  <2>1. PICK S \in SUBSET {a \in Assets : HasStatus(reg, a, "EXPIRED")} : Removed(reg, reg', S)
    BY <1>3, CleanupEffect
  <2>2. NoEntry.status # "SUBSCRIBED"
    BY DEF NoEntry
  <2>. QED  BY <1>0, <2>1, <2>2 DEF Removed, CalmRegistry, HasStatus
<1>. QED  BY <1>1, <1>2, <1>3 DEF LifecycleStep

(* A step is of one of the six kinds.                                      *)
LEMMA Kinds ==
    ASSUME Recycling, [Next]_vars
    PROVE  \/ Calm
           \/ \E c \in FreshIds : Batched(c)
           \/ \E t \in Tasks : \E new \in FreshIds : Replaced(t, new)
           \/ \E t \in Tasks : Emptied(t)
           \/ \E t \in Tasks : HandedOver(t)
           \/ Stopped
<1>1. Core /\ task \in [Tasks -> RecycleTask] /\ wsStatus \in [Conns -> WsStatus]
  BY DEF Recycling, Core, TypeOK, RecyclerTypeOK, PoolTypeOK
<1>2. task' = task => CalmTasks
  BY DEF CalmTasks
<1>3. UNCHANGED poolVars => CalmPool
  BY DEF CalmPool, poolVars
<1>4. reg' = reg => CalmRegistry
  BY DEF CalmRegistry
<1>5. \A c : /\ At("waiting", c, NoConn, {}, 0).pc \notin Slots
             /\ At("waiting", c, NoConn, {}, 0).new = NoConn
  BY DEF At, Slots
<1>6. CASE Tick \/ UNCHANGED vars \/ StopLifecycle
  BY <1>2, <1>3, <1>4, <1>6 DEF Tick, vars, recyclerVars, StopLifecycle, LifecycleStop, Calm
<1>7. ASSUME NEW c \in Conns, Network(c)
      PROVE  Calm
  <2>1. CalmPool
    BY <1>1, <1>7 DEF Network, GetHealthy, GetUnhealthy, CalmPool
  <2>. QED  BY <1>2, <1>4, <1>7, <2>1 DEF Network, GetHealthy, GetUnhealthy, recyclerVars, Calm
<1>8. CASE PoolStep
  <2>1. PICK c \in FreshIds : ProcessPendingMarkets(c)
    BY <1>8 DEF PoolStep
  <2>2. Batched(c)
    BY <1>1, <1>8, <2>1, FreshFacts, BatchEffect DEF Batched, PoolStep, recyclerVars
  <2>. QED  BY <2>2
<1>9. CASE LifecycleStep
  BY <1>1, <1>2, <1>3, <1>9, CalmLifecycle DEF LifecycleStep, recyclerVars, Calm
<1>10. CASE MonitorStep
  <2>1. /\ reg' = reg /\ UNCHANGED poolVars
        /\ \A t \in Tasks : \/ task'[t] = task[t]
                            \/ \E c \in Conns : task'[t] = At("waiting", c, NoConn, {}, 0)
    BY <1>1, <1>10, CheckEffect DEF MonitorStep
  <2>2. CalmTasks
    BY <1>5, <2>1 DEF CalmTasks
  <2>. QED  BY <1>3, <1>4, <2>1, <2>2 DEF Calm
<1>11. CASE ManualStep
  <2>1. PICK t \in Tasks, c \in Conns : /\ reg' = reg /\ UNCHANGED poolVars
                                        /\ task' = [task EXCEPT ![t] = At("waiting", c, NoConn, {}, 0)]
    BY <1>11 DEF ManualStep, ForceRecycle, Tasks
  <2>2. CalmTasks
    BY <1>1, <1>5, <2>1 DEF CalmTasks
  <2>. QED  BY <1>3, <1>4, <2>1, <2>2 DEF Calm
<1>12. ASSUME NEW t \in Tasks, RecycleStep(t)
       PROVE  \/ Calm
              \/ \E new \in FreshIds : Replaced(t, new)
              \/ Emptied(t)
              \/ HandedOver(t)
  BY <1>12, CalmRecycle
<1>13. CASE StopRecycler
  <2>1. CASE RecyclerTimeout
    <3>1. \A left : /\ Ended("cancelled", left).pc = "cancelled"
                    /\ Ended("cancelled", left).new = left
      BY DEF Ended, At
    <3>2. CalmTasks
      BY <1>1, <2>1, <3>1, TimeoutEffect DEF CalmTasks, Cancelled, Slots, Tried
    <3>3. CalmPool
      BY <1>1, <2>1, TimeoutEffect DEF CalmPool, Recycling, TasksOK, With
    <3>. QED  BY <1>1, <1>4, <2>1, <3>2, <3>3, TimeoutEffect DEF Calm
  <2>2. CASE RecyclerStopBegin \/ RecyclerStopEnd
    BY <1>2, <1>3, <1>4, <2>2 DEF RecyclerStopBegin, RecyclerStopEnd, Calm
  <2>. QED  BY <1>13, <2>1, <2>2 DEF StopRecycler
<1>14. CASE StopPool
  BY <1>14 DEF StopPool, Stopped, recyclerVars
<1>. QED  BY <1>6, <1>7, <1>8, <1>9, <1>10, <1>11, <1>12, <1>13, <1>14 DEF Next, RunningNext, Shutdown

(* Recycling is inductive.                                                 *)
LEMMA RecyclingStep == Recycling /\ [Next]_vars => Recycling'
<1>. SUFFICES ASSUME Recycling, [Next]_vars PROVE TasksOK' /\ Drained'
  BY CoreStep DEF Recycling
<1>1. /\ task \in [Tasks -> RecycleTask] /\ pool \in SUBSET Conns
      /\ wsAssets \in [Conns -> SUBSET Assets]
  BY DEF Recycling, Core, TypeOK, RecyclerTypeOK, PoolTypeOK
<1>2. /\ \A t \in Tasks : task[t].pc = "stabilizing" =>
             /\ task[t].new \in Conns /\ task[t].new # task[t].conn
             /\ task[t].new \in pool => wsAssets[task[t].new] = task[t].active
      /\ \A t, u \in Tasks : task[t].pc = "stabilizing" /\ task[t].new = task[u].new => t = u
      /\ \A t \in Tasks : task[t].pc = "removing" => task[t].conn \notin pool
  BY DEF Recycling, TasksOK, With
<1>3. \A t \in Tasks : task[t].pc \in Slots =>
          \A a \in Assets : HasStatus(reg, a, "SUBSCRIBED") => reg.assets[a].conn # task[t].conn
  BY DEF Recycling, Drained, InFlight, With, Slots
(* The same after the step, told of the tasks one by one.                  *)
<1>4. ASSUME \A t \in Tasks : task'[t].pc = "stabilizing" =>
                 /\ task'[t].new \in Conns /\ task'[t].new # task'[t].conn
                 /\ task'[t].new \in pool' => wsAssets'[task'[t].new] = task'[t].active,
             \A t, u \in Tasks : task'[t].pc = "stabilizing" /\ task'[t].new = task'[u].new => t = u,
             \A t \in Tasks : task'[t].pc = "removing" => task'[t].conn \notin pool'
      PROVE  TasksOK'
  BY <1>4 DEF TasksOK, With
<1>5. ASSUME \A t \in Tasks : task'[t].pc \in Slots =>
                 \A a \in Assets : HasStatus(reg', a, "SUBSCRIBED") =>
                     reg'.assets[a].conn # task'[t].conn
      PROVE  Drained'
  BY <1>5 DEF Drained, InFlight, With, Slots, HasStatus
<1>6. CASE Calm
  <2>1. /\ \A t \in Tasks : /\ task'[t].pc \in {"stabilizing", "removing"} => task'[t] = task[t]
                            /\ task'[t].new \in {task[t].new, NoConn}
        /\ pool' = pool
        /\ \A c \in pool : wsAssets'[c] = wsAssets[c]
    BY <1>1, <1>6 DEF Calm, CalmTasks, CalmPool, Slots
  <2>2. TasksOK'
    BY <1>2, <1>4, <2>1, ConnsAssumption
  <2>3. Drained'
    BY <1>3, <1>5, <1>6, <2>1 DEF Calm, CalmRegistry, Slots
  <2>. QED  BY <2>2, <2>3
<1>7. ASSUME NEW c \in FreshIds, Batched(c)
      PROVE  TasksOK' /\ Drained'
  <2>1. /\ c \in Conns /\ c \notin pool
        /\ \A t \in Tasks : task[t].conn # c /\ task[t].new # c
    BY FreshFacts
  <2>2. /\ task' = task /\ pool' = pool \cup {c}
        /\ \A d \in Conns : d # c => wsAssets'[d] = wsAssets[d]
        /\ SubscribedTo(reg, reg', PendingBatch(reg, Target), c)
    BY <1>1, <1>7 DEF Batched, OpenConnection
  <2>3. TasksOK'
    BY <1>1, <1>2, <1>4, <2>1, <2>2
  <2>4. Drained'
    BY <1>3, <1>5, <2>1, <2>2 DEF SubscribedTo, HasStatus
  <2>. QED  BY <2>3, <2>4
<1>8. ASSUME NEW t \in Tasks, NEW new \in FreshIds, Replaced(t, new)
      PROVE  TasksOK' /\ Drained'
  <2> DEFINE c == task[t].conn
             active == ActiveByConnection(reg, c)
  <2>1. /\ new \in Conns /\ new \notin pool
        /\ \A u \in Tasks : task[u].conn # new /\ task[u].new # new
    BY FreshFacts
  <2>2. /\ pool' = pool \cup {new}
        /\ wsAssets' = [wsAssets EXCEPT ![new] = active]
        /\ SubscribedTo(reg, reg', active, new)
        /\ task' = [task EXCEPT ![t] = At("stabilizing", c, new, active, 0)]
        /\ c \in Conns
    BY <1>8 DEF Replaced, OpenConnection
  <2>3. \A a \in Assets : HasStatus(reg, a, "SUBSCRIBED") /\ reg.assets[a].conn = c => a \in active
    BY <2>2, CoreFacts DEF Recycling, ActiveByConnection
  <2>. HIDE DEF active
  <2>4. /\ At("stabilizing", c, new, active, 0).pc = "stabilizing"
        /\ At("stabilizing", c, new, active, 0).conn = c
        /\ At("stabilizing", c, new, active, 0).new = new
        /\ At("stabilizing", c, new, active, 0).active = active
    BY DEF At
  <2>. HIDE DEF c
  <2>5. /\ task'[t].pc = "stabilizing" /\ task'[t].conn = c
        /\ task'[t].new = new /\ task'[t].active = active /\ new # c
        /\ \A u \in Tasks : u # t => task'[u] = task[u]
    BY <1>1, <2>1, <2>2, <2>4 DEF c
  <2>6. wsAssets'[new] = active /\ \A d \in Conns : d # new => wsAssets'[d] = wsAssets[d]
    BY <1>1, <2>1, <2>2
  <2>7. TasksOK'
    BY <1>1, <1>2, <1>4, <2>1, <2>2, <2>5, <2>6
  <2>8. Drained'
    <3>. SUFFICES ASSUME NEW u \in Tasks, task'[u].pc \in Slots, NEW a \in Assets,
                         HasStatus(reg', a, "SUBSCRIBED")
                  PROVE  reg'.assets[a].conn # task'[u].conn
      BY <1>5
    <3>1. /\ reg'.assets[a].conn = IF a \in active THEN new ELSE reg.assets[a].conn
          /\ a \notin active => HasStatus(reg, a, "SUBSCRIBED")
      BY <2>2 DEF SubscribedTo, HasStatus
    <3>2. task'[u].conn # new
      BY <2>1, <2>5 DEF c
    <3>3. a \notin active => reg.assets[a].conn # task'[u].conn
      BY <1>3, <2>3, <2>5, <3>1 DEF c
    <3>. QED  BY <3>1, <3>2, <3>3
  <2>. QED  BY <2>7, <2>8
<1>9. ASSUME NEW t \in Tasks, Emptied(t)
      PROVE  TasksOK' /\ Drained'
  <2> DEFINE c == task[t].conn
  <2>1. /\ c \in pool /\ pool' = pool \ {c} /\ wsAssets' = wsAssets /\ reg' = reg
        /\ ActiveByConnection(reg, c) = {}
        /\ task' = [task EXCEPT ![t] = At("removing", c, NoConn, {}, 0)]
    BY <1>9 DEF Emptied, PopConnection
  <2>2. \A a \in Assets : HasStatus(reg, a, "SUBSCRIBED") => reg.assets[a].conn # c
    BY <1>1, <2>1, CoreFacts DEF Recycling, ActiveByConnection
  <2>3. /\ At("removing", c, NoConn, {}, 0).pc = "removing"
        /\ At("removing", c, NoConn, {}, 0).conn = c
        /\ At("removing", c, NoConn, {}, 0).new = NoConn
    BY DEF At
  <2>4. /\ task'[t].pc = "removing" /\ task'[t].conn = c /\ task'[t].new = NoConn
        /\ \A u \in Tasks : u # t => task'[u] = task[u]
    BY <1>1, <2>1, <2>3
  <2>. HIDE DEF c
  <2>5. TasksOK'
    BY <1>2, <1>4, <2>1, <2>4, ConnsAssumption
  <2>6. Drained'
    BY <1>3, <1>5, <2>1, <2>2, <2>4
  <2>. QED  BY <2>5, <2>6
<1>10. ASSUME NEW t \in Tasks, HandedOver(t)
       PROVE  TasksOK' /\ Drained'
  <2> DEFINE c == task[t].conn
  <2>1. PICK n \in Nat : task' = [task EXCEPT ![t] = At("removing", c, task[t].new, task[t].active, n)]
    BY <1>10 DEF HandedOver
  <2>2. /\ task[t].pc = "stabilizing"
        /\ pool' = pool \ {c} /\ wsAssets' = wsAssets /\ CalmRegistry
    BY <1>10 DEF HandedOver, PopConnection
  <2>3. /\ At("removing", c, task[t].new, task[t].active, n).pc = "removing"
        /\ At("removing", c, task[t].new, task[t].active, n).conn = c
        /\ At("removing", c, task[t].new, task[t].active, n).new = task[t].new
    BY DEF At
  <2>4. /\ task'[t].pc = "removing" /\ task'[t].conn = c /\ task'[t].new = task[t].new
        /\ \A u \in Tasks : u # t => task'[u] = task[u]
    BY <1>1, <2>1, <2>3
  <2>5. TasksOK'
    BY <1>2, <1>4, <2>2, <2>4
  <2>6. \A u \in Tasks : task'[u].pc \in Slots => task[u].pc \in Slots /\ task'[u].conn = task[u].conn
    BY <2>2, <2>4 DEF Slots
  <2>7. Drained'
    BY <1>3, <1>5, <2>2, <2>6 DEF CalmRegistry
  <2>. QED  BY <2>5, <2>7
<1>11. CASE Stopped
  <2>1. /\ task' = task /\ reg' = reg
        /\ (pool' = pool /\ wsAssets' = wsAssets) \/ pool' = {}
    BY <1>11 DEF Stopped, PoolStopBegin, PoolStopEnd
  <2>2. TasksOK'
    BY <1>2, <1>4, <2>1
  <2>3. Drained'
    BY <1>3, <1>5, <2>1
  <2>. QED  BY <2>2, <2>3
<1>. QED  BY <1>6, <1>7, <1>8, <1>9, <1>10, <1>11, Kinds

LEMMA RecyclingInvariant == Spec => []Recycling
<1>1. Init => Recycling
  <2>. SUFFICES ASSUME Init PROVE Recycling
    OBVIOUS
  <2>1. \A t \in Tasks : task[t].pc = "idle"
    BY DEF Init, RecyclerInit, Ended, At
  <2>. QED  BY <2>1, CoreInit DEF Recycling, TasksOK, Drained, InFlight, With
<1>. QED  BY <1>1, RecyclingStep, PTL DEF Spec

-----------------------------------------------------------------------------
(* Every SUBSCRIBED asset has a connection.                                *)

Managed ==
    \A a \in Assets : HasStatus(reg, a, "SUBSCRIBED") =>
        /\ reg.assets[a].conn \in pool
        /\ wsStatus[reg.assets[a].conn] # "CLOSED"
        /\ a \in wsAssets[reg.assets[a].conn]

LEMMA ManagedStep ==
    ASSUME Recycling, poolState = "running" => Managed, [Next]_vars, poolState' = "running"
    PROVE  Managed'
<1>1. /\ task \in [Tasks -> RecycleTask] /\ pool \in SUBSET Conns
      /\ wsAssets \in [Conns -> SUBSET Assets] /\ wsStatus \in [Conns -> WsStatus]
  BY DEF Recycling, Core, TypeOK, RecyclerTypeOK, PoolTypeOK
(* A new connection takes the assets of S.                                 *)
<1>2. ASSUME Managed, NEW c \in FreshIds, NEW S \in SUBSET Assets,
             OpenConnection(c, S), SubscribedTo(reg, reg', S, c)
      PROVE  Managed'
  <2>1. c \in Conns /\ c \notin pool /\ \A a \in Assets : reg.assets[a].conn # c
    BY FreshFacts
  <2>2. /\ pool' = pool \cup {c}
        /\ wsStatus'[c] = "UNHEALTHY" /\ wsAssets'[c] = S
        /\ \A d \in Conns : d # c => wsStatus'[d] = wsStatus[d] /\ wsAssets'[d] = wsAssets[d]
    BY <1>1, <1>2, <2>1 DEF OpenConnection
  <2>3. \A a \in Assets : /\ reg'.assets[a].conn = IF a \in S THEN c ELSE reg.assets[a].conn
                          /\ HasStatus(reg', a, "SUBSCRIBED") /\ a \notin S => HasStatus(reg, a, "SUBSCRIBED")
    BY <1>2 DEF SubscribedTo, HasStatus
  <2>. QED  BY <1>1, <1>2, <2>1, <2>2, <2>3 DEF Managed, HasStatus
(* A connection to which no SUBSCRIBED asset points leaves the pool.       *)
<1>3. ASSUME Managed, NEW c \in Conns, PopConnection(c), CalmRegistry,
             \A a \in Assets : HasStatus(reg, a, "SUBSCRIBED") => reg.assets[a].conn # c
      PROVE  Managed'
  <2>1. /\ pool' = pool \ {c} /\ wsAssets' = wsAssets
        /\ \A d \in Conns : d # c => wsStatus'[d] = wsStatus[d]
    BY <1>1, <1>3 DEF PopConnection
  <2>. QED  BY <1>1, <1>3, <2>1 DEF Managed, CalmRegistry, HasStatus
<1>4. CASE Calm
  <2>1. poolState = "running" /\ Managed
    BY <1>4 DEF Calm, CalmPool
  <2>. QED  BY <1>1, <1>4, <2>1 DEF Calm, CalmPool, CalmRegistry, Managed, HasStatus
<1>5. ASSUME NEW c \in FreshIds, Batched(c)
      PROVE  Managed'
  <2>1. PendingBatch(reg, Target) \in SUBSET Assets
    BY DEF PendingBatch, Queued
  <2>. QED  BY <1>2, <1>5, <2>1 DEF Batched
<1>6. ASSUME NEW t \in Tasks, NEW new \in FreshIds, Replaced(t, new)
      PROVE  Managed'
  <2>1. ActiveByConnection(reg, task[t].conn) \in SUBSET Assets
    BY <1>6, CoreFacts DEF Replaced, Recycling, ActiveByConnection
  <2>2. poolState = "running"
    BY <1>6 DEF Replaced, OpenConnection
  <2>. QED  BY <1>2, <1>6, <2>1, <2>2 DEF Replaced
<1>7. ASSUME NEW t \in Tasks, Emptied(t)
      PROVE  Managed'
  <2>1. /\ task[t].conn \in Conns /\ poolState = "running" /\ PopConnection(task[t].conn)
        /\ CalmRegistry
    BY <1>1, <1>7 DEF Emptied, PopConnection, CalmRegistry
  <2>2. \A a \in Assets : HasStatus(reg, a, "SUBSCRIBED") => reg.assets[a].conn # task[t].conn
    BY <1>7, <2>1, CoreFacts DEF Emptied, Recycling, ActiveByConnection
  <2>. QED  BY <1>3, <2>1, <2>2
<1>8. ASSUME NEW t \in Tasks, HandedOver(t)
      PROVE  Managed'
  <2>1. /\ task[t].conn \in Conns /\ poolState = "running" /\ PopConnection(task[t].conn)
        /\ CalmRegistry
    BY <1>1, <1>8 DEF HandedOver, PopConnection
  <2>2. \A a \in Assets : HasStatus(reg, a, "SUBSCRIBED") => reg.assets[a].conn # task[t].conn
    BY <1>8 DEF HandedOver, Recycling, Drained, InFlight, With
  <2>. QED  BY <1>3, <2>1, <2>2
<1>9. ~Stopped
  BY DEF Stopped, PoolStopBegin, PoolStopEnd
<1>. QED  BY <1>4, <1>5, <1>6, <1>7, <1>8, <1>9, Kinds

(* While the pool runs, no recycle, failed or not, and no race of any      *)
(* number of recycles leaves an asset subscribed on paper only: the        *)
(* connection the registry names for it is in the pool, has not been       *)
(* stopped, and has the asset in its subscription.                         *)
THEOREM SubscribedAlwaysManaged == Spec => []SubscribedIsManaged
<1> DEFINE M == poolState = "running" => Managed
<1>1. Init => M
  <2>1. Init => \A a \in Assets : ~HasStatus(reg, a, "SUBSCRIBED")
    BY DEF Init, RegistryInit, EmptyRegistry, NoEntry, HasStatus
  <2>. QED  BY <2>1 DEF Managed
<1>2. Recycling /\ M /\ [Next]_vars => M'
  BY ManagedStep
<1>3. M => SubscribedIsManaged
  BY DEF Managed, SubscribedIsManaged, IsSubscribed
<1>. HIDE DEF M
<1>. QED  BY <1>1, <1>2, <1>3, RecyclingInvariant, PTL DEF Spec

-----------------------------------------------------------------------------
(* Zero downtime.                                                          *)

(* The connections of W have the asset in their index.  A recycle of one of*)
(* them has the asset among those it moves, and its replacement is one of  *)
(* them too, unless it has left the pool.  And one of them carries the     *)
(* asset and is no replacement that nobody has seen working.               *)
Carries(a, W) ==
    /\ \A d \in W : a \in reg.byConnection[d]
    /\ \A t \in Tasks : task[t].pc = "stabilizing" /\ task[t].conn \in W =>
          /\ a \in task[t].active
          /\ task[t].new \in W \/ task[t].new \notin pool
    /\ \E d \in W : a \in wsAssets[d] /\ d \notin OnTrial

Served ==
    \A a \in Assets : HasStatus(reg, a, "SUBSCRIBED") => \E W \in SUBSET pool : Carries(a, W)

LEMMA ServedStep ==
    ASSUME Recycling, poolState = "running" => Served, [Next]_vars, poolState' = "running"
    PROVE  Served'
<1>1. /\ task \in [Tasks -> RecycleTask] /\ pool \in SUBSET Conns
      /\ wsAssets \in [Conns -> SUBSET Assets]
  BY DEF Recycling, Core, TypeOK, RecyclerTypeOK, PoolTypeOK
<1>2. /\ \A t \in Tasks : task[t].pc = "stabilizing" =>
             /\ task[t].new \in Conns /\ task[t].new # task[t].conn
             /\ task[t].new \in pool => wsAssets[task[t].new] = task[t].active
      /\ \A t, u \in Tasks : task[t].pc = "stabilizing" /\ task[t].new = task[u].new => t = u
  BY DEF Recycling, TasksOK, With
<1>3. poolState = "running" => \A a \in Assets : HasStatus(reg, a, "SUBSCRIBED") =>
          \E W \in SUBSET pool : Carries(a, W)
  BY DEF Served
<1>11. /\ \A d : d \in OnTrial <=> \E t \in Tasks : task[t].pc \notin Tried /\ task[t].new = d
       /\ \A d : d \in OnTrial' <=> \E t \in Tasks : task'[t].pc \notin Tried /\ task'[t].new = d
  BY DEF OnTrial, With, Tried
<1>4. SUFFICES ASSUME NEW a \in Assets, HasStatus(reg', a, "SUBSCRIBED")
               PROVE  \E W \in SUBSET pool' : Carries(a, W)'
  BY DEF Served, HasStatus
<1>5. CASE Calm
  <2>1. PICK W \in SUBSET pool : Carries(a, W)
    BY <1>3, <1>4, <1>5 DEF Calm, CalmPool, CalmRegistry
  <2>2. /\ \A t \in Tasks : task'[t].pc = "stabilizing" => task'[t] = task[t]
        /\ pool' = pool /\ \A d \in pool : wsAssets'[d] = wsAssets[d]
        /\ \A d \in pool : a \in reg.byConnection[d] => a \in reg'.byConnection[d]
    BY <1>1, <1>4, <1>5 DEF Calm, CalmTasks, CalmPool, CalmRegistry, Slots
  <2>3. \A d \in W : d \notin OnTrial => d \notin OnTrial'
    <3>1. \A t \in Tasks : \/ task'[t].new = NoConn
                           \/ /\ task'[t].new = task[t].new
                              /\ task[t].pc \in Tried => task'[t].pc \in Tried
      BY <1>5 DEF Calm, CalmTasks
    <3>2. \A d \in W : d # NoConn
      BY <1>1, <2>1, ConnsAssumption
    <3>. QED  BY <1>11, <3>1, <3>2
  <2>4. Carries(a, W)'
    BY <2>1, <2>2, <2>3 DEF Carries
  <2>. QED  BY <2>2, <2>4
<1>6. ASSUME NEW c \in FreshIds, Batched(c)
      PROVE  \E W \in SUBSET pool' : Carries(a, W)'
  <2> DEFINE S == PendingBatch(reg, Target)
  <2>1. /\ c \in Conns /\ c \notin pool
        /\ \A t \in Tasks : task[t].conn # c /\ task[t].new # c
    BY FreshFacts
  <2>2. /\ poolState = "running" /\ task' = task /\ pool' = pool \cup {c}
        /\ wsAssets' = [wsAssets EXCEPT ![c] = S]
        /\ SubscribedTo(reg, reg', S, c)
    BY <1>6 DEF Batched, OpenConnection
  <2>. HIDE DEF S
  <2>3. /\ \A d \in Conns : reg'.byConnection[d] =
               IF d = c THEN reg.byConnection[d] \cup S ELSE reg.byConnection[d]
        /\ wsAssets'[c] = S /\ \A d \in Conns : d # c => wsAssets'[d] = wsAssets[d]
    BY <1>1, <2>1, <2>2 DEF SubscribedTo
  <2>6. OnTrial' = OnTrial /\ c \notin OnTrial
    BY <1>11, <2>1, <2>2 DEF OnTrial, With
  <2>4. CASE a \in S
    <3>1. Carries(a, {c})'
      BY <2>1, <2>2, <2>3, <2>4, <2>6 DEF Carries
    <3>. QED  BY <2>2, <3>1
  <2>5. CASE a \notin S
    <3>1. HasStatus(reg, a, "SUBSCRIBED")
      BY <1>4, <2>2, <2>5 DEF SubscribedTo, HasStatus
    <3>2. PICK W \in SUBSET pool : Carries(a, W)
      BY <1>3, <2>2, <3>1
    <3>3. \A d \in W : d \in Conns /\ d # c
      BY <1>1, <2>1, <3>2
    <3>4. \A d \in W : a \in reg'.byConnection[d]
      BY <2>3, <3>2, <3>3 DEF Carries
    <3>5. \A t \in Tasks : task'[t].pc = "stabilizing" /\ task'[t].conn \in W =>
              /\ a \in task'[t].active
              /\ task'[t].new \in W \/ task'[t].new \notin pool'
      BY <2>1, <2>2, <3>2 DEF Carries
    <3>6. \E d \in W : a \in wsAssets'[d] /\ d \notin OnTrial'
      BY <2>2, <2>3, <2>6, <3>2, <3>3 DEF Carries
    <3>7. Carries(a, W)'
      BY <3>4, <3>5, <3>6 DEF Carries
    <3>. QED  BY <2>2, <3>7
  <2>. QED  BY <2>4, <2>5
<1>7. ASSUME NEW t \in Tasks, NEW new \in FreshIds, Replaced(t, new)
      PROVE  \E W \in SUBSET pool' : Carries(a, W)'
  <2> DEFINE c == task[t].conn
             active == ActiveByConnection(reg, c)
             x == At("stabilizing", c, new, active, 0)
  <2>1. /\ new \in Conns /\ new \notin pool
        /\ \A u \in Tasks : task[u].conn # new /\ task[u].new # new
    BY FreshFacts
  <2>2. /\ poolState = "running" /\ pool' = pool \cup {new} /\ c \in Conns
        /\ wsAssets' = [wsAssets EXCEPT ![new] = active]
        /\ SubscribedTo(reg, reg', active, new)
        /\ task' = [task EXCEPT ![t] = x]
    BY <1>7 DEF Replaced, OpenConnection
  <2>3. /\ \A b \in active : HasStatus(reg, b, "SUBSCRIBED")
        /\ a \in reg.byConnection[c] /\ HasStatus(reg, a, "SUBSCRIBED") => a \in active
    BY DEF ActiveByConnection
  <2>4. x.pc = "stabilizing" /\ x.conn = c /\ x.new = new /\ x.active = active
    BY DEF At
  <2>. HIDE DEF active, c, x
  <2>5. /\ task'[t] = x
        /\ \A u \in Tasks : u # t => task'[u] = task[u]
        /\ c # new
    BY <1>1, <2>1, <2>2 DEF c
  <2>6. /\ \A d \in Conns : reg'.byConnection[d] =
               IF d = new THEN reg.byConnection[d] \cup active ELSE reg.byConnection[d]
        /\ \A d \in Conns : d # new => wsAssets'[d] = wsAssets[d]
    BY <1>1, <2>2 DEF SubscribedTo
  <2>7. HasStatus(reg, a, "SUBSCRIBED")
    BY <1>4, <2>2, <2>3 DEF SubscribedTo, HasStatus
  <2>8. PICK W \in SUBSET pool : Carries(a, W)
    BY <1>3, <2>2, <2>7
  <2>9. \A d \in W : d \in Conns /\ d # new
    BY <1>1, <2>1, <2>8
  <2>10. \A d \in W : a \in reg'.byConnection[d]
    BY <2>6, <2>8, <2>9 DEF Carries
  <2>11. \E d \in W : a \in wsAssets'[d] /\ d \notin OnTrial'
    <3>1. PICK d \in W : a \in wsAssets[d] /\ d \notin OnTrial
      BY <2>8 DEF Carries
    <3>2. a \in wsAssets'[d]
      BY <2>6, <2>9, <3>1
    <3>3. d \notin OnTrial'
      BY <1>11, <2>4, <2>5, <2>9, <3>1
    <3>. QED  BY <3>2, <3>3
  <2>12. CASE c \in W
    <3>1. a \in active
      BY <2>3, <2>7, <2>8, <2>12 DEF Carries
    <3>2. a \in reg'.byConnection[new]
      BY <2>1, <2>6, <3>1
    <3>3. \A u \in Tasks : task'[u].pc = "stabilizing" /\ task'[u].conn \in W \cup {new} =>
              /\ a \in task'[u].active
              /\ task'[u].new \in W \cup {new} \/ task'[u].new \notin pool'
      <4>. SUFFICES ASSUME NEW u \in Tasks, task'[u].pc = "stabilizing",
                           task'[u].conn \in W \cup {new}
                    PROVE  /\ a \in task'[u].active
                           /\ task'[u].new \in W \cup {new} \/ task'[u].new \notin pool'
        OBVIOUS
      <4>1. CASE u = t
        BY <2>4, <2>5, <3>1, <4>1
      <4>2. CASE u # t
        BY <2>1, <2>2, <2>5, <2>8, <4>2 DEF Carries
      <4>. QED  BY <4>1, <4>2
    <3>4. Carries(a, W \cup {new})'
      BY <2>10, <2>11, <3>2, <3>3 DEF Carries
    <3>. QED  BY <2>2, <3>4
  <2>13. CASE c \notin W
    <3>1. \A u \in Tasks : task'[u].pc = "stabilizing" /\ task'[u].conn \in W =>
              /\ a \in task'[u].active
              /\ task'[u].new \in W \/ task'[u].new \notin pool'
      BY <2>1, <2>2, <2>4, <2>5, <2>8, <2>13 DEF Carries
    <3>2. Carries(a, W)'
      BY <2>10, <2>11, <3>1 DEF Carries
    <3>. QED  BY <2>2, <3>2
  <2>. QED  BY <2>12, <2>13
<1>8. ASSUME NEW t \in Tasks, Emptied(t)
      PROVE  \E W \in SUBSET pool' : Carries(a, W)'
  <2> DEFINE c == task[t].conn
             x == At("removing", c, NoConn, {}, 0)
  <2>1. /\ poolState = "running" /\ pool' = pool \ {c} /\ wsAssets' = wsAssets /\ reg' = reg
        /\ ActiveByConnection(reg, c) = {} /\ task' = [task EXCEPT ![t] = x]
    BY <1>8 DEF Emptied, PopConnection
  <2>2. x.pc = "removing" /\ x.new = NoConn
    BY DEF At
  <2>. HIDE DEF x
  <2>3. /\ \A u \in Tasks : task'[u].pc = "stabilizing" => task'[u] = task[u]
        /\ \A u \in Tasks : task'[u].new = NoConn \/ task'[u] = task[u]
    BY <1>1, <2>1, <2>2
  <2>4. PICK W \in SUBSET pool : Carries(a, W)
    BY <1>3, <1>4, <2>1
  <2>5. c \notin W
    BY <1>4, <2>1, <2>4 DEF Carries, ActiveByConnection
  <2>6. \A d \in W : d \notin OnTrial => d \notin OnTrial'
    BY <1>1, <1>11, <2>3, <2>4, ConnsAssumption
  <2>7. Carries(a, W)'
    BY <2>1, <2>3, <2>4, <2>6 DEF Carries
  <2>. QED  BY <2>1, <2>5, <2>7
<1>9. ASSUME NEW t \in Tasks, HandedOver(t)
      PROVE  \E W \in SUBSET pool' : Carries(a, W)'
  <2> DEFINE c == task[t].conn
  <2>1. /\ poolState = "running" /\ pool' = pool \ {c} /\ wsAssets' = wsAssets
        /\ task[t].pc = "stabilizing" /\ task[t].new \in pool
        /\ CalmRegistry
    BY <1>9 DEF HandedOver, PopConnection, ReplacementHealthy
  <2>2. PICK n \in Nat : task' = [task EXCEPT ![t] = At("removing", c, task[t].new, task[t].active, n)]
    BY <1>9 DEF HandedOver
  <2>3. /\ At("removing", c, task[t].new, task[t].active, n).pc = "removing"
        /\ At("removing", c, task[t].new, task[t].active, n).new = task[t].new
    BY DEF At
  <2>4. /\ task'[t].pc = "removing" /\ task'[t].new = task[t].new
        /\ \A u \in Tasks : u # t => task'[u] = task[u]
    BY <1>1, <2>2, <2>3
  <2>5. PICK W \in SUBSET pool : Carries(a, W)
    BY <1>3, <1>4, <2>1 DEF CalmRegistry
  <2>6. \A d \in W : a \in reg'.byConnection[d]
    BY <1>4, <2>1, <2>5 DEF CalmRegistry, Carries
  <2>7. \E d \in W \ {c} : a \in wsAssets'[d] /\ d \notin OnTrial'
    <3>1. PICK d \in W : a \in wsAssets[d] /\ d \notin OnTrial
      BY <2>5 DEF Carries
    <3>2. CASE d # c
      <4>1. d \notin OnTrial'
        BY <1>11, <2>4, <3>1 DEF Tried
      <4>. QED  BY <2>1, <3>1, <3>2, <4>1
    <3>3. CASE d = c
      <4>1. task[t].new \in W /\ a \in task[t].active /\ task[t].new # c
        BY <1>2, <2>1, <2>5, <3>3 DEF Carries
      <4>2. a \in wsAssets'[task[t].new]
        BY <1>2, <2>1, <4>1
      <4>3. task[t].new \notin OnTrial'
        BY <1>2, <1>11, <2>1, <2>4 DEF Tried
      <4>. QED  BY <4>1, <4>2, <4>3
    <3>. QED  BY <3>2, <3>3
  <2>0. PICK V \in SUBSET pool : V = W \ {c}
    BY <2>5
  <2>8. \A u \in Tasks : task'[u].pc = "stabilizing" /\ task'[u].conn \in V =>
            /\ a \in task'[u].active
            /\ task'[u].new \in V \/ task'[u].new \notin pool'
    BY <2>0, <2>1, <2>4, <2>5 DEF Carries
  <2>9. V \in SUBSET pool' /\ \A d \in V : a \in reg'.byConnection[d]
    BY <2>0, <2>1, <2>5, <2>6
  <2>10. Carries(a, V)'
    BY <2>0, <2>7, <2>8, <2>9 DEF Carries
  <2>. QED  BY <2>9, <2>10
<1>10. ~Stopped
  BY DEF Stopped, PoolStopBegin, PoolStopEnd
<1>. QED  BY <1>5, <1>6, <1>7, <1>8, <1>9, <1>10, Kinds

(* What the cut-over finds: another connection of the pool has the asset,  *)
(* and works, or is no replacement that has yet to be seen working.        *)
LEMMA HandoverStep ==
    ASSUME Recycling, poolState = "running" => Served, [Next]_vars, poolState' = "running",
           NEW c \in pool \ pool', NEW a \in reg.byConnection[c], HasStatus(reg, a, "SUBSCRIBED")
    PROVE  \E d \in pool' : /\ a \in wsAssets'[d]
                            /\ wsStatus'[d] = "HEALTHY" \/ d \notin OnTrial
<1>1. /\ pool \in SUBSET Conns /\ wsStatus \in [Conns -> WsStatus]
      /\ a \in Assets
  BY CoreFacts DEF Recycling, Core, TypeOK, PoolTypeOK
<1>2. ~Calm /\ ~Stopped
  BY DEF Calm, CalmPool, Stopped, PoolStopBegin, PoolStopEnd
<1>3. ~(\E d \in FreshIds : Batched(d)) /\ ~(\E t \in Tasks : \E new \in FreshIds : Replaced(t, new))
  BY DEF Batched, Replaced, OpenConnection
<1>4. ~(\E t \in Tasks : Emptied(t))
  BY DEF Emptied, PopConnection, ActiveByConnection
<1>5. PICK t \in Tasks : HandedOver(t)
  BY <1>2, <1>3, <1>4, Kinds
<1>6. /\ poolState = "running" /\ pool' = pool \ {task[t].conn} /\ wsAssets' = wsAssets
      /\ wsStatus' = [wsStatus EXCEPT ![task[t].conn] = "CLOSED"]
      /\ task[t].pc = "stabilizing" /\ task[t].new \in pool /\ wsStatus[task[t].new] = "HEALTHY"
  BY <1>5 DEF HandedOver, PopConnection, ReplacementHealthy
<1>7. c = task[t].conn
  BY <1>6
<1>8. PICK W \in SUBSET pool : Carries(a, W)
  BY <1>1, <1>6 DEF Served
<1>9. PICK d \in W : a \in wsAssets[d] /\ d \notin OnTrial
  BY <1>8 DEF Carries
<1>10. CASE d # c
  BY <1>6, <1>7, <1>9, <1>10
<1>11. CASE d = c
  <2>1. a \in task[t].active
    BY <1>6, <1>7, <1>8, <1>9, <1>11 DEF Carries
  <2>2. task[t].new # c /\ wsAssets[task[t].new] = task[t].active
    BY <1>6, <1>7 DEF Recycling, TasksOK, With
  <2>. QED  BY <1>1, <1>6, <1>7, <2>1, <2>2
<1>. QED  BY <1>10, <1>11

(* Zero-downtime migration, for any number of recycles, of one connection  *)
(* or of each other's replacements: when a connection leaves a running     *)
(* pool, another one of the pool carries every asset SUBSCRIBED on it, and *)
(* works, or is no replacement that has yet to be seen working.            *)
THEOREM ZeroDowntime == Spec => NoDowntime
<1> DEFINE V == poolState = "running" => Served
<1>1. Init => V
  <2>1. Init => \A a \in Assets : ~HasStatus(reg, a, "SUBSCRIBED")
    BY DEF Init, RegistryInit, EmptyRegistry, NoEntry, HasStatus
  <2>. QED  BY <2>1 DEF Served
<1>2. Recycling /\ V /\ [Next]_vars => V'
  BY ServedStep
<1>3. Recycling /\ V /\ [Next]_vars =>
        [\A c \in pool \ pool' : poolState' = "running" =>
          \A a \in reg.byConnection[c] : IsSubscribed(a) =>
              \E d \in pool' :
                  /\ a \in wsAssets'[d]
                  /\ wsStatus'[d] = "HEALTHY" \/ d \notin OnTrial]_vars
  BY HandoverStep DEF IsSubscribed
<1>. HIDE DEF V
<1>. QED  BY <1>1, <1>2, <1>3, RecyclingInvariant, PTL DEF Spec, NoDowntime

-----------------------------------------------------------------------------
(* No connection is lost.                                                  *)

NoLeak == poolState # "stopped" => NoLeakedConnection

LEMMA NoLeakStep == Recycling /\ NoLeak /\ [Next]_vars => NoLeak'
<1>. SUFFICES ASSUME Recycling, NoLeak, [Next]_vars, poolState' # "stopped"
              PROVE  \A c \in Conns : wsStatus'[c] # "CLOSED" => c \in pool'
  BY DEF NoLeak, NoLeakedConnection
<1>1. /\ pool \in SUBSET Conns /\ wsStatus \in [Conns -> WsStatus]
      /\ poolState # "stopped" => \A c \in Conns : wsStatus[c] # "CLOSED" => c \in pool
  BY DEF Recycling, Core, TypeOK, PoolTypeOK, NoLeak, NoLeakedConnection
<1>2. CASE Calm
  BY <1>1, <1>2 DEF Calm, CalmPool
<1>3. ASSUME NEW c, NEW S, OpenConnection(c, S)
      PROVE  \A d \in Conns : wsStatus'[d] # "CLOSED" => d \in pool'
  BY <1>1, <1>3 DEF OpenConnection
<1>4. ASSUME NEW c, PopConnection(c)
      PROVE  \A d \in Conns : wsStatus'[d] # "CLOSED" => d \in pool'
  BY <1>1, <1>4 DEF PopConnection
<1>5. CASE Stopped
  BY <1>1, <1>5 DEF Stopped, PoolStopBegin, PoolStopEnd
<1>. QED  BY <1>2, <1>3, <1>4, <1>5, Kinds DEF Batched, Replaced, Emptied, HandedOver

LEMMA NoLeakInvariant == Spec => []NoLeak
<1>1. Init => NoLeak
  BY DEF Init, PoolInit, NoLeak, NoLeakedConnection
<1>. QED  BY <1>1, NoLeakStep, RecyclingInvariant, PTL DEF Spec

(* While nobody stops the application, every connection that has not been  *)
(* stopped is in the pool, where the recycler looks and stop() will look:  *)
(* aborting a recycle, finding the old connection gone or failing to stop  *)
(* it leaves none behind.                                                  *)
THEOREM NoConnectionLeaks == RunningSpec => []NoLeakedConnection
<1> DEFINE Running == poolState = "running"
<1>1. Running /\ [RunningNext]_vars => Running'
  <2>. SUFFICES ASSUME [RunningNext]_vars PROVE poolState' = poolState
    OBVIOUS
  <2>1. ASSUME NEW t \in Tasks, RecycleStep(t)
        PROVE  poolState' = poolState
    BY <2>1 DEF RecycleStep, BeginGone, BeginEmpty, BeginReplace, ForceSubscribe, AbortUnhealthy,
       CutOver, CutOverGone, FinishRemoval, RemovalRaises, OpenConnection, PopConnection,
       DropConnection, poolVars
  <2>2. CASE \/ Tick \/ PoolStep \/ LifecycleStep \/ MonitorStep \/ ManualStep \/ UNCHANGED vars
             \/ \E c \in Conns : Network(c)
    BY <2>2 DEF Tick, PoolStep, ProcessPendingMarkets, OpenConnection, LifecycleStep, MonitorStep,
       CheckAllConnections, ManualStep, ForceRecycle, Network, GetHealthy, GetUnhealthy, vars, poolVars
  <2>. QED  BY <2>1, <2>2 DEF RunningNext
<1>2. Init => Running
  BY DEF Init, PoolInit
<1>3. Running /\ NoLeak => NoLeakedConnection
  BY DEF NoLeak
<1>. HIDE DEF Running
<1>4. RunningSpec => []Running
  BY <1>1, <1>2, PTL DEF RunningSpec
<1>5. [RunningNext]_vars => [Next]_vars
  BY DEF Next
<1>6. RunningSpec => Spec
  BY <1>5, PTL DEF RunningSpec, Spec
<1>. QED  BY <1>3, <1>4, <1>6, NoLeakInvariant, PTL

-----------------------------------------------------------------------------
(* Shutdown.                                                               *)

(* A task begins when the monitor or a caller asks for it, and once begun  *)
(* is never idle again.                                                    *)
LEMMA TaskMoves ==
    ASSUME Core, [Next]_vars
    PROVE  \A t \in Tasks :
              \/ task'[t] = task[t]
              \/ Live(t) /\ task'[t].pc # "idle"
              \/ task[t].pc = "idle" /\ t \in MonitorTasks /\ recyclerState = "running"
              \/ task[t].pc = "idle" /\ t \in ManualTasks /\ task'[t].pc # "idle"
<1>0. task \in [Tasks -> RecycleTask]
  BY DEF Core, TypeOK, RecyclerTypeOK
<1>1. \A pc, c, new, active, n : At(pc, c, new, active, n).pc = pc
  BY DEF At
<1>2. ASSUME NEW t \in Tasks, RecycleStep(t)
      PROVE  /\ Live(t) /\ task'[t].pc # "idle"
             /\ \A u \in Tasks : u # t => task'[u] = task[u]
  <2>1. Live(t)
    BY <1>2 DEF RecycleStep, BeginGone, BeginEmpty, BeginReplace, Acquire, AbortUnhealthy, CutOver,
       CutOverGone, FinishRemoval, RemovalRaises, Live
  <2>2. \E pc \in {"stabilizing", "removing", "completed", "failed"} :
            \E c, new, active, n : task' = [task EXCEPT ![t] = At(pc, c, new, active, n)]
    <3>1. ASSUME NEW pc \in {"completed", "failed"}, NEW left, EndTask(t, pc, left)
          PROVE  \E c, new, active, n : task' = [task EXCEPT ![t] = At(pc, c, new, active, n)]
      BY <3>1 DEF EndTask, Ended
    <3>2. CASE BeginGone(t) \/ AbortUnhealthy(t) \/ CutOverGone(t) \/ FinishRemoval(t) \/ RemovalRaises(t)
      BY <3>1, <3>2 DEF BeginGone, AbortUnhealthy, CutOverGone, FinishRemoval, RemovalRaises
    <3>3. CASE BeginEmpty(t)
      BY <3>3 DEF BeginEmpty
    <3>4. ASSUME NEW new \in FreshIds, BeginReplace(t, new)
          PROVE  \E pc \in {"stabilizing", "removing", "completed", "failed"} :
                     \E c, x, active, n : task' = [task EXCEPT ![t] = At(pc, c, x, active, n)]
      BY <3>1, <3>4 DEF BeginReplace
    <3>5. CASE CutOver(t)
      BY <3>5 DEF CutOver
    <3>. QED  BY <1>2, <3>2, <3>3, <3>4, <3>5 DEF RecycleStep
  <2>. QED  BY <1>0, <1>1, <2>1, <2>2
<1>3. CASE MonitorStep
  BY <1>3, CheckEffect DEF MonitorStep
<1>4. CASE ManualStep
  <2>1. PICK t \in ManualTasks, c \in Conns :
            /\ task[t].pc = "idle"
            /\ task' = [task EXCEPT ![t] = At("waiting", c, NoConn, {}, 0)]
    BY <1>4 DEF ManualStep, ForceRecycle
  <2>2. task'[t].pc = "waiting" /\ \A u \in Tasks : u # t => task'[u] = task[u]
    BY <1>0, <1>1, <2>1 DEF Tasks
  <2>. QED  BY <2>1, <2>2
<1>5. CASE StopRecycler
  <2>1. CASE RecyclerTimeout
    <3>1. \A t \in Tasks : (t \in MonitorTasks /\ Cancelled(t)) \/ task'[t] = task[t]
      BY <2>1, TimeoutEffect
    <3>2. \A t \in Tasks : task'[t] # task[t] => Live(t)
      BY <2>1 DEF RecyclerTimeout
    <3>. QED  BY <1>1, <3>1, <3>2 DEF Ended, Cancelled
  <2>2. CASE RecyclerStopBegin \/ RecyclerStopEnd
    BY <2>2 DEF RecyclerStopBegin, RecyclerStopEnd
  <2>. QED  BY <1>5, <2>1, <2>2 DEF StopRecycler
<1>6. CASE \/ Tick \/ PoolStep \/ LifecycleStep \/ StopLifecycle \/ StopPool \/ UNCHANGED vars
           \/ \E c \in Conns : Network(c)
  BY <1>6 DEF Tick, PoolStep, LifecycleStep, StopLifecycle, StopPool, Network, vars, recyclerVars
<1>. QED  BY <1>2, <1>3, <1>4, <1>5, <1>6 DEF Next, RunningNext, Shutdown

(* App._stop stops the recycler before the controller and the controller   *)
(* before the pool, and a recycler that has stopped has no task left.      *)
Ordered ==
    /\ ~lifecycleRunning => recyclerState = "stopped"
    /\ poolState # "running" => ~lifecycleRunning
    /\ recyclerState = "stopped" => \A t \in MonitorTasks : ~Live(t)

LEMMA OrderedStep == Core /\ Ordered /\ [Next]_vars => Ordered'
<1>. SUFFICES ASSUME Core, Ordered, [Next]_vars PROVE Ordered'
  OBVIOUS
<1>1. recyclerState = "stopped" /\ recyclerState' = "stopped" => (\A t \in MonitorTasks : ~Live(t))'
  <2>. SUFFICES ASSUME recyclerState = "stopped", NEW t \in MonitorTasks
                PROVE  task'[t].pc \notin {"waiting", "stabilizing", "removing"}
    BY DEF Live
  <2>1. ~Live(t)
    BY DEF Ordered
  <2>2. \/ task'[t] = task[t]
        \/ task[t].pc = "idle" /\ t \in ManualTasks
    BY <2>1, TaskMoves DEF Tasks
  <2>. QED  BY <2>1, <2>2, TasksAssumption DEF Live
<1>2. /\ lifecycleRunning' = lifecycleRunning /\ poolState' = poolState
      /\ recyclerState' = recyclerState
      => Ordered'
  BY <1>1 DEF Ordered
<1>3. CASE RunningNext \/ UNCHANGED vars
  <2>1. ASSUME NEW t \in Tasks, RecycleStep(t)
        PROVE  poolState' = poolState /\ recyclerState' = recyclerState
    BY <2>1 DEF RecycleStep, BeginGone, BeginEmpty, BeginReplace, Acquire, ForceSubscribe,
       AbortUnhealthy, CutOver, CutOverGone, FinishRemoval, RemovalRaises, OpenConnection,
       PopConnection, DropConnection, poolVars
  <2>2. ASSUME \/ Tick \/ PoolStep \/ LifecycleStep \/ MonitorStep \/ ManualStep \/ UNCHANGED vars
               \/ \E c \in Conns : Network(c)
        PROVE  poolState' = poolState /\ recyclerState' = recyclerState
    BY <2>2 DEF Tick, PoolStep, ProcessPendingMarkets, OpenConnection, LifecycleStep, MonitorStep,
       CheckAllConnections, ManualStep, ForceRecycle, Network, GetHealthy, GetUnhealthy, vars,
       poolVars, recyclerVars
  <2>3. lifecycleRunning' = lifecycleRunning
    BY <1>3 DEF RunningNext, Tick, PoolStep, LifecycleStep, DiscoverMarkets, AddMarketManually,
       CheckExpirations, CleanupExpired, MonitorStep, ManualStep, Network, RecycleStep, vars, lifecycleVars
  <2>. QED  BY <1>2, <1>3, <2>1, <2>2, <2>3 DEF RunningNext
<1>4. CASE StopRecycler
  <2>1. CASE RecyclerStopEnd
    BY <1>4, <2>1 DEF StopRecycler, RecyclerStopEnd, Ordered, Live, lifecycleVars, poolVars
  <2>2. CASE RecyclerStopBegin \/ RecyclerTimeout
    BY <1>4, <2>2 DEF StopRecycler, RecyclerStopBegin, RecyclerTimeout, Ordered, lifecycleVars, poolVars
  <2>. QED  BY <1>4, <2>1, <2>2 DEF StopRecycler
<1>5. CASE StopLifecycle
  BY <1>1, <1>5 DEF StopLifecycle, LifecycleStop, Ordered, poolVars, recyclerVars
<1>6. CASE StopPool
  BY <1>1, <1>6 DEF StopPool, PoolStopBegin, PoolStopEnd, Ordered, lifecycleVars, recyclerVars
<1>. QED  BY <1>3, <1>4, <1>5, <1>6 DEF Next, Shutdown

(* Nobody has called force_recycle.                                        *)
NoCallers == \A t \in ManualTasks : task[t].pc = "idle"

(* From the moment the pool stops nothing is open, and nothing can open.   *)
AllClosed ==
    NoCallers /\ poolState # "running" =>
        /\ \A c \in Conns : wsStatus[c] = "CLOSED"
        /\ poolState = "stopped" => pool = {}

LEMMA AllClosedStep == Recycling /\ NoLeak /\ Ordered /\ AllClosed /\ [Next]_vars => AllClosed'
<1>. SUFFICES ASSUME Recycling, NoLeak, Ordered, AllClosed, [Next]_vars, NoCallers', poolState' # "running"
              PROVE  /\ \A c \in Conns : wsStatus'[c] = "CLOSED"
                     /\ poolState' = "stopped" => pool' = {}
  BY DEF AllClosed
<1>1. NoCallers
  BY TaskMoves DEF Recycling, NoCallers, Tasks, Live
<1>2. wsStatus \in [Conns -> WsStatus]
  BY DEF Recycling, Core, TypeOK, PoolTypeOK
<1>3. CASE Stopped
  <2>1. CASE PoolStopBegin
    BY <2>1, <1>2 DEF PoolStopBegin, NoLeak, NoLeakedConnection
  <2>2. CASE PoolStopEnd
    BY <1>1, <2>2 DEF PoolStopEnd, AllClosed
  <2>. QED  BY <1>3, <2>1, <2>2 DEF Stopped
<1>4. CASE ~Stopped
  <2>1. \A t \in Tasks : ~Live(t) \/ poolState = "running"
    BY <1>1 DEF Ordered, NoCallers, Tasks, Live
  <2>2. Calm \/ poolState = "running"
    BY <1>4, <2>1, Kinds DEF Batched, Replaced, Emptied, HandedOver, Live
  <2>3. poolState' = poolState
    BY <1>4, Kinds DEF Calm, CalmPool, Batched, Replaced, OpenConnection, Emptied, HandedOver, PopConnection
  <2>. QED  BY <1>1, <2>2, <2>3 DEF AllClosed, Calm, CalmPool
<1>. QED  BY <1>3, <1>4

(* Shutdown leaves no connection open, as long as nobody called            *)
(* force_recycle (nothing in the program does, and stop() waits only for   *)
(* the recycles of the monitor): recycles that were cancelled half-way, and*)
(* those that swallowed the cancellation, included.                        *)
THEOREM ShutdownComplete == Spec => [](NoCallers => ShutdownClosesAll)
<1>1. Init => Ordered /\ AllClosed
  BY DEF Init, LifecycleInit, PoolInit, RecyclerInit, Ordered, AllClosed
<1>2. Recycling => Core
  BY DEF Recycling
<1>3. AllClosed => (NoCallers => ShutdownClosesAll)
  BY DEF AllClosed, ShutdownClosesAll
<1>. QED
  BY <1>1, <1>2, <1>3, OrderedStep, AllClosedStep, RecyclingInvariant, NoLeakInvariant, PTL DEF Spec

(* The property of the liveness run, which has no caller of force_recycle. *)
THEOREM ShutdownCompleteWithoutCallers ==
    ASSUME ManualTasks = {}
    PROVE  Spec => []ShutdownClosesAll
<1>1. NoCallers
  BY DEF NoCallers
<1>2. (NoCallers => ShutdownClosesAll) => ShutdownClosesAll
  BY <1>1
<1>. QED  BY <1>2, ShutdownComplete, PTL

=============================================================================

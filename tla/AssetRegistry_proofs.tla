------------------------ MODULE AssetRegistry_proofs ------------------------
(***************************************************************************)
(* What every method of AssetRegistry preserves, for any number of assets, *)
(* markets and connections: the types, the agreement of the entries with   *)
(* the status, market, expiration and connection indexes, and the order of *)
(* the pending queue.  One lemma per method, used again by the proofs about*)
(* the modules that call the registry.                                     *)
(***************************************************************************)
EXTENDS AssetRegistry, FiniteSetTheorems, TLAPS

(* The entries agree with their indexes.                                   *)
Indexed(r) == StatusIndexed(r) /\ MarketIndexed(r) /\ ConnectionIndexed(r)

(* No two assets share a place in the pending queue, ...                   *)
DistinctPlaces(queue) ==
    \A a, b \in Assets : queue[a] > 0 /\ queue[a] = queue[b] => a = b

(* ... and no place lies beyond the length of the queue.                   *)
Members(queue) == {a \in Assets : queue[a] > 0}

Orderly(queue) ==
    /\ DistinctPlaces(queue)
    /\ \A a \in Assets : queue[a] <= Cardinality(Members(queue))

(* Whoever is queued is tracked, and not SUBSCRIBED.                       *)
QueuedUnsubscribed(r) ==
    \A a \in Queued(r) : r.assets[a].status \in {"PENDING", "EXPIRED"}

(* The inductive invariant of the registry.                                *)
RegistryInv(r) ==
    r \in Registry /\ Indexed(r) /\ Orderly(r.pendingQueue) /\ QueuedUnsubscribed(r)

-----------------------------------------------------------------------------
(* The pending queue.                                                      *)

(* Assets whose places lie between lo + 1 and hi are at most hi - lo.      *)
LEMMA PlacesBetween ==
    ASSUME NEW queue \in [Assets -> Nat], DistinctPlaces(queue),
           NEW T \in SUBSET Assets, NEW lo \in Nat, NEW hi \in Nat, lo <= hi,
           \A b \in T : lo < queue[b] /\ queue[b] <= hi
    PROVE  /\ IsFiniteSet(T)
           /\ Cardinality(T) \in Nat
           /\ Cardinality(T) <= hi - lo
<1>1. IsFiniteSet(T) /\ Cardinality(T) \in Nat
  BY AssetsAssumption, FS_Subset, FS_CardinalityType
<1>2. IsFiniteSet((lo + 1)..hi) /\ Cardinality((lo + 1)..hi) = hi - lo
  <2>1. lo + 1 \in Int /\ hi \in Int
    OBVIOUS
  <2>2. /\ IsFiniteSet((lo + 1)..hi)
        /\ Cardinality((lo + 1)..hi) = IF lo + 1 > hi THEN 0 ELSE hi - (lo + 1) + 1
    BY <2>1, FS_Interval, Zenon
  <2>. QED  BY <2>2
<1> DEFINE place == [b \in T |-> queue[b]]
<1>3. place \in Injection(T, (lo + 1)..hi)
  BY DEF Injection, IsInjective, DistinctPlaces
<1>. HIDE DEF place
<1>. QED  BY <1>1, <1>2, <1>3, FS_Injection

(* Dequeue keeps places natural numbers, takes out exactly S, and keeps    *)
(* the order of the others.                                                *)
LEMMA DequeueOrder ==
    ASSUME NEW queue \in [Assets -> Nat], DistinctPlaces(queue), NEW S \in SUBSET Assets
    PROVE  /\ Dequeue(queue, S) \in [Assets -> Nat]
           /\ Members(Dequeue(queue, S)) = Members(queue) \ S
           /\ \A a, b \in Members(queue) \ S :
                 queue[a] < queue[b] => Dequeue(queue, S)[a] < Dequeue(queue, S)[b]
<1> DEFINE ahead(a) == {b \in S : 0 < queue[b] /\ queue[b] < queue[a]}
           after == Dequeue(queue, S)
<1>1. ASSUME NEW a \in Members(queue)
      PROVE  /\ IsFiniteSet(ahead(a))
             /\ Cardinality(ahead(a)) \in Nat
             /\ Cardinality(ahead(a)) <= queue[a] - 1
  <2>1. queue[a] \in Nat /\ queue[a] > 0 /\ queue[a] - 1 \in Nat
    BY DEF Members
  <2>2. ahead(a) \in SUBSET Assets /\ \A b \in ahead(a) : 0 < queue[b] /\ queue[b] <= queue[a] - 1
    BY <2>1
  <2>. HIDE DEF ahead
  <2>3. Cardinality(ahead(a)) <= (queue[a] - 1) - 0
    BY <2>1, <2>2, PlacesBetween
  <2>4. IsFiniteSet(ahead(a)) /\ Cardinality(ahead(a)) \in Nat
    BY <2>2, AssetsAssumption, FS_Subset, FS_CardinalityType
  <2>. QED  BY <2>1, <2>3, <2>4
<1>2. \A a \in Assets : after[a] = IF a \in Members(queue) \ S
                                   THEN queue[a] - Cardinality(ahead(a)) ELSE 0
  BY DEF Dequeue, Members
<1>3. after = [a \in Assets |-> after[a]]
  BY DEF Dequeue
<1>. HIDE DEF after, ahead
<1>4. \A a \in Assets : after[a] \in Nat /\ (after[a] > 0 <=> a \in Members(queue) \ S)
  <2>. SUFFICES ASSUME NEW a \in Assets
                PROVE  after[a] \in Nat /\ (after[a] > 0 <=> a \in Members(queue) \ S)
    OBVIOUS
  <2>1. CASE a \in Members(queue) \ S
    BY <2>1, <1>1, <1>2
  <2>2. CASE a \notin Members(queue) \ S
    BY <2>2, <1>2
  <2>. QED  BY <2>1, <2>2
<1>5. after \in [Assets -> Nat]
  BY <1>3, <1>4
<1>6. Members(after) = Members(queue) \ S
  BY <1>4 DEF Members
<1>7. ASSUME NEW a \in Members(queue) \ S, NEW b \in Members(queue) \ S,
             queue[a] < queue[b]
      PROVE  after[a] < after[b]
  <2> DEFINE between == ahead(b) \ ahead(a)
  <2>1. /\ a \in Assets /\ b \in Assets
        /\ queue[a] \in Nat /\ queue[b] \in Nat /\ queue[b] - 1 \in Nat
        /\ queue[a] <= queue[b] - 1
    BY <1>7 DEF Members
  <2>2. between \in SUBSET Assets /\ \A c \in between : queue[a] < queue[c] /\ queue[c] <= queue[b] - 1
    BY <2>1 DEF ahead, DistinctPlaces, Members
  <2>3. ahead(a) \subseteq ahead(b)
    BY <2>1 DEF ahead
  <2>4. IsFiniteSet(ahead(a)) /\ IsFiniteSet(ahead(b))
    BY <1>1
  <2>. HIDE DEF between
  <2>5. Cardinality(between) \in Nat /\ Cardinality(between) <= (queue[b] - 1) - queue[a]
    BY <2>1, <2>2, PlacesBetween
  <2>6. Cardinality(between) = Cardinality(ahead(b)) - Cardinality(ahead(a))
    <3>1. ahead(b) \cap ahead(a) = ahead(a)
      BY <2>3
    <3>. QED  BY <2>4, <3>1, FS_Difference DEF between
  <2>7. after[a] = queue[a] - Cardinality(ahead(a)) /\ after[b] = queue[b] - Cardinality(ahead(b))
    BY <1>2, <2>1
  <2>8. Cardinality(ahead(a)) \in Nat /\ Cardinality(ahead(b)) \in Nat
    BY <1>1
  <2>. QED  BY <2>1, <2>5, <2>6, <2>7, <2>8
<1>. QED  BY <1>5, <1>6, <1>7 DEF after

(* Dequeue leaves an orderly queue orderly.                                *)
LEMMA DequeueOrderly ==
    ASSUME NEW queue \in [Assets -> Nat], Orderly(queue), NEW S \in SUBSET Assets
    PROVE  Orderly(Dequeue(queue, S))
<1> DEFINE after == Dequeue(queue, S)
           taken == S \cap Members(queue)
           n == Cardinality(Members(queue))
<1>1. DistinctPlaces(queue) /\ \A a \in Assets : queue[a] <= n
  BY DEF Orderly
<1>2. /\ after \in [Assets -> Nat]
      /\ Members(after) = Members(queue) \ S
      /\ \A a, b \in Members(queue) \ S : queue[a] < queue[b] => after[a] < after[b]
  BY <1>1, DequeueOrder
<1>3. DistinctPlaces(after)
  <2>. SUFFICES ASSUME NEW a \in Assets, NEW b \in Assets, after[a] > 0, after[a] = after[b]
                PROVE  a = b
    BY DEF DistinctPlaces
  <2>. HIDE DEF after
  <2>1. a \in Members(queue) \ S /\ b \in Members(queue) \ S
    <3>1. a \in Members(after) /\ b \in Members(after)
      BY DEF Members
    <3>. QED  BY <3>1, <1>2
  <2>2. ~(queue[a] < queue[b]) /\ ~(queue[b] < queue[a])
    BY <1>2, <2>1
  <2>. QED  BY <1>1, <2>1, <2>2 DEF DistinctPlaces, Members
<1>4. IsFiniteSet(Members(queue)) /\ n \in Nat
  BY AssetsAssumption, FS_Subset, FS_CardinalityType DEF Members
<1>5. /\ IsFiniteSet(taken)
      /\ Cardinality(taken) \in Nat
      /\ Cardinality(Members(after)) = n - Cardinality(taken)
  <2>1. IsFiniteSet(taken)
    BY <1>4, FS_Subset
  <2>2. Members(after) = Members(queue) \ taken /\ Members(queue) \cap taken = taken
    BY <1>2
  <2>. HIDE DEF taken, after
  <2>. QED  BY <2>1, <2>2, <1>4, FS_Difference, FS_CardinalityType
<1>6. ASSUME NEW a \in Assets
      PROVE  after[a] <= Cardinality(Members(after))
  <2>1. CASE a \in Members(queue) \ S
    <3> DEFINE ahead == {b \in S : 0 < queue[b] /\ queue[b] < queue[a]}
               behind == taken \ ahead
    <3>1. queue[a] \in Nat /\ queue[a] <= n
      BY <1>1
    <3>2. behind \in SUBSET Assets /\ \A b \in behind : queue[a] < queue[b] /\ queue[b] <= n
      BY <1>1, <2>1 DEF Members, DistinctPlaces
    <3>3. ahead \subseteq taken
      BY DEF Members
    <3>4. after[a] = queue[a] - Cardinality(ahead)
      BY <2>1 DEF Dequeue, Members
    <3>5. IsFiniteSet(ahead) /\ Cardinality(ahead) \in Nat
      BY <1>5, <3>3, FS_Subset, FS_CardinalityType
    <3>6. taken \cap ahead = ahead
      BY <3>3
    <3>. HIDE DEF ahead, taken, after
    <3>7. Cardinality(behind) = Cardinality(taken) - Cardinality(ahead)
      BY <1>5, <3>5, <3>6, FS_Difference
    <3>. HIDE DEF behind
    <3>8. Cardinality(behind) \in Nat /\ Cardinality(behind) <= n - queue[a]
      BY <1>1, <1>4, <3>1, <3>2, PlacesBetween
    <3>. QED  BY <1>4, <1>5, <3>1, <3>4, <3>5, <3>7, <3>8
  <2>2. CASE a \notin Members(queue) \ S
    <3>1. after[a] = 0
      BY <2>2 DEF Dequeue, Members
    <3>2. Cardinality(Members(after)) \in Nat
      BY <1>2, AssetsAssumption, FS_Subset, FS_CardinalityType, Members(after) \subseteq Assets DEF Members
    <3>. QED  BY <3>1, <3>2
  <2>. QED  BY <2>1, <2>2
<1>. QED  BY <1>3, <1>6 DEF Orderly

(* The places of an orderly queue are exactly 1..n: the last asset is at   *)
(* the place len(_pending_queue), and no place is empty.                   *)
LEMMA PlacesContiguous ==
    ASSUME NEW queue \in [Assets -> Nat], Orderly(queue)
    PROVE  {queue[a] : a \in Members(queue)} = 1..Cardinality(Members(queue))
<1> DEFINE Q == Members(queue)
           n == Cardinality(Q)
           place == [a \in Q |-> queue[a]]
<1>1. IsFiniteSet(Q) /\ n \in Nat
  BY AssetsAssumption, FS_Subset, FS_CardinalityType DEF Members
<1>2. IsFiniteSet(1..n) /\ Cardinality(1..n) = n
  <2>. HIDE DEF n
  <2>1. IsFiniteSet(1..n) /\ Cardinality(1..n) = IF 1 > n THEN 0 ELSE n - 1 + 1
    BY <1>1, FS_Interval
  <2>. QED  BY <1>1, <2>1
<1>3. place \in Injection(Q, 1..n)
  <2>1. \A a \in Q : queue[a] \in 1..n
    BY <1>1 DEF Orderly, Members
  <2>2. \A a, b \in Q : queue[a] = queue[b] => a = b
    BY DEF Orderly, DistinctPlaces, Members
  <2>. HIDE DEF Q, n
  <2>. QED  BY <2>1, <2>2 DEF Injection, IsInjective
<1>4. place \in Surjection(Q, 1..n)
  <2>. HIDE DEF Q, n, place
  <2>. QED  BY <1>1, <1>2, <1>3, FS_Injection DEF n
<1>5. \A k \in 1..n : \E a \in Q : queue[a] = k
  <2>. HIDE DEF Q, n
  <2>. QED  BY <1>4 DEF Surjection
<1>6. \A a \in Q : queue[a] \in 1..n
  BY <1>1 DEF Orderly, Members
<1>. QED  BY <1>5, <1>6

-----------------------------------------------------------------------------
(* The methods.                                                            *)

LEMMA EmptyRegistryInv == RegistryInv(EmptyRegistry)
<1> DEFINE r == EmptyRegistry
<1>1. r \in Registry
  BY ExpirationsAssumption DEF EmptyRegistry, Registry, NoEntry, AssetEntry
<1>2. Indexed(r)
  BY ConnsAssumption DEF EmptyRegistry, Indexed, StatusIndexed, MarketIndexed,
     ConnectionIndexed, NoEntry, HasStatus, Status, Tracked
<1>3. Orderly(r.pendingQueue)
  <2>1. Members(r.pendingQueue) = {}
    BY DEF EmptyRegistry, Members
  <2>2. Cardinality(Members(r.pendingQueue)) = 0
    BY <2>1, FS_EmptySet
  <2>. QED  BY <2>2 DEF EmptyRegistry, Orderly, DistinctPlaces
<1>4. QueuedUnsubscribed(r)
  BY DEF QueuedUnsubscribed, Queued, EmptyRegistry
<1>. QED  BY <1>1, <1>2, <1>3, <1>4 DEF RegistryInv

(* add_asset puts the new asset at a place nobody has.                     *)
LEMMA AddAssetInv ==
    ASSUME NEW r, RegistryInv(r), NEW a \in Assets, NEW m \in Conditions,
           NEW e \in Expirations, NEW t \in Nat
    PROVE  RegistryInv(AddAsset(r, a, m, e, t))
<1> DEFINE after == AddAsset(r, a, m, e, t)
           queue == r.pendingQueue
           n == PendingCount(r)
<1>0. r \in Registry /\ Indexed(r) /\ Orderly(queue) /\ QueuedUnsubscribed(r)
  BY DEF RegistryInv
<1>1. CASE a \in Tracked(r)
  BY <1>1 DEF AddAsset
<1>2. CASE a \notin Tracked(r)
  <2>1. queue \in [Assets -> Nat] /\ n \in Nat /\ n = Cardinality(Members(queue))
    BY <1>0, AssetsAssumption, FS_Subset, FS_CardinalityType, Queued(r) \subseteq Assets
       DEF Registry, PendingCount, Queued, Members
  <2>2. /\ r.assets[a].status = "ABSENT"
        /\ queue[a] = 0
        /\ \A s \in Status : a \notin r.byStatus[s]
    BY <1>0, <1>2, <2>1 DEF Tracked, QueuedUnsubscribed, Queued, Indexed, StatusIndexed,
       HasStatus, Registry, Status
  <2>3. /\ after.assets = [r.assets EXCEPT ![a] =
                  [status |-> "PENDING", condition |-> m, conn |-> NoConn, exp |-> e, since |-> t]]
        /\ after.byCondition = [r.byCondition EXCEPT ![m] = @ \cup {a}]
        /\ after.byConnection = r.byConnection
        /\ after.byStatus = [r.byStatus EXCEPT !["PENDING"] = @ \cup {a}]
        /\ after.byExpiration = IF e > 0 THEN [r.byExpiration EXCEPT ![e] = @ \cup {a}]
                                        ELSE r.byExpiration
        /\ after.pendingQueue = [queue EXCEPT ![a] = n + 1]
    BY <1>0, <1>2 DEF AddAsset, Registry
  <2>4. after \in Registry
    BY <1>0, <1>2, <2>1 DEF AddAsset, Registry, AssetEntry, Status
  <2>. HIDE DEF after
  <2>5. StatusIndexed(after)
    BY <1>0, <2>2, <2>3 DEF Indexed, StatusIndexed, HasStatus, Status, Registry
  <2>6. MarketIndexed(after)
    <3>1. \A b \in Assets : b # a => after.assets[b] = r.assets[b]
      BY <1>0, <2>3 DEF Registry
    <3>2. /\ after.assets[a].status = "PENDING"
          /\ after.assets[a].condition = m
          /\ after.assets[a].exp = e
      BY <1>0, <2>3 DEF Registry
    <3>3. Tracked(after) = Tracked(r) \cup {a}
      BY <3>1, <3>2 DEF Tracked
    <3>4. ASSUME NEW x \in Conditions
          PROVE  after.byCondition[x] = {b \in Tracked(after) : after.assets[b].condition = x}
      <4>1. r.byCondition[x] = {b \in Tracked(r) : r.assets[b].condition = x}
        BY <1>0 DEF Indexed, MarketIndexed
      <4>2. after.byCondition[x] = IF x = m THEN r.byCondition[x] \cup {a} ELSE r.byCondition[x]
        BY <1>0, <2>3 DEF Registry
      <4>. QED  BY <1>2, <3>1, <3>2, <3>3, <4>1, <4>2 DEF Tracked
    <3>5. ASSUME NEW x \in Expirations
          PROVE  after.byExpiration[x] =
                     IF x = 0 THEN {} ELSE {b \in Tracked(after) : after.assets[b].exp = x}
      <4>1. r.byExpiration[x] = IF x = 0 THEN {} ELSE {b \in Tracked(r) : r.assets[b].exp = x}
        BY <1>0 DEF Indexed, MarketIndexed
      <4>2. after.byExpiration[x] = IF x = e /\ e > 0 THEN r.byExpiration[x] \cup {a}
                                    ELSE r.byExpiration[x]
        <5>1. CASE e > 0
          <6>1. after.byExpiration = [r.byExpiration EXCEPT ![e] = r.byExpiration[e] \cup {a}]
            BY <2>3, <5>1
          <6>2. r.byExpiration \in [Expirations -> SUBSET Assets]
            BY <1>0 DEF Registry
          <6>. QED  BY <5>1, <6>1, <6>2
        <5>2. CASE ~(e > 0)
          BY <2>3, <5>2
        <5>. QED  BY <5>1, <5>2
      <4>3. CASE x = e /\ e > 0
        <5>1. x # 0
          BY <4>3, ExpirationsAssumption
        <5>. QED  BY <1>2, <3>1, <3>2, <3>3, <4>1, <4>2, <4>3, <5>1 DEF Tracked
      <4>4. CASE ~(x = e /\ e > 0)
        <5>1. x # e \/ x = 0
          BY <4>4, ExpirationsAssumption
        <5>. QED  BY <1>2, <3>1, <3>2, <3>3, <4>1, <4>2, <4>4, <5>1 DEF Tracked
      <4>. QED  BY <4>3, <4>4
    <3>. QED  BY <3>4, <3>5 DEF MarketIndexed
  <2>7. ConnectionIndexed(after)
    BY <1>0, <2>3, ConnsAssumption DEF Indexed, ConnectionIndexed, Registry
  <2>8. Orderly(after.pendingQueue)
    <3>1. Members(after.pendingQueue) = Members(queue) \cup {a}
      <4>1. \A b \in Assets : after.pendingQueue[b] = IF b = a THEN n + 1 ELSE queue[b]
        BY <2>1, <2>3
      <4>. HIDE DEF n, queue
      <4>. QED  BY <2>1, <4>1 DEF Members
    <3>2. a \notin Members(queue) /\ IsFiniteSet(Members(queue))
      BY <2>2, AssetsAssumption, FS_Subset DEF Members
    <3>3. Cardinality(Members(after.pendingQueue)) = n + 1
      <4>. HIDE DEF n, queue
      <4>1. Cardinality(Members(queue) \cup {a}) =
              IF a \in Members(queue) THEN Cardinality(Members(queue)) ELSE Cardinality(Members(queue)) + 1
        BY <3>2, FS_AddElement
      <4>. QED  BY <2>1, <3>1, <3>2, <4>1
    <3>. QED  BY <1>0, <2>1, <2>3, <3>3 DEF Orderly, DistinctPlaces
  <2>9. QueuedUnsubscribed(after)
    BY <1>0, <2>1, <2>3 DEF QueuedUnsubscribed, Queued, Registry
  <2>. QED  BY <2>4, <2>5, <2>6, <2>7, <2>8, <2>9 DEF RegistryInv, Indexed, after
<1>. QED  BY <1>1, <1>2

(* The market indexes stay exact when a call leaves them, the assets that  *)
(* are tracked, their markets and their expirations alone.                 *)
LEMMA SameMarkets ==
    ASSUME NEW r, NEW after, MarketIndexed(r),
           Tracked(after) = Tracked(r),
           after.byCondition = r.byCondition, after.byExpiration = r.byExpiration,
           \A a \in Assets : /\ after.assets[a].condition = r.assets[a].condition
                             /\ after.assets[a].exp = r.assets[a].exp
    PROVE  MarketIndexed(after)
<1>1. ASSUME NEW m \in Conditions
      PROVE  after.byCondition[m] = {a \in Tracked(after) : after.assets[a].condition = m}
  <2>1. r.byCondition[m] = {a \in Tracked(r) : r.assets[a].condition = m}
    BY DEF MarketIndexed
  <2>. QED  BY <2>1 DEF Tracked
<1>2. ASSUME NEW e \in Expirations
      PROVE  after.byExpiration[e] =
                 IF e = 0 THEN {} ELSE {a \in Tracked(after) : after.assets[a].exp = e}
  <2>1. r.byExpiration[e] = IF e = 0 THEN {} ELSE {a \in Tracked(r) : r.assets[a].exp = e}
    BY DEF MarketIndexed
  <2>. QED  BY <2>1 DEF Tracked
<1>. QED  BY <1>1, <1>2 DEF MarketIndexed

LEMMA MarkSubscribedInv ==
    ASSUME NEW r, RegistryInv(r), NEW S \in SUBSET Assets, NEW c \in Conns, NEW t \in Nat
    PROVE  RegistryInv(MarkSubscribed(r, S, c, t))
<1> DEFINE M == S \cap Tracked(r)
           after == MarkSubscribed(r, S, c, t)
           queue == r.pendingQueue
<1>0. r \in Registry /\ Indexed(r) /\ Orderly(queue) /\ QueuedUnsubscribed(r)
  BY DEF RegistryInv
<1>1. /\ after.assets = [a \in Assets |->
             IF a \in M THEN Subscribed(r.assets[a], c, t) ELSE r.assets[a]]
      /\ after.byCondition = r.byCondition
      /\ after.byConnection = [r.byConnection EXCEPT ![c] = @ \cup M]
      /\ after.byStatus = MoveStatus(r, M, "SUBSCRIBED")
      /\ after.byExpiration = r.byExpiration
      /\ after.pendingQueue = Dequeue(queue, M)
  BY <1>0 DEF MarkSubscribed, Registry
<1>2. /\ queue \in [Assets -> Nat]
      /\ Dequeue(queue, M) \in [Assets -> Nat]
      /\ Members(Dequeue(queue, M)) = Members(queue) \ M
      /\ Orderly(Dequeue(queue, M))
  <2>1. queue \in [Assets -> Nat] /\ M \in SUBSET Assets
    BY <1>0 DEF Registry
  <2>. QED  BY <1>0, <2>1, DequeueOrder, DequeueOrderly DEF Orderly
<1>3. after \in Registry
  <2>1. after.assets \in [Assets -> AssetEntry]
    BY <1>0, <1>1 DEF Registry, AssetEntry, Status, Subscribed, Expired
  <2>2. after.byStatus \in [Status -> SUBSET Assets]
    BY <1>0, <1>1 DEF Registry, MoveStatus
  <2>. QED  BY <1>0, <1>1, <1>2, <2>1, <2>2 DEF MarkSubscribed, Registry
<1>. HIDE DEF after
<1>4. StatusIndexed(after)
  BY <1>0, <1>1 DEF Indexed, StatusIndexed, MoveStatus, HasStatus, Status, Registry, AssetEntry, Tracked,
     Subscribed, Expired
<1>5. \A a \in Assets : /\ after.assets[a].condition = r.assets[a].condition
                        /\ after.assets[a].exp = r.assets[a].exp
                        /\ after.assets[a].conn = IF a \in M THEN c ELSE r.assets[a].conn
                        /\ after.assets[a].status = IF a \in M THEN "SUBSCRIBED" ELSE r.assets[a].status
  BY <1>0, <1>1 DEF Registry, AssetEntry, Subscribed, Expired
<1>6. Tracked(after) = Tracked(r)
  BY <1>5 DEF Tracked
<1>7. MarketIndexed(after)
  BY <1>0, <1>1, <1>5, <1>6, SameMarkets DEF Indexed
<1>8. ConnectionIndexed(after)
  BY <1>0, <1>1, <1>5 DEF Indexed, ConnectionIndexed, Registry
<1>9. QueuedUnsubscribed(after)
  BY <1>0, <1>1, <1>2, <1>5 DEF QueuedUnsubscribed, Queued, Members
<1>. QED  BY <1>1, <1>2, <1>3, <1>4, <1>7, <1>8, <1>9 DEF RegistryInv, Indexed, after

LEMMA MarkExpiredInv ==
    ASSUME NEW r, RegistryInv(r), NEW S \in SUBSET Assets
    PROVE  RegistryInv(MarkExpired(r, S))
<1> DEFINE M == {a \in S \cap Tracked(r) : ~HasStatus(r, a, "EXPIRED")}
           after == MarkExpired(r, S)
<1>0. r \in Registry /\ Indexed(r) /\ Orderly(r.pendingQueue) /\ QueuedUnsubscribed(r)
  BY DEF RegistryInv
<1>1. /\ after.assets = [a \in Assets |->
             IF a \in M THEN Expired(r.assets[a]) ELSE r.assets[a]]
      /\ after.byCondition = r.byCondition
      /\ after.byConnection = r.byConnection
      /\ after.byStatus = MoveStatus(r, M, "EXPIRED")
      /\ after.byExpiration = r.byExpiration
      /\ after.pendingQueue = r.pendingQueue
  BY <1>0 DEF MarkExpired, Registry
<1>3. after \in Registry
  <2>1. after.assets \in [Assets -> AssetEntry]
    BY <1>0, <1>1 DEF Registry, AssetEntry, Status, Subscribed, Expired
  <2>2. after.byStatus \in [Status -> SUBSET Assets]
    BY <1>0, <1>1 DEF Registry, MoveStatus
  <2>. QED  BY <1>0, <1>1, <2>1, <2>2 DEF MarkExpired, Registry
<1>. HIDE DEF after
<1>4. StatusIndexed(after)
  BY <1>0, <1>1 DEF Indexed, StatusIndexed, MoveStatus, HasStatus, Status, Registry, AssetEntry, Tracked,
     Subscribed, Expired
<1>5. \A a \in Assets : /\ after.assets[a].condition = r.assets[a].condition
                        /\ after.assets[a].exp = r.assets[a].exp
                        /\ after.assets[a].conn = r.assets[a].conn
                        /\ after.assets[a].status = IF a \in M THEN "EXPIRED" ELSE r.assets[a].status
  BY <1>0, <1>1 DEF Registry, AssetEntry, Subscribed, Expired
<1>6. Tracked(after) = Tracked(r)
  BY <1>5 DEF Tracked
<1>7. MarketIndexed(after)
  BY <1>0, <1>1, <1>5, <1>6, SameMarkets DEF Indexed
<1>8. ConnectionIndexed(after)
  BY <1>0, <1>1, <1>5 DEF Indexed, ConnectionIndexed
<1>9. QueuedUnsubscribed(after)
  BY <1>0, <1>1, <1>5 DEF QueuedUnsubscribed, Queued
<1>. QED  BY <1>0, <1>1, <1>3, <1>4, <1>7, <1>8, <1>9 DEF RegistryInv, Indexed, after

LEMMA TakePendingBatchInv ==
    ASSUME NEW r, RegistryInv(r), NEW n \in Nat
    PROVE  RegistryInv(TakePendingBatch(r, n))
<1> DEFINE B == PendingBatch(r, n)
           after == TakePendingBatch(r, n)
           queue == r.pendingQueue
<1>0. r \in Registry /\ Indexed(r) /\ Orderly(queue) /\ QueuedUnsubscribed(r)
  BY DEF RegistryInv
<1>1. /\ after.assets = r.assets
      /\ after.byCondition = r.byCondition
      /\ after.byConnection = r.byConnection
      /\ after.byStatus = r.byStatus
      /\ after.byExpiration = r.byExpiration
      /\ after.pendingQueue = Dequeue(queue, B)
  BY DEF TakePendingBatch
<1>2. /\ Dequeue(queue, B) \in [Assets -> Nat]
      /\ Members(Dequeue(queue, B)) = Members(queue) \ B
      /\ Orderly(Dequeue(queue, B))
  <2>1. queue \in [Assets -> Nat] /\ B \in SUBSET Assets
    BY <1>0 DEF Registry, PendingBatch, Queued
  <2>. QED  BY <1>0, <2>1, DequeueOrder, DequeueOrderly DEF Orderly
<1>3. after \in Registry
  BY <1>0, <1>2 DEF TakePendingBatch, Registry
<1>. HIDE DEF after
<1>4. Indexed(after)
  <2>1. Tracked(after) = Tracked(r)
    BY <1>1 DEF Tracked
  <2>. QED  BY <1>0, <1>1, <2>1, SameMarkets
            DEF Indexed, StatusIndexed, ConnectionIndexed, HasStatus
<1>5. QueuedUnsubscribed(after)
  BY <1>0, <1>1, <1>2 DEF QueuedUnsubscribed, Queued, Members
<1>. QED  BY <1>1, <1>2, <1>3, <1>4, <1>5 DEF RegistryInv, after

LEMMA ReassignConnectionInv ==
    ASSUME NEW r, RegistryInv(r), NEW S \in SUBSET Assets, NEW old \in Conns, NEW new \in Conns
    PROVE  RegistryInv(ReassignConnection(r, S, old, new))
<1> DEFINE M == Reassignable(r, S, old)
           after == ReassignConnection(r, S, old, new)
<1>0. r \in Registry /\ Indexed(r) /\ Orderly(r.pendingQueue) /\ QueuedUnsubscribed(r)
  BY DEF RegistryInv
<1>1. /\ after.assets = [a \in Assets |->
             IF a \in M THEN OnConnection(r.assets[a], new) ELSE r.assets[a]]
      /\ after.byCondition = r.byCondition
      /\ after.byConnection = [c \in Conns |->
             IF c = new THEN r.byConnection[c] \cup M
             ELSE IF c = old THEN r.byConnection[c] \ M ELSE r.byConnection[c]]
      /\ after.byStatus = r.byStatus
      /\ after.byExpiration = r.byExpiration
      /\ after.pendingQueue = r.pendingQueue
  BY DEF ReassignConnection
<1>2. M \subseteq Assets /\ \A a \in M : r.assets[a].conn = old
  BY DEF Reassignable
<1>3. after \in Registry
  <2>1. after.assets \in [Assets -> AssetEntry]
    BY <1>0, <1>1, <1>2 DEF Registry, AssetEntry, OnConnection
  <2>2. after.byConnection \in [Conns -> SUBSET Assets]
    BY <1>0, <1>1, <1>2 DEF Registry
  <2>. QED  BY <1>0, <1>1, <2>1, <2>2 DEF ReassignConnection, Registry
<1>. HIDE DEF after
<1>4. \A a \in Assets : /\ after.assets[a].condition = r.assets[a].condition
                        /\ after.assets[a].exp = r.assets[a].exp
                        /\ after.assets[a].conn = IF a \in M THEN new ELSE r.assets[a].conn
                        /\ after.assets[a].status = r.assets[a].status
  BY <1>0, <1>1 DEF Registry, AssetEntry, OnConnection
<1>5. Tracked(after) = Tracked(r)
  BY <1>4 DEF Tracked
<1>6. StatusIndexed(after)
  BY <1>0, <1>1, <1>4 DEF Indexed, StatusIndexed, HasStatus
<1>7. MarketIndexed(after)
  BY <1>0, <1>1, <1>4, <1>5, SameMarkets DEF Indexed
<1>8. ConnectionIndexed(after)
  <2>. HIDE DEF M
  <2>. QED  BY <1>0, <1>1, <1>2, <1>4 DEF Indexed, ConnectionIndexed
<1>9. QueuedUnsubscribed(after)
  BY <1>0, <1>1, <1>4 DEF QueuedUnsubscribed, Queued
<1>. QED  BY <1>0, <1>1, <1>3, <1>6, <1>7, <1>8, <1>9 DEF RegistryInv, Indexed, after

LEMMA RemoveConnectionInv ==
    ASSUME NEW r, RegistryInv(r), NEW c \in Conns
    PROVE  RegistryInv(RemoveConnection(r, c))
<1> DEFINE M == {a \in Assets : a \in r.byConnection[c] /\ r.assets[a].conn = c}
           after == RemoveConnection(r, c)
<1>0. r \in Registry /\ Indexed(r) /\ Orderly(r.pendingQueue) /\ QueuedUnsubscribed(r)
  BY DEF RegistryInv
<1>1. /\ after.assets = [a \in Assets |->
             IF a \in M THEN OnConnection(r.assets[a], NoConn) ELSE r.assets[a]]
      /\ after.byCondition = r.byCondition
      /\ after.byConnection = [r.byConnection EXCEPT ![c] = {}]
      /\ after.byStatus = r.byStatus
      /\ after.byExpiration = r.byExpiration
      /\ after.pendingQueue = r.pendingQueue
  BY DEF RemoveConnection
<1>3. after \in Registry
  <2>1. after.assets \in [Assets -> AssetEntry]
    BY <1>0, <1>1 DEF Registry, AssetEntry, OnConnection
  <2>2. after.byConnection \in [Conns -> SUBSET Assets]
    BY <1>0, <1>1 DEF Registry
  <2>. QED  BY <1>0, <1>1, <2>1, <2>2 DEF RemoveConnection, Registry
<1>. HIDE DEF after
<1>4. \A a \in Assets : /\ after.assets[a].condition = r.assets[a].condition
                        /\ after.assets[a].exp = r.assets[a].exp
                        /\ after.assets[a].conn = IF a \in M THEN NoConn ELSE r.assets[a].conn
                        /\ after.assets[a].status = r.assets[a].status
  BY <1>0, <1>1 DEF Registry, AssetEntry, OnConnection
<1>5. Tracked(after) = Tracked(r)
  BY <1>4 DEF Tracked
<1>6. StatusIndexed(after)
  BY <1>0, <1>1, <1>4 DEF Indexed, StatusIndexed, HasStatus
<1>7. MarketIndexed(after)
  BY <1>0, <1>1, <1>4, <1>5, SameMarkets DEF Indexed
<1>8. ConnectionIndexed(after)
  BY <1>0, <1>1, <1>4, ConnsAssumption DEF Indexed, ConnectionIndexed, Registry
<1>9. QueuedUnsubscribed(after)
  BY <1>0, <1>1, <1>4 DEF QueuedUnsubscribed, Queued
<1>. QED  BY <1>0, <1>1, <1>3, <1>6, <1>7, <1>8, <1>9 DEF RegistryInv, Indexed, after

LEMMA RemoveAssetsInv ==
    ASSUME NEW r, RegistryInv(r), NEW S \in SUBSET Assets
    PROVE  RegistryInv(RemoveAssets(r, S))
<1> DEFINE M == S \cap Tracked(r)
           after == RemoveAssets(r, S)
           queue == r.pendingQueue
<1>0. r \in Registry /\ Indexed(r) /\ Orderly(queue) /\ QueuedUnsubscribed(r)
  BY DEF RegistryInv
<1>1. /\ after.assets = [a \in Assets |-> IF a \in M THEN NoEntry ELSE r.assets[a]]
      /\ after.byCondition = [m \in Conditions |->
             r.byCondition[m] \ {a \in M : r.assets[a].condition = m}]
      /\ after.byConnection = [c \in Conns |->
             r.byConnection[c] \ {a \in M : r.assets[a].conn = c}]
      /\ after.byStatus = [s \in Status |-> r.byStatus[s] \ {a \in M : HasStatus(r, a, s)}]
      /\ after.byExpiration = [e \in Expirations |->
             r.byExpiration[e] \ {a \in M : r.assets[a].exp = e}]
      /\ after.pendingQueue = Dequeue(queue, M)
  BY DEF RemoveAssets
<1>2. /\ Dequeue(queue, M) \in [Assets -> Nat]
      /\ Members(Dequeue(queue, M)) = Members(queue) \ M
      /\ Orderly(Dequeue(queue, M))
  <2>1. queue \in [Assets -> Nat] /\ M \in SUBSET Assets
    BY <1>0 DEF Registry
  <2>. QED  BY <1>0, <2>1, DequeueOrder, DequeueOrderly DEF Orderly
<1>3. after \in Registry
  <2>1. NoEntry \in AssetEntry
    BY ExpirationsAssumption DEF NoEntry, AssetEntry
  <2>2. after.assets \in [Assets -> AssetEntry]
    BY <1>0, <1>1, <2>1 DEF Registry
  <2>3. /\ after.byConnection \in [Conns -> SUBSET Assets]
        /\ after.byCondition \in [Conditions -> SUBSET Assets]
        /\ after.byStatus \in [Status -> SUBSET Assets]
        /\ after.byExpiration \in [Expirations -> SUBSET Assets]
    BY <1>0, <1>1 DEF Registry
  <2>. QED  BY <1>1, <1>2, <2>2, <2>3 DEF RemoveAssets, Registry
<1>. HIDE DEF after
<1>4. \A a \in Assets : after.assets[a] = IF a \in M THEN NoEntry ELSE r.assets[a]
  BY <1>1
<1>5. M \subseteq Assets
  BY DEF Tracked
<1>6. Tracked(after) = Tracked(r) \ M
  <2>1. NoEntry.status = "ABSENT"
    BY DEF NoEntry
  <2>. HIDE DEF M
  <2>. QED  BY <1>4, <2>1 DEF Tracked
<1>7. StatusIndexed(after)
  <2>. SUFFICES ASSUME NEW s \in Status
                PROVE  after.byStatus[s] = {a \in Assets : HasStatus(after, a, s)}
    BY DEF StatusIndexed
  <2>1. r.byStatus[s] = {a \in Assets : HasStatus(r, a, s)}
    BY <1>0 DEF Indexed, StatusIndexed
  <2>2. NoEntry.status # s
    BY DEF NoEntry, Status
  <2>3. after.byStatus[s] = r.byStatus[s] \ {a \in M : HasStatus(r, a, s)}
    BY <1>1
  <2>. HIDE DEF M
  <2>. QED  BY <1>4, <1>5, <2>1, <2>2, <2>3 DEF HasStatus
<1>8. MarketIndexed(after)
  <2>1. ASSUME NEW x \in Conditions
        PROVE  after.byCondition[x] = {a \in Tracked(after) : after.assets[a].condition = x}
    <3>1. r.byCondition[x] = {a \in Tracked(r) : r.assets[a].condition = x}
      BY <1>0 DEF Indexed, MarketIndexed
    <3>2. after.byCondition[x] = r.byCondition[x] \ {a \in M : r.assets[a].condition = x}
      BY <1>1
    <3>3. Tracked(r) \subseteq Assets
      BY DEF Tracked
    <3>. HIDE DEF M
    <3>. QED  BY <1>4, <1>5, <1>6, <3>1, <3>2, <3>3
  <2>2. ASSUME NEW x \in Expirations
        PROVE  after.byExpiration[x] =
                   IF x = 0 THEN {} ELSE {a \in Tracked(after) : after.assets[a].exp = x}
    <3>1. r.byExpiration[x] = IF x = 0 THEN {} ELSE {a \in Tracked(r) : r.assets[a].exp = x}
      BY <1>0 DEF Indexed, MarketIndexed
    <3>2. after.byExpiration[x] = r.byExpiration[x] \ {a \in M : r.assets[a].exp = x}
      BY <1>1
    <3>3. Tracked(r) \subseteq Assets
      BY DEF Tracked
    <3>. HIDE DEF M
    <3>. QED  BY <1>4, <1>5, <1>6, <3>1, <3>2, <3>3
  <2>. QED  BY <2>1, <2>2 DEF MarketIndexed
<1>9. ConnectionIndexed(after)
  <2>. SUFFICES ASSUME NEW a \in Assets, NEW c \in Conns, after.assets[a].conn = c
                PROVE  a \in after.byConnection[c]
    BY DEF ConnectionIndexed
  <2>1. a \notin M
    BY <1>4, ConnsAssumption DEF NoEntry
  <2>2. a \in r.byConnection[c]
    BY <1>0, <1>4, <2>1 DEF Indexed, ConnectionIndexed
  <2>. QED  BY <1>1, <2>1, <2>2
<1>10. QueuedUnsubscribed(after)
  <2>. SUFFICES ASSUME NEW a \in Queued(after)
                PROVE  after.assets[a].status \in {"PENDING", "EXPIRED"}
    BY DEF QueuedUnsubscribed
  <2>1. a \in Assets /\ a \in Queued(r) /\ a \notin M
    BY <1>1, <1>2 DEF Queued, Members
  <2>. QED  BY <1>0, <1>4, <2>1 DEF QueuedUnsubscribed
<1>. QED  BY <1>1, <1>2, <1>3, <1>7, <1>8, <1>9, <1>10 DEF RegistryInv, Indexed, after

-----------------------------------------------------------------------------
(* The specification.                                                      *)

(* Whatever the callers do, and in whatever order, the registry satisfies  *)
(* its invariant.                                                          *)
THEOREM RegistryInvariant == RegistrySpec => []RegistryInv(reg)
<1>1. RegistryInit => RegistryInv(reg)
  BY EmptyRegistryInv DEF RegistryInit
<1>2. RegistryInv(reg) /\ [RegistryNext]_reg => RegistryInv(reg)'
  <2>. SUFFICES ASSUME RegistryInv(reg), [RegistryNext]_reg
                PROVE  RegistryInv(reg')
    BY DEF RegistryInv, Indexed, StatusIndexed, MarketIndexed, ConnectionIndexed, QueuedUnsubscribed,
       Queued, Tracked, HasStatus
  <2>1. CASE DoAddAsset
    BY <2>1, AddAssetInv, TimesAssumption DEF DoAddAsset
  <2>2. CASE DoMarkSubscribed
    BY <2>2, MarkSubscribedInv, TimesAssumption DEF DoMarkSubscribed
  <2>3. CASE DoMarkExpired
    BY <2>3, MarkExpiredInv DEF DoMarkExpired
  <2>4. CASE DoTakePendingBatch
    <3>1. PICK n \in 0..(Target + 1) : reg' = TakePendingBatch(reg, n)
      BY <2>4 DEF DoTakePendingBatch
    <3>2. n \in Nat
      BY TargetAssumption
    <3>. QED  BY <3>1, <3>2, TakePendingBatchInv
  <2>5. CASE DoReassignConnection
    BY <2>5, ReassignConnectionInv DEF DoReassignConnection
  <2>6. CASE DoRemoveConnection
    BY <2>6, RemoveConnectionInv DEF DoRemoveConnection
  <2>7. CASE DoRemoveAsset
    BY <2>7, RemoveAssetsInv DEF DoRemoveAsset
  <2>8. CASE UNCHANGED reg
    BY <2>8
  <2>. QED  BY <2>1, <2>2, <2>3, <2>4, <2>5, <2>6, <2>7, <2>8 DEF RegistryNext
<1>. QED  BY <1>1, <1>2, PTL DEF RegistrySpec

(* Every index holds assets, every entry its fields, every place of the    *)
(* pending queue is a natural number.                                      *)
THEOREM TypeCorrect == RegistrySpec => []RegistryTypeOK
<1>1. RegistryInv(reg) => RegistryTypeOK
  BY DEF RegistryInv, RegistryTypeOK
<1>. QED  BY <1>1, RegistryInvariant, PTL

(* _by_status agrees with the status of every entry.                       *)
THEOREM StatusIndexCorrect == RegistrySpec => []StatusIndexExact
<1>1. RegistryInv(reg) => StatusIndexExact
  BY DEF RegistryInv, Indexed, StatusIndexExact
<1>. QED  BY <1>1, RegistryInvariant, PTL

(* _by_condition and _by_expiration agree with the tracked entries.        *)
THEOREM MarketIndexesCorrect == RegistrySpec => []MarketIndexesExact
<1>1. RegistryInv(reg) => MarketIndexesExact
  BY DEF RegistryInv, Indexed, MarketIndexesExact
<1>. QED  BY <1>1, RegistryInvariant, PTL

(* An entry's connection has the asset in its index, so that               *)
(* reassign_connection never raises KeyError.                              *)
THEOREM ConnectionIndexCorrect == RegistrySpec => []EntryConnectionIndexed
<1>1. RegistryInv(reg) => EntryConnectionIndexed
  BY DEF RegistryInv, Indexed, EntryConnectionIndexed
<1>. QED  BY <1>1, RegistryInvariant, PTL

(* The pending queue is a list of distinct tracked assets, none SUBSCRIBED.*)
THEOREM PendingQueueCorrect == RegistrySpec => []QueueSound
<1>1. RegistryInv(reg) => QueueSound
  <2>. SUFFICES ASSUME RegistryInv(reg) PROVE QueueSound
    OBVIOUS
  <2>1. reg.pendingQueue \in [Assets -> Nat] /\ Orderly(reg.pendingQueue)
    BY DEF RegistryInv, Registry
  <2>2. Queued(reg) = Members(reg.pendingQueue)
    BY DEF Queued, Members
  <2>3. {reg.pendingQueue[a] : a \in Queued(reg)} = 1..PendingCount(reg)
    BY <2>1, <2>2, PlacesContiguous DEF PendingCount
  <2>. QED  BY <2>3 DEF QueueSound, RegistryInv, QueuedUnsubscribed
<1>. QED  BY <1>1, RegistryInvariant, PTL

-----------------------------------------------------------------------------
(* The queue from one state to the next.                                   *)

Fifo(r, after) ==
    \A a, b \in Queued(r) :
        r.pendingQueue[a] < r.pendingQueue[b] =>
            /\ b \in Queued(after) /\ a \in Queued(after) =>
                  after.pendingQueue[a] < after.pendingQueue[b]
            /\ b \notin Queued(after) /\ after.assets = r.assets => a \notin Queued(after)

(* Taking the assets of S out keeps the order of the others.               *)
LEMMA FifoDequeue ==
    ASSUME NEW r, RegistryInv(r), NEW S \in SUBSET Assets,
           NEW after, after.pendingQueue = Dequeue(r.pendingQueue, S),
           \A a, b \in Queued(r) :
               r.pendingQueue[a] < r.pendingQueue[b] /\ b \in S /\ after.assets = r.assets => a \in S
    PROVE  Fifo(r, after)
<1>1. /\ Queued(r) = Members(r.pendingQueue)
      /\ Queued(after) = Members(after.pendingQueue)
  BY DEF Queued, Members
<1>2. /\ r.pendingQueue \in [Assets -> Nat]
      /\ DistinctPlaces(r.pendingQueue)
  BY DEF RegistryInv, Registry, Orderly
<1>3. /\ Queued(after) = Queued(r) \ S
      /\ \A a, b \in Queued(r) \ S :
            r.pendingQueue[a] < r.pendingQueue[b] => after.pendingQueue[a] < after.pendingQueue[b]
  BY <1>1, <1>2, DequeueOrder
<1>. QED  BY <1>3 DEF Fifo

(* An asset that leaves with its entry changed leaves for no batch.        *)
LeaveChanged(r, after, S) ==
    /\ after.pendingQueue = Dequeue(r.pendingQueue, S)
    /\ \A a \in S \cap Queued(r) : after.assets[a] # r.assets[a]

LEMMA FifoChanged ==
    ASSUME NEW r, RegistryInv(r), NEW S \in SUBSET Tracked(r), NEW after, LeaveChanged(r, after, S)
    PROVE  Fifo(r, after)
<1>1. S \in SUBSET Assets /\ after.pendingQueue = Dequeue(r.pendingQueue, S)
  BY DEF Tracked, LeaveChanged
<1>2. \A b \in Queued(r) : b \in S => after.assets # r.assets
  BY DEF LeaveChanged
<1>. QED  BY <1>1, <1>2, FifoDequeue

LEMMA FifoStep == RegistryInv(reg) /\ RegistryNext => Fifo(reg, reg')
<1>. SUFFICES ASSUME RegistryInv(reg), RegistryNext PROVE Fifo(reg, reg')
  OBVIOUS
<1>1. /\ \A a \in Queued(reg) : a \in Tracked(reg) /\ reg.assets[a].status # "SUBSCRIBED"
      /\ reg.pendingQueue \in [Assets -> Nat]
  BY DEF RegistryInv, Registry, QueuedUnsubscribed, Queued, Tracked
<1>2. reg'.pendingQueue = reg.pendingQueue => Fifo(reg, reg')
  BY DEF Fifo, Queued
<1>3. CASE DoAddAsset
  <2>1. PICK a \in Assets, m \in Conditions, e \in Expirations, t \in Times :
            reg' = AddAsset(reg, a, m, e, t)
    BY <1>3 DEF DoAddAsset
  <2>2. CASE a \in Tracked(reg)
    BY <1>2, <2>1, <2>2 DEF AddAsset
  <2>3. CASE a \notin Tracked(reg)
    <3>1. reg'.pendingQueue = [reg.pendingQueue EXCEPT ![a] = PendingCount(reg) + 1]
      BY <2>1, <2>3 DEF AddAsset
    <3>2. \A b \in Queued(reg) : b \in Assets /\ reg'.pendingQueue[b] = reg.pendingQueue[b]
      BY <1>1, <2>3, <3>1 DEF Queued
    <3>. QED  BY <3>2 DEF Fifo, Queued
  <2>. QED  BY <2>2, <2>3
<1>4. CASE DoMarkSubscribed
  <2>1. PICK S \in SUBSET Assets, c \in Conns, t \in Times : reg' = MarkSubscribed(reg, S, c, t)
    BY <1>4 DEF DoMarkSubscribed
  <2> DEFINE M == S \cap Tracked(reg)
  <2>2. /\ reg'.assets = [a \in Assets |-> IF a \in M THEN Subscribed(reg.assets[a], c, t) ELSE reg.assets[a]]
        /\ reg'.pendingQueue = Dequeue(reg.pendingQueue, M)
    BY <2>1 DEF MarkSubscribed
  <2>3. M \in SUBSET Tracked(reg) /\ M \subseteq Assets
    OBVIOUS
  <2>. HIDE DEF M
  <2>4. \A a \in M : reg'.assets[a].status = "SUBSCRIBED"
    BY <2>2, <2>3 DEF Subscribed
  <2>5. \A a \in M \cap Queued(reg) : reg'.assets[a] # reg.assets[a]
    BY <1>1, <2>4
  <2>6. LeaveChanged(reg, reg', M)
    BY <2>2, <2>5 DEF LeaveChanged
  <2>. QED  BY <2>3, <2>6, FifoChanged
<1>5. CASE DoTakePendingBatch
  <2>1. PICK n \in 0..(Target + 1) : reg' = TakePendingBatch(reg, n)
    BY <1>5 DEF DoTakePendingBatch
  <2> DEFINE B == PendingBatch(reg, n)
  <2>2. B \in SUBSET Assets /\ reg'.pendingQueue = Dequeue(reg.pendingQueue, B)
    BY <2>1 DEF TakePendingBatch, PendingBatch, Queued
  <2>3. \A a, b \in Queued(reg) : reg.pendingQueue[a] < reg.pendingQueue[b] /\ b \in B => a \in B
    <3>1. n \in Int /\ Target \in Int
      BY TargetAssumption
    <3>2. \A a \in Queued(reg) : reg.pendingQueue[a] \in Int
      BY <1>1 DEF Queued
    <3>. QED  BY <3>1, <3>2 DEF PendingBatch
  <2>. HIDE DEF B
  <2>. QED  BY <2>2, <2>3, FifoDequeue
<1>6. CASE DoRemoveAsset
  <2>1. PICK x \in Assets : reg' = RemoveAssets(reg, {x})
    BY <1>6 DEF DoRemoveAsset
  <2> DEFINE M == {x} \cap Tracked(reg)
  <2>2. /\ reg'.assets = [a \in Assets |-> IF a \in M THEN NoEntry ELSE reg.assets[a]]
        /\ reg'.pendingQueue = Dequeue(reg.pendingQueue, M)
    BY <2>1 DEF RemoveAssets
  <2>3. M \in SUBSET Tracked(reg) /\ M \subseteq Assets
    OBVIOUS
  <2>. HIDE DEF M
  <2>4. \A a \in M : reg'.assets[a].status = "ABSENT"
    BY <2>2, <2>3 DEF NoEntry
  <2>5. \A a \in M \cap Queued(reg) : reg'.assets[a] # reg.assets[a]
    BY <1>1, <2>4 DEF Tracked
  <2>6. LeaveChanged(reg, reg', M)
    BY <2>2, <2>5 DEF LeaveChanged
  <2>. QED  BY <2>3, <2>6, FifoChanged
<1>7. CASE DoMarkExpired \/ DoReassignConnection \/ DoRemoveConnection
  <2>1. /\ \A S : MarkExpired(reg, S).pendingQueue = reg.pendingQueue
        /\ \A S, old, new : ReassignConnection(reg, S, old, new).pendingQueue = reg.pendingQueue
        /\ \A c : RemoveConnection(reg, c).pendingQueue = reg.pendingQueue
    BY DEF MarkExpired, ReassignConnection, RemoveConnection
  <2>2. reg'.pendingQueue = reg.pendingQueue
    BY <1>7, <2>1 DEF DoMarkExpired, DoReassignConnection, DoRemoveConnection
  <2>. QED  BY <1>2, <2>2
<1>. QED  BY <1>3, <1>4, <1>5, <1>6, <1>7 DEF RegistryNext

(* First in, first out: no asset overtakes another in the pending queue,   *)
(* whichever assets are subscribed, removed or taken from its middle, and a*)
(* batch leaves nobody behind who waited longer than one of its own.       *)
THEOREM PendingQueueFifo == RegistrySpec => QueueFifo
<1>1. RegistryInv(reg) /\ [RegistryNext]_reg =>
        [\A a, b \in Queued(reg) :
          reg.pendingQueue[a] < reg.pendingQueue[b] =>
            /\ b \in Queued(reg') /\ a \in Queued(reg') =>
                  reg'.pendingQueue[a] < reg'.pendingQueue[b]
            /\ b \notin Queued(reg') /\ reg'.assets = reg.assets =>
                  a \notin Queued(reg')]_reg
  BY FifoStep DEF Fifo
<1>. QED  BY <1>1, RegistryInvariant, PTL DEF RegistrySpec, QueueFifo

=============================================================================

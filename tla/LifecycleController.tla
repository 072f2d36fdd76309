------------------------ MODULE LifecycleController ------------------------
(***************************************************************************)
(* The lifecycle controller (src/lifecycle/controller.py): it registers the*)
(* assets of markets it discovers or is told of, marks subscribed assets as*)
(* expired once their market has ended, and removes expired assets.        *)
(*                                                                         *)
(* Each of its three loops sleeps (discovery also waits for the HTTP fetch,*)
(* whose result it then handles) and runs the step below without           *)
(* suspending: the callbacks the application passes only log.              *)
(***************************************************************************)
EXTENDS AssetRegistry, Clock

CONSTANTS
    Market,             \* asset -> the market whose token list holds it
    EndTimestamp,       \* market -> MarketInfo.end_timestamp, 0 if unknown
    CleanupDelay        \* CLEANUP_DELAY (1 hour)

ASSUME MarketAssumption == Market \in [Assets -> Conditions]
ASSUME EndAssumption == EndTimestamp \in [Conditions -> Expirations]
ASSUME CleanupAssumption == CleanupDelay \in Nat

VARIABLES
    knownConditions,    \* _known_conditions
    lifecycleRunning    \* _running

lifecycleVars == <<knownConditions, lifecycleRunning>>

LifecycleTypeOK ==
    /\ knownConditions \in SUBSET Conditions
    /\ lifecycleRunning \in BOOLEAN

LifecycleInit ==
    /\ knownConditions = {}
    /\ lifecycleRunning = TRUE

-----------------------------------------------------------------------------
(* The orders in which the calls of add_asset can come.                    *)
Orders(S) ==
    {f \in [S -> 1..Cardinality(S)] : \A a, b \in S : f[a] = f[b] => a = b}

(* add_asset for the assets of S, which are not tracked, in that order.    *)
AddAssets(r, S, order) ==
    [assets |-> [a \in Assets |->
         IF a \in S
         THEN [status |-> "PENDING", condition |-> Market[a], conn |-> NoConn,
               exp |-> EndTimestamp[Market[a]], since |-> now]
         ELSE r.assets[a]],
     byCondition |-> [m \in Conditions |->
         r.byCondition[m] \cup {a \in S : Market[a] = m}],
     byConnection |-> r.byConnection,
     byStatus |-> [s \in Status |->
         IF s = "PENDING" THEN r.byStatus[s] \cup S ELSE r.byStatus[s]],
     byExpiration |-> [e \in Expirations |->
         IF e = 0 THEN r.byExpiration[e]
         ELSE r.byExpiration[e] \cup {a \in S : EndTimestamp[Market[a]] = e}],
     pendingQueue |-> [a \in Assets |->
         IF a \in S THEN PendingCount(r) + order[a] ELSE r.pendingQueue[a]]]

(* _discover_markets with a fetch that returned the markets M besides the  *)
(* known ones.  A market once known is never looked at again.              *)
DiscoverMarkets ==
    /\ lifecycleRunning
    /\ \E M \in SUBSET (Conditions \ knownConditions) :
        LET new == {a \in Assets : Market[a] \in M} \ Tracked(reg)
        IN  /\ M # {}
            /\ knownConditions' = knownConditions \cup M
            /\ \E order \in Orders(new) : reg' = AddAssets(reg, new, order)
    /\ UNCHANGED <<lifecycleRunning, now>>

(* add_market_manually, with any expiration.                               *)
AddMarketManually ==
    /\ \E a \in Assets \ Tracked(reg), e \in Expirations :
        /\ reg' = AddAsset(reg, a, Market[a], e, now)
        /\ knownConditions' = knownConditions \cup {Market[a]}
    /\ UNCHANGED <<lifecycleRunning, now>>

(* _check_expirations: only SUBSCRIBED assets expire.                      *)
CheckExpirations ==
    LET expiring == ExpiringBefore(reg, now) \cap reg.byStatus["SUBSCRIBED"]
    IN  /\ lifecycleRunning
        /\ expiring # {}
        /\ reg' = MarkExpired(reg, expiring)
        /\ UNCHANGED <<knownConditions, lifecycleRunning, now>>

(* _cleanup_expired: the age is counted from the subscription.             *)
CleanupExpired ==
    LET old == {a \in reg.byStatus["EXPIRED"] : now - reg.assets[a].since > CleanupDelay}
    IN  /\ lifecycleRunning
        /\ old # {}
        /\ reg' = RemoveAssets(reg, old)
        /\ UNCHANGED <<knownConditions, lifecycleRunning, now>>

(* stop().                                                                 *)
LifecycleStop ==
    /\ lifecycleRunning
    /\ lifecycleRunning' = FALSE
    /\ UNCHANGED <<knownConditions, reg, now>>

=============================================================================

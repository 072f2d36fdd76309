--------------------------- MODULE MCControlPlane ---------------------------
(* ControlPlane for TLC.  One market with all the assets; the clock goes   *)
(* far enough for an asset to expire, to be cleaned up and to come back.   *)
EXTENDS ControlPlane, TLC

CONSTANT m1

MCExpirations == {0, 1}
MCTimes == {0}
MCMarket == [a \in Assets |-> m1]
MCEndTimestamp == [m \in Conditions |-> 1]

(* Some of the behaviours of RunningSpec: one fetch brings all the assets, *)
(* they are subscribed before the first check, and the only news from the  *)
(* network is that a replacement is up.                                    *)
FleetNext ==
    /\ RunningNext
    /\ Tracked(reg') = Assets
    /\ task' # task => Queued(reg) = {}
    /\ \A c \in Conns : wsStatus'[c] # wsStatus[c] /\ wsStatus'[c] # "CLOSED" /\ c \in pool =>
            \E t \in Tasks : task[t].new = c /\ wsStatus'[c] = "HEALTHY"

FleetSpec == Init /\ [][FleetNext]_vars

Symmetry == Permutations(Assets) \cup Permutations(Conns)
            \cup Permutations(MonitorTasks) \cup Permutations(ManualTasks)

=============================================================================

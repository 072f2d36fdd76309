--------------------------- MODULE ConnectionView ---------------------------
(* What the pool and the recycler rely on when they look at a connection   *)
(* (module ConnectionPool keeps exactly this of each one): it is not       *)
(* healthy until it is first connected, comes and goes with the network,   *)
(* and once stopped is closed for good.                                    *)
VARIABLE view

ViewInit == view = "UNHEALTHY"

Up == view = "UNHEALTHY" /\ view' = "HEALTHY"

Down == view = "HEALTHY" /\ view' = "UNHEALTHY"

Close == view # "CLOSED" /\ view' = "CLOSED"

ViewNext == Up \/ Down \/ Close

ViewSpec == ViewInit /\ [][ViewNext]_view

=============================================================================

---------------------------- MODULE MCDiscovery ----------------------------
(* Discovery for TLC: of the records only a page's worth is not valid.     *)
EXTENDS Discovery

MCInit == Init /\ Cardinality(Markets \ Valid(Markets)) <= PageSize

MCSpec == MCInit /\ [][Next]_vars /\ Fairness

=============================================================================

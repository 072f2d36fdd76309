-------------------------- MODULE MCAssetRegistry --------------------------
(* AssetRegistry for TLC: every caller, every order of calls.              *)
EXTENDS AssetRegistry, TLC

MCExpirations == {0, 1}
MCTimes == {0}

Symmetry == Permutations(Assets) \cup Permutations(Conns) \cup Permutations(Conditions)

=============================================================================

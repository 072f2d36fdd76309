---------------------------- MODULE MCBookSync ----------------------------
(***************************************************************************)
(* The instance: ticks a tenth of a scaled price, two of which merge, and  *)
(* sizes of which the smaller scales to 0.                                 *)
(***************************************************************************)
EXTENDS BookSync

CONSTANTS f1, f2

MCScalePrice == [t \in Ticks |-> t \div 10]

MCScaleSize == [s \in Sizes \cup {0} |-> s \div 2]

MCSymmetry == Permutations(Feeds)

=============================================================================

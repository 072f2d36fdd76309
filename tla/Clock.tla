------------------------------- MODULE Clock -------------------------------
(***************************************************************************)
(* The time the components read.  time.monotonic() and time.time() are one *)
(* discrete clock: the code never compares a reading of one with a reading *)
(* of the other, and the properties only need how long ago.                *)
(***************************************************************************)
EXTENDS Naturals

CONSTANT MaxNow     \* bound of the clock, for TLC
ASSUME MaxNowAssumption == MaxNow \in Nat

VARIABLE now

ClockInit == now = 0

Advance == now < MaxNow /\ now' = now + 1

=============================================================================

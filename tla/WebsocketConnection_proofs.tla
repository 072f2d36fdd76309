--------------------- MODULE WebsocketConnection_proofs ---------------------
(***************************************************************************)
(* A stopped connection stays stopped, and stop() leaves nothing behind;   *)
(* the delays are those configured; for any delays and any bound on the    *)
(* failures counted.                                                       *)
(***************************************************************************)
EXTENDS WebsocketConnection, WellFoundedInduction, TLAPS

(* A stop sets the event, the status and the cancellation in one step, and *)
(* the cancellation is pending until the task is on its way out.           *)
StopCancels ==
    /\ stopEvent <=> status = "CLOSED"
    /\ stopEvent <=> cancelled \/ task \in {"closing", "done"}

(* What a call of stop() has waited for stays so.                          *)
StopWaits ==
    \A s \in Stoppers :
        /\ stopper[s] # "idle" => stopEvent
        /\ stopper[s] \in {"awaitClose", "returned"} => task = "done"
        /\ stopper[s] = "returned" => socket \in {"none", "closed"}

ConnectionInv == TypeOK /\ StopCancels /\ StopWaits

-----------------------------------------------------------------------------

(* Min of FiniteSetsExt, of two numbers.                                   *)
LEMMA MinOfTwo ==
    ASSUME NEW m \in Nat, NEW n \in Nat
    PROVE  Min({m, n}) = IF m <= n THEN m ELSE n
<1>1. CASE m <= n
  BY <1>1 DEF Min
<1>2. CASE ~(m <= n)
  BY <1>2 DEF Min
<1>. QED  BY <1>1, <1>2

(* An attempt that ended leaves the counters in their range.               *)
LEMMA RetryCounts ==
    ASSUME TypeOK
    PROVE  Min({failures + 1, FailuresCap}) \in 0..FailuresCap
<1>1. failures + 1 \in Nat /\ FailuresCap \in Nat
  BY FailuresCapAssumption DEF TypeOK
<1>. QED  BY <1>1, MinOfTwo

(* ... and doubling the delay, the delay.                                  *)
LEMMA DelayDoubles ==
    ASSUME TypeOK
    PROVE  Min({delay * 2, MaxDelay}) \in InitialDelay..MaxDelay
<1>1. delay * 2 \in Nat /\ MaxDelay \in Nat /\ delay * 2 >= InitialDelay
  BY DelayAssumption DEF TypeOK
<1>. QED  BY <1>1, MinOfTwo, DelayAssumption

LEMMA InitialDelayInRange == InitialDelay \in InitialDelay..MaxDelay /\ 0 \in 0..FailuresCap
<1>1. InitialDelay \in Int /\ MaxDelay \in Int /\ InitialDelay <= MaxDelay
  BY DelayAssumption
<1>2. FailuresCap \in Int /\ 0 <= FailuresCap
  BY FailuresCapAssumption
<1>. QED  BY <1>1, <1>2

LEMMA ConnectionInit == Init => ConnectionInv
BY InitialDelayInRange
DEF Init, ConnectionInv, TypeOK, StopCancels, StopWaits, Stoppers

-----------------------------------------------------------------------------
(* Each step keeps the invariant.                                          *)

LEMMA ReceiveTaskInv ==
    ASSUME ConnectionInv,
           \/ RunLoop \/ ConnectOk \/ ConnectFail \/ SubscribeOk \/ NoticeLoss
           \/ Receive \/ BackoffOver
    PROVE  ConnectionInv'
<1>. USE DEF ConnectionInv, TypeOK, StopCancels, StopWaits, At
<1>1. CASE RunLoop
  BY <1>1 DEF RunLoop, BeginConnect
<1>2. CASE ConnectOk
  BY <1>2 DEF ConnectOk
<1>3. CASE ConnectFail
  BY <1>3, RetryCounts DEF ConnectFail, Retry
<1>4. CASE SubscribeOk
  BY <1>4, InitialDelayInRange DEF SubscribeOk
<1>5. CASE NoticeLoss
  BY <1>5, RetryCounts DEF NoticeLoss, Retry
<1>6. CASE Receive
  BY <1>6 DEF Receive
<1>7. CASE BackoffOver
  BY <1>7, DelayDoubles DEF BackoffOver, BeginConnect
<1>. QED  BY <1>1, <1>2, <1>3, <1>4, <1>5, <1>6, <1>7

LEMMA CancellationInv ==
    ASSUME ConnectionInv, TakeCancellation \/ CloseDone
    PROVE  ConnectionInv'
<1>. USE DEF ConnectionInv, TypeOK, StopCancels, StopWaits
<1>1. CASE TakeCancellation
  BY <1>1 DEF TakeCancellation
<1>2. CASE CloseDone
  BY <1>2 DEF CloseDone, At
<1>. QED  BY <1>1, <1>2

LEMMA StopInv ==
    ASSUME ConnectionInv, NEW s \in Stoppers,
           Stop(s) \/ StopTaskDone(s) \/ StopSocketClosed(s)
    PROVE  ConnectionInv'
<1>. USE DEF ConnectionInv, TypeOK, StopCancels, StopWaits
<1>1. CASE Stop(s)
  BY <1>1 DEF Stop, MayStop
<1>2. CASE StopTaskDone(s)
  BY <1>2 DEF StopTaskDone
<1>3. CASE StopSocketClosed(s)
  BY <1>3 DEF StopSocketClosed
<1>. QED  BY <1>1, <1>2, <1>3

LEMMA EnvironmentInv ==
    ASSUME ConnectionInv, MarkDraining \/ StopCancelled \/ PeerCloses \/ GoSilent
    PROVE  ConnectionInv'
<1>. USE DEF ConnectionInv, TypeOK, StopCancels, StopWaits
<1>1. CASE MarkDraining
  BY <1>1 DEF MarkDraining
<1>2. CASE StopCancelled
  BY <1>2 DEF StopCancelled, Stoppers
<1>3. CASE PeerCloses
  BY <1>3 DEF PeerCloses
<1>4. CASE GoSilent
  BY <1>4 DEF GoSilent
<1>. QED  BY <1>1, <1>2, <1>3, <1>4

(* The inductive invariant: see StopCancels and StopWaits.                 *)
THEOREM ConnectionInvariant == Spec => []ConnectionInv
<1>1. ConnectionInv /\ [Next]_vars => ConnectionInv'
  <2>. SUFFICES ASSUME ConnectionInv, [Next]_vars
                PROVE  ConnectionInv'
    OBVIOUS
  <2>1. CASE Next
    BY <2>1, ReceiveTaskInv, CancellationInv, StopInv, EnvironmentInv DEF Next
  <2>2. CASE UNCHANGED vars
    BY <2>2 DEF vars, ConnectionInv, TypeOK, StopCancels, StopWaits
  <2>. QED  BY <2>1, <2>2
<1>. QED  BY ConnectionInit, <1>1, PTL DEF Spec

(* Every variable of a connection keeps its type: in particular the backoff*)
(* delay of _connection_loop never leaves the range of its constants.      *)
THEOREM ConnectionTypeCorrect == Spec => []TypeOK
<1>1. ConnectionInv => TypeOK
  BY DEF ConnectionInv
<1>. QED  BY ConnectionInvariant, <1>1, PTL

(* A stop() that returned has ended the receive task and closed the socket.*)
THEOREM StopCorrect == Spec => []StopLeavesNothing
<1>1. ConnectionInv => StopLeavesNothing
  BY DEF ConnectionInv, StopCancels, StopWaits, StopLeavesNothing
<1>. QED  BY ConnectionInvariant, <1>1, PTL

-----------------------------------------------------------------------------
(* The view of the pool.                                                   *)

(* No step changes the status of a connection that is CLOSED.              *)
LEMMA ClosedStays ==
    ASSUME ConnectionInv, Next, status = "CLOSED"
    PROVE  status' = "CLOSED"
<1>. USE DEF ConnectionInv, StopCancels, At
<1>1. CASE RunLoop
  BY <1>1 DEF RunLoop
<1>2. CASE ConnectOk \/ ConnectFail \/ SubscribeOk \/ NoticeLoss \/ Receive
  BY <1>2 DEF ConnectOk, ConnectFail, SubscribeOk, NoticeLoss, Receive
<1>3. CASE BackoffOver
  BY <1>3 DEF BackoffOver
<1>4. CASE TakeCancellation \/ CloseDone
  BY <1>4 DEF TakeCancellation, CloseDone
<1>5. CASE \E s \in Stoppers : Stop(s) \/ StopTaskDone(s) \/ StopSocketClosed(s)
  BY <1>5 DEF Stop, StopTaskDone, StopSocketClosed
<1>6. CASE MarkDraining \/ StopCancelled \/ PeerCloses \/ GoSilent
  BY <1>6 DEF MarkDraining, StopCancelled, PeerCloses, GoSilent
<1>. QED  BY <1>1, <1>2, <1>3, <1>4, <1>5, <1>6 DEF Next

(* A WebSocketConnection is what ConnectionPool takes a connection to be:  *)
(* once stopped it is closed for good.                                     *)
THEOREM ConnectionImplementsView == Spec => RefinesView
<1>. DEFINE v == IF status = "CLOSED" THEN "CLOSED" ELSE IF IsHealthy THEN "HEALTHY" ELSE "UNHEALTHY"
<1>1. Init => View!ViewInit
  BY DEF Init, View!ViewInit, IsHealthy
<1>2. ConnectionInv /\ [Next]_vars => [View!ViewNext]_v
  <2>. SUFFICES ASSUME ConnectionInv, [Next]_vars
                PROVE  [View!ViewNext]_v
    OBVIOUS
  <2>1. CASE Next
    <3>1. status = "CLOSED" => status' = "CLOSED"
      BY <2>1, ClosedStays
    <3>. QED  BY <3>1 DEF View!ViewNext, View!Up, View!Down, View!Close
  <2>2. CASE UNCHANGED vars
    BY <2>2 DEF vars, IsHealthy
  <2>. QED  BY <2>1, <2>2
<1>. QED  BY ConnectionInvariant, <1>1, <1>2, PTL DEF Spec, RefinesView, View!ViewSpec

-----------------------------------------------------------------------------
(* The doubled delays.  Doubled is defined by recursion; that there is such*)
(* a function follows from its initial segments.                           *)

LEMMA Induction ==
    ASSUME NEW S, S \subseteq Nat, 0 \in S, \A n \in S : n + 1 \in S
    PROVE  S = Nat
<1>. SUFFICES ASSUME Nat \ S # {} PROVE FALSE
  OBVIOUS
<1>1. PICK x \in Nat \ S : \A y \in Nat \ S : ~(<<y, x>> \in OpToRel(<, Nat))
  <2>1. Nat \ S \subseteq Nat
    OBVIOUS
  <2>. QED
    BY <2>1, NatLessThanWellFounded, WFMin, Zenon
<1>2. x \in Nat /\ x # 0
  OBVIOUS
<1>3. x - 1 \in Nat /\ x - 1 < x
  BY <1>2
<1>4. x - 1 \in S
  BY <1>1, <1>2, <1>3 DEF OpToRel
<1>5. (x - 1) + 1 \in S
  BY <1>4
<1>. QED
  BY <1>2, <1>5

(* f is Doubled up to k.                                                   *)
Segment(f, k) ==
    /\ f \in [0..k -> Nat]
    /\ f[0] = InitialDelay
    /\ \A i \in 1..k : f[i] = 2 * f[i - 1]

LEMMA SegmentExists == \A k \in Nat : \E f : Segment(f, k)
<1> DEFINE S == {k \in Nat : \E f : Segment(f, k)}
<1>1. 0 \in S
  <2> DEFINE f == [i \in 0..0 |-> InitialDelay]
  <2>1. Segment(f, 0)
    BY DelayAssumption DEF Segment
  <2>. QED
    BY <2>1
<1>2. ASSUME NEW k \in S PROVE k + 1 \in S
  <2>1. PICK f : Segment(f, k)
    OBVIOUS
  <2> DEFINE g == [i \in 0..(k + 1) |-> IF i = k + 1 THEN 2 * f[k] ELSE f[i]]
  <2>2. Segment(g, k + 1)
    <3>1. \A i \in 0..k : f[i] \in Nat
      BY <2>1 DEF Segment
    <3>2. g \in [0..(k + 1) -> Nat]
      BY <3>1
    <3>3. g[0] = InitialDelay
      BY <2>1 DEF Segment
    <3>4. ASSUME NEW i \in 1..(k + 1) PROVE g[i] = 2 * g[i - 1]
      <4>1. g[i - 1] = f[i - 1]
        OBVIOUS
      <4>2. CASE i = k + 1
        BY <4>1, <4>2
      <4>3. CASE i # k + 1
        <5>1. i \in 1..k
          BY <4>3
        <5>2. f[i] = 2 * f[i - 1]
          BY <2>1, <5>1 DEF Segment
        <5>. QED
          BY <4>1, <4>3, <5>2
      <4>. QED
        BY <4>2, <4>3
    <3>. QED
      BY <3>2, <3>3, <3>4 DEF Segment
  <2>. QED
    BY <2>2
<1>3. S = Nat
  BY <1>1, <1>2, Induction
<1>. QED
  BY <1>3

LEMMA SegmentsAgree ==
    ASSUME NEW k \in Nat, NEW m \in Nat, NEW f, NEW g, Segment(f, k), Segment(g, m)
    PROVE  \A i \in Nat : i <= k /\ i <= m => f[i] = g[i]
<1> DEFINE S == {i \in Nat : i <= k /\ i <= m => f[i] = g[i]}
<1>1. 0 \in S
  BY DEF Segment
<1>2. ASSUME NEW i \in S PROVE i + 1 \in S
  <2>. SUFFICES ASSUME i + 1 <= k, i + 1 <= m PROVE f[i + 1] = g[i + 1]
    OBVIOUS
  <2>1. i + 1 \in 1..k /\ i + 1 \in 1..m /\ (i + 1) - 1 = i
    OBVIOUS
  <2>2. f[i + 1] = 2 * f[i] /\ g[i + 1] = 2 * g[i]
    BY <2>1 DEF Segment
  <2>. QED
    BY <2>2
<1>3. S = Nat
  BY <1>1, <1>2, Induction
<1>. QED
  BY <1>3

LEMMA DoubledDefined == Doubled = [n \in Nat |-> IF n = 0 THEN InitialDelay ELSE 2 * Doubled[n - 1]]
<1> DEFINE seg(k) == CHOOSE f : Segment(f, k)
           D == [n \in Nat |-> seg(n)[n]]
<1>1. \A k \in Nat : Segment(seg(k), k)
  BY SegmentExists
<1> HIDE DEF seg
<1>2. ASSUME NEW n \in Nat PROVE D[n] = IF n = 0 THEN InitialDelay ELSE 2 * D[n - 1]
  <2>1. CASE n = 0
    BY <1>1, <2>1 DEF Segment
  <2>2. CASE n # 0
    <3>1. n - 1 \in Nat /\ n - 1 <= n /\ n \in 1..n
      BY <2>2
    <3>2. seg(n)[n] = 2 * seg(n)[n - 1]
      BY <1>1, <3>1 DEF Segment
    <3>3. seg(n)[n - 1] = seg(n - 1)[n - 1]
      BY <1>1, <3>1, SegmentsAgree
    <3>. QED
      BY <2>2, <3>1, <3>2, <3>3
  <2>. QED
    BY <2>1, <2>2
<1>3. D = [n \in Nat |-> IF n = 0 THEN InitialDelay ELSE 2 * D[n - 1]]
  BY <1>2
<1>4. \E f : f = [n \in Nat |-> IF n = 0 THEN InitialDelay ELSE 2 * f[n - 1]]
  <2> HIDE DEF D
  <2>. QED
    BY <1>3
<1>. QED
  BY <1>4 DEF Doubled

(* Doubled by its first value and its steps.                               *)
LEMMA DoubledSteps ==
    /\ Doubled[0] = InitialDelay
    /\ \A n \in Nat : Doubled[n + 1] = 2 * Doubled[n]
    /\ \A n \in Nat : Doubled[n] \in Nat
<1>1. Doubled[0] = InitialDelay
  BY DoubledDefined
<1>2. ASSUME NEW n \in Nat PROVE Doubled[n + 1] = 2 * Doubled[n]
  <2>1. n + 1 \in Nat /\ n + 1 # 0 /\ (n + 1) - 1 = n
    OBVIOUS
  <2>. QED
    BY <2>1, DoubledDefined
<1> DEFINE S == {n \in Nat : Doubled[n] \in Nat}
<1>3. 0 \in S
  BY <1>1, DelayAssumption
<1>4. ASSUME NEW n \in S PROVE n + 1 \in S
  BY <1>2
<1>5. S = Nat
  BY <1>3, <1>4, Induction
<1>. QED
  BY <1>1, <1>2, <1>5

-----------------------------------------------------------------------------
(* The delay while a connection is tried for the (failures+1)th time, and  *)
(* the one it waits after the attempt failed.                              *)

Due(n) == Min({Doubled[n], MaxDelay})

(* The row of failures and the delay go together: the delay is doubled     *)
(* after the wait, so that during an attempt it is already the next one.   *)
Backing ==
    /\ task \in {"ready", "connecting", "subscribing"} => delay = Due(failures)
    /\ task = "receiving" => delay = InitialDelay /\ failures = 0
    /\ task = "backoff" => failures > 0 /\ delay = Due(failures - 1)

LEMMA DueIs ==
    ASSUME NEW n \in Nat
    PROVE  /\ Due(n) = IF Doubled[n] <= MaxDelay THEN Doubled[n] ELSE MaxDelay
           /\ Due(n) \in Nat
<1>1. Doubled[n] \in Nat /\ MaxDelay \in Nat
  BY DoubledSteps, DelayAssumption
<1>. QED
  BY <1>1, MinOfTwo DEF Due

LEMMA FirstDue == Due(0) = InitialDelay
BY DueIs, DoubledSteps, DelayAssumption

(* Doubling and cutting off at the maximum may be done at every step or    *)
(* once at the end.                                                        *)
LEMMA NextDue ==
    ASSUME NEW n \in Nat
    PROVE  Min({Due(n) * 2, MaxDelay}) = Due(n + 1)
<1>1. PICK d \in Nat : d = Doubled[n]
  BY DoubledSteps
<1>2. Doubled[n + 1] = 2 * d
  BY <1>1, DoubledSteps
<1>3. MaxDelay \in Nat
  BY DelayAssumption
<1>4. PICK u \in Nat : u = Due(n)
  BY DueIs
<1>5. u = IF d <= MaxDelay THEN d ELSE MaxDelay
  BY <1>1, <1>4, DueIs
<1>6. u * 2 \in Nat /\ u * 2 = 2 * u
  BY <1>4
<1>7. Min({u * 2, MaxDelay}) = IF u * 2 <= MaxDelay THEN u * 2 ELSE MaxDelay
  BY <1>3, <1>6, MinOfTwo
<1>8. Due(n + 1) = IF 2 * d <= MaxDelay THEN 2 * d ELSE MaxDelay
  <2>1. n + 1 \in Nat
    OBVIOUS
  <2>. QED
    BY <2>1, <1>2, DueIs
<1>9. (IF u * 2 <= MaxDelay THEN u * 2 ELSE MaxDelay) = IF 2 * d <= MaxDelay THEN 2 * d ELSE MaxDelay
  BY <1>1, <1>3, <1>4, <1>5
<1>. QED
  BY <1>4, <1>7, <1>8, <1>9

(* From the cap on the delay is the maximum, so that it does not matter    *)
(* that no more failures are counted.                                      *)
LEMMA CapDue == Due(FailuresCap - 1) = MaxDelay /\ Due(FailuresCap) = MaxDelay
<1>1. FailuresCap - 1 \in Nat /\ Doubled[FailuresCap - 1] >= MaxDelay /\ MaxDelay \in Nat
  BY FailuresCapAssumption, DelayAssumption
<1>2. Doubled[FailuresCap - 1] \in Nat
  BY <1>1, DoubledSteps
<1>3. Due(FailuresCap - 1) = MaxDelay
  BY <1>1, <1>2, DueIs
<1>4. Due((FailuresCap - 1) + 1) = Min({MaxDelay * 2, MaxDelay})
  BY <1>1, <1>3, NextDue
<1>5. MaxDelay * 2 \in Nat /\ (MaxDelay * 2 <= MaxDelay => MaxDelay * 2 = MaxDelay)
  BY <1>1
<1>6. Min({MaxDelay * 2, MaxDelay}) = MaxDelay
  BY <1>1, <1>5, MinOfTwo
<1>7. (FailuresCap - 1) + 1 = FailuresCap
  BY FailuresCapAssumption
<1>. QED
  BY <1>3, <1>4, <1>6, <1>7

LEMMA RetryBacking ==
    ASSUME TypeOK, Backing, Retry, task \in {"connecting", "subscribing", "receiving"}
    PROVE  Backing'
<1>1. failures \in 0..FailuresCap /\ FailuresCap \in Nat \ {0}
  BY FailuresCapAssumption DEF TypeOK
<1>2. delay = Due(failures)
  BY FirstDue DEF Backing
<1>3. failures' = IF failures + 1 <= FailuresCap THEN failures + 1 ELSE FailuresCap
  BY <1>1, MinOfTwo DEF Retry
<1>4. failures' > 0
  BY <1>1, <1>3
<1>5. CASE failures + 1 <= FailuresCap
  <2>1. failures' = failures + 1 /\ (failures + 1) - 1 = failures
    BY <1>1, <1>3, <1>5
  <2>2. Due(failures' - 1) = Due(failures)
    BY <2>1
  <2>. QED
    BY <1>2, <1>4, <2>2 DEF Backing, Retry, Due
<1>6. CASE failures = FailuresCap
  <2>1. failures' = FailuresCap
    BY <1>1, <1>3, <1>6
  <2>2. Due(failures' - 1) = delay
    BY <1>2, <1>6, <2>1, CapDue
  <2>. QED
    BY <1>4, <2>2 DEF Backing, Retry, Due
<1>. QED
  BY <1>1, <1>5, <1>6

LEMMA BackoffOverBacking ==
    ASSUME TypeOK, Backing, BackoffOver
    PROVE  Backing'
<1>1. task = "backoff" /\ failures' = failures /\ task' = "connecting"
  BY DEF BackoffOver, BeginConnect, At
<1>2. failures - 1 \in Nat /\ (failures - 1) + 1 = failures
  BY <1>1 DEF TypeOK, Backing
<1>3. delay = Due(failures - 1)
  BY <1>1 DEF Backing
<1>4. delay' = Min({delay * 2, MaxDelay})
  BY DEF BackoffOver
<1>5. delay' = Due(failures)
  BY <1>2, <1>3, <1>4, NextDue
<1>. QED
  BY <1>1, <1>5 DEF Backing, Due

(* The inductive invariant: see Backing.                                   *)
LEMMA BackingStep ==
    ASSUME TypeOK, Backing, [Next]_vars
    PROVE  Backing'
<1> USE DEF Backing, At, Due
<1>1. CASE RunLoop
  BY <1>1 DEF RunLoop, BeginConnect
<1>2. CASE ConnectOk
  BY <1>2 DEF ConnectOk
<1>3. CASE ConnectFail
  BY <1>3, RetryBacking DEF ConnectFail
<1>4. CASE SubscribeOk
  BY <1>4 DEF SubscribeOk
<1>5. CASE NoticeLoss
  BY <1>5, RetryBacking DEF NoticeLoss
<1>6. CASE Receive
  BY <1>6 DEF Receive
<1>7. CASE BackoffOver
  BY <1>7, BackoffOverBacking
<1>8. CASE TakeCancellation
  BY <1>8 DEF TakeCancellation
<1>9. CASE CloseDone
  BY <1>9 DEF CloseDone
<1>10. CASE \E s \in Stoppers : Stop(s) \/ StopTaskDone(s) \/ StopSocketClosed(s)
  BY <1>10 DEF Stop, StopTaskDone, StopSocketClosed
<1>11. CASE MarkDraining \/ StopCancelled \/ PeerCloses \/ GoSilent
  BY <1>11 DEF MarkDraining, StopCancelled, PeerCloses, GoSilent
<1>12. CASE UNCHANGED vars
  BY <1>12 DEF vars
<1>. QED
  BY <1>1, <1>2, <1>3, <1>4, <1>5, <1>6, <1>7, <1>8, <1>9, <1>10, <1>11, <1>12
  DEF Next

(* A wait before an attempt is as long as the failures in a row make it.   *)
THEOREM BackoffCorrect == Spec => []BackoffCounts
<1>1. Init => Backing
  BY FirstDue DEF Init, Backing
<1>2. TypeOK /\ Backing /\ [Next]_vars => Backing'
  BY BackingStep
<1>3. Backing => BackoffCounts
  BY DEF Backing, BackoffCounts, Due
<1>4. Spec => []TypeOK
  BY ConnectionTypeCorrect
<1>. QED
  BY <1>1, <1>2, <1>3, <1>4, PTL DEF Spec

=============================================================================

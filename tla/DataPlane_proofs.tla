-------------------------- MODULE DataPlane_proofs --------------------------
(***************************************************************************)
(* The data plane, for any number of assets, workers and queries and any   *)
(* sizes of the queues: it implements the channel of AssetChannel; a query *)
(* is answered once, with a book as recent as the query.                   *)
(***************************************************************************)
EXTENDS DataPlane, SequenceTheorems, FiniteSetTheorems, WellFoundedInduction, TLAPS

-----------------------------------------------------------------------------
(* Least and greatest numbers: the choices of the model exist.             *)

LEMMA LeastExists ==
    ASSUME NEW T, T \subseteq Nat, T # {}
    PROVE  \E x \in T : \A y \in T : x <= y
<1>1. PICK x \in T : \A y \in T : ~(<<y, x>> \in OpToRel(<, Nat))
  BY NatLessThanWellFounded, WFMin, Zenon
<1>2. \A y \in T : ~(y < x)
  BY <1>1 DEF OpToRel
<1>. QED
  BY <1>2

(* A set of numbers with a bound has a greatest: the least of its bounds.  *)
LEMMA MaxOfBounded ==
    ASSUME NEW T, T \subseteq Nat, T # {}, NEW hi \in Nat, \A x \in T : x <= hi
    PROVE  Max(T) \in T /\ \A x \in T : x <= Max(T)
<1> DEFINE bounds == {u \in Nat : \A x \in T : x <= u}
<1>1. PICK u \in bounds : \A y \in bounds : u <= y
  <2>1. bounds \subseteq Nat /\ hi \in bounds
    OBVIOUS
  <2>. QED
    BY <2>1, LeastExists
<1>2. u \in T
  <2>. SUFFICES ASSUME u \notin T PROVE FALSE
    OBVIOUS
  <2>1. \A x \in T : x < u
    BY <1>1
  <2>2. u - 1 \in Nat /\ \A x \in T : x <= u - 1
    <3>1. u \in Nat /\ \A x \in T : x \in Nat
      BY <1>1
    <3>2. PICK t \in T : TRUE
      OBVIOUS
    <3>3. t \in Nat /\ t < u
      BY <2>1, <3>1
    <3>. QED
      BY <2>1, <3>1, <3>3
  <2>. QED
    BY <2>2, <1>1
<1>3. \E m \in T : \A x \in T : m >= x
  BY <1>1, <1>2
<1>. QED
  BY <1>3 DEF Max

(* A batch that is not empty has a next message: for the lowest worker,    *)
(* the first.                                                              *)
LEMMA NextToRouteExists ==
    ASSUME batch \in Seq(Message), batch # <<>>
    PROVE  /\ NextToRoute \in 1..Len(batch)
           /\ \A j \in 1..Len(batch) :
                 WorkerOf[batch[j].asset] = WorkerOf[batch[NextToRoute].asset] => NextToRoute <= j
<1> DEFINE I == 1..Len(batch)
           worker == [i \in I |-> WorkerOf[batch[i].asset]]
           First(i) == \A j \in I : worker[i] < worker[j] \/ (worker[i] = worker[j] /\ i <= j)
<1>1. Len(batch) \in Nat /\ 1 \in I
  OBVIOUS
<1>2. worker \in [I -> Nat]
  <2>1. \A i \in I : batch[i].asset \in Assets
    <3>1. \A i \in I : batch[i] \in Message
      OBVIOUS
    <3>. QED
      BY <3>1 DEF Message
  <2>2. \A a \in Assets : WorkerOf[a] \in Nat
    BY WorkerOfAssumption, WorkersAssumption
  <2>. QED
    BY <2>1, <2>2
<1>3. NextToRoute = CHOOSE i \in I : First(i)
  BY DEF NextToRoute
<1>4. I \subseteq Nat
  OBVIOUS
<1> HIDE DEF I, worker
<1>5. PICK l \in {worker[i] : i \in I} : \A k \in {worker[i] : i \in I} : l <= k
  <2>1. {worker[i] : i \in I} \subseteq Nat /\ {worker[i] : i \in I} # {}
    BY <1>1, <1>2
  <2>. QED
    BY <2>1, LeastExists
<1>6. PICK i \in {k \in I : worker[k] = l} : \A j \in {k \in I : worker[k] = l} : i <= j
  <2>1. {k \in I : worker[k] = l} \subseteq Nat /\ {k \in I : worker[k] = l} # {}
    BY <1>4, <1>5
  <2>. QED
    BY <2>1, LeastExists
<1>7. First(i)
  <2>. SUFFICES ASSUME NEW j \in I
                PROVE  worker[i] < worker[j] \/ (worker[i] = worker[j] /\ i <= j)
    OBVIOUS
  <2>1. worker[i] = l /\ worker[j] \in Nat /\ l \in Nat /\ l <= worker[j]
    BY <1>2, <1>5, <1>6
  <2>2. worker[j] = l => i <= j
    BY <1>6
  <2>. QED
    BY <2>1, <2>2
<1>8. NextToRoute \in I /\ First(NextToRoute)
  BY <1>3, <1>6, <1>7
<1>9. \A j \in I : worker[j] = WorkerOf[batch[j].asset]
  BY DEF worker
<1>10. \A j \in I : worker[j] = worker[NextToRoute] => NextToRoute <= j
  BY <1>2, <1>8
<1>. QED
  BY <1>8, <1>9, <1>10 DEF I

-----------------------------------------------------------------------------
(* What the operations on queues do to the numbers of an asset's messages, *)
(* and that they keep them in order.                                       *)

Sorted(s, a) ==
    \A i, j \in 1..Len(s) : i < j /\ IsMessageOf(s[i], a) /\ IsMessageOf(s[j], a) => s[i].n < s[j].n

Below(S, T) == \A m \in S, n \in T : m < n

LEMMA NumbersMember ==
    ASSUME NEW s, NEW a, NEW n
    PROVE  n \in Numbers(s, a) <=> \E i \in 1..Len(s) : IsMessageOf(s[i], a) /\ n = s[i].n
BY DEF Numbers

LEMMA NumbersAreNat ==
    ASSUME NEW s \in Seq(Item), NEW a
    PROVE  Numbers(s, a) \subseteq Nat
<1>1. \A i \in 1..Len(s) : s[i] \in Item
  OBVIOUS
<1>2. \A m \in Item : IsMessageOf(m, a) => m.n \in Nat
  BY DEF Item, Message, Request, Sentinel, IsMessageOf
<1>. QED
  BY <1>1, <1>2 DEF Numbers

LEMMA AppendMessage ==
    ASSUME NEW S, NEW s \in Seq(S), NEW m \in S, NEW a, IsMessageOf(m, a),
           Sorted(s, a), Below(Numbers(s, a), {m.n})
    PROVE  /\ Numbers(Append(s, m), a) = Numbers(s, a) \cup {m.n}
           /\ Sorted(Append(s, m), a)
<1> DEFINE after == Append(s, m)
<1>1. /\ Len(s) \in Nat
      /\ Len(after) = Len(s) + 1
      /\ \A i \in 1..Len(s) : after[i] = s[i]
      /\ after[Len(s) + 1] = m
  OBVIOUS
<1> HIDE DEF after
<1>2. 1..Len(after) = 1..Len(s) \cup {Len(s) + 1}
  BY <1>1
<1>3. \A n : n \in Numbers(after, a) <=> n \in Numbers(s, a) \/ n = m.n
  BY <1>1, <1>2, NumbersMember
<1>4. ASSUME NEW i \in 1..Len(after), NEW j \in 1..Len(after), i < j,
             IsMessageOf(after[i], a), IsMessageOf(after[j], a)
      PROVE  after[i].n < after[j].n
  <2>1. i \in 1..Len(s) /\ after[i] = s[i]
    BY <1>1, <1>4
  <2>2. CASE j \in 1..Len(s)
    BY <2>1, <2>2, <1>1, <1>4 DEF Sorted
  <2>3. CASE j = Len(s) + 1
    <3>1. s[i].n \in Numbers(s, a)
      BY <2>1, <1>4, NumbersMember
    <3>. QED
      BY <2>1, <2>3, <3>1, <1>1 DEF Below
  <2>. QED
    BY <2>2, <2>3, <1>2
<1>5. Sorted(after, a)
  BY <1>4 DEF Sorted
<1>6. Numbers(after, a) = Numbers(s, a) \cup {m.n}
  BY <1>3
<1>. QED
  BY <1>5, <1>6 DEF after

LEMMA AppendOther ==
    ASSUME NEW S, NEW s \in Seq(S), NEW m \in S, NEW a, ~IsMessageOf(m, a), Sorted(s, a)
    PROVE  /\ Numbers(Append(s, m), a) = Numbers(s, a)
           /\ Sorted(Append(s, m), a)
<1> DEFINE after == Append(s, m)
<1>1. /\ Len(s) \in Nat
      /\ Len(after) = Len(s) + 1
      /\ \A i \in 1..Len(s) : after[i] = s[i]
      /\ after[Len(s) + 1] = m
  OBVIOUS
<1> HIDE DEF after
<1>2. \A i \in 1..Len(after) : IsMessageOf(after[i], a) => i \in 1..Len(s)
  BY <1>1
<1>3. 1..Len(s) \subseteq 1..Len(after)
  BY <1>1
<1>4. \A n : n \in Numbers(after, a) <=> n \in Numbers(s, a)
  BY <1>1, <1>2, <1>3, NumbersMember
<1>5. Sorted(after, a)
  BY <1>1, <1>2 DEF Sorted
<1>6. Numbers(after, a) = Numbers(s, a)
  BY <1>4
<1>. QED
  BY <1>5, <1>6 DEF after

LEMMA TailNumbers ==
    ASSUME NEW S, NEW s \in Seq(S), s # <<>>, NEW a, Sorted(s, a), Numbers(s, a) \subseteq Nat
    PROVE  /\ IsMessageOf(Head(s), a) =>
                 /\ Head(s).n \in Numbers(s, a)
                 /\ Numbers(Tail(s), a) = Numbers(s, a) \ {Head(s).n}
                 /\ Below({Head(s).n}, Numbers(Tail(s), a))
           /\ ~IsMessageOf(Head(s), a) => Numbers(Tail(s), a) = Numbers(s, a)
           /\ Sorted(Tail(s), a)
<1> DEFINE after == Tail(s)
           h == Head(s)
<1>1. /\ Len(s) \in Nat \ {0}
      /\ Len(after) = Len(s) - 1
      /\ h = s[1]
      /\ \A i \in 1..Len(after) : after[i] = s[i + 1]
  OBVIOUS
<1> HIDE DEF after, h
<1>2. \A i \in 1..Len(after) : i + 1 \in 1..Len(s) /\ 1 < i + 1
  BY <1>1
<1>3. 1 \in 1..Len(s)
  BY <1>1
<1>4. \A n : n \in Numbers(s, a) <=> (IsMessageOf(h, a) /\ n = h.n) \/ n \in Numbers(after, a)
  <2>. SUFFICES ASSUME NEW n
                PROVE  n \in Numbers(s, a) <=> (IsMessageOf(h, a) /\ n = h.n) \/ n \in Numbers(after, a)
    OBVIOUS
  <2>1. \A i \in 1..Len(s) : i = 1 \/ (i - 1 \in 1..Len(after) /\ after[i - 1] = s[i])
    BY <1>1
  <2>2. ASSUME n \in Numbers(s, a)
        PROVE  (IsMessageOf(h, a) /\ n = h.n) \/ n \in Numbers(after, a)
    <3>1. PICK i \in 1..Len(s) : IsMessageOf(s[i], a) /\ n = s[i].n
      BY <2>2, NumbersMember
    <3>. QED
      BY <3>1, <2>1, <1>1, NumbersMember
  <2>3. ASSUME n \in Numbers(after, a)
        PROVE  n \in Numbers(s, a)
    <3>1. PICK i \in 1..Len(after) : IsMessageOf(after[i], a) /\ n = after[i].n
      BY <2>3, NumbersMember
    <3>2. i + 1 \in 1..Len(s) /\ after[i] = s[i + 1]
      BY <1>1, <1>2
    <3>. QED
      BY <3>1, <3>2, NumbersMember
  <2>4. ASSUME IsMessageOf(h, a), n = h.n
        PROVE  n \in Numbers(s, a)
    BY <2>4, <1>1, <1>3, NumbersMember
  <2>. QED
    BY <2>2, <2>3, <2>4
<1>5. ASSUME IsMessageOf(h, a), NEW n \in Numbers(after, a)
      PROVE  h.n < n
  <2>1. PICK i \in 1..Len(after) : IsMessageOf(after[i], a) /\ n = after[i].n
    BY NumbersMember
  <2>. QED
    BY <2>1, <1>1, <1>2, <1>3, <1>5 DEF Sorted
<1>6. ASSUME NEW n \in Numbers(after, a), IsMessageOf(h, a) PROVE n # h.n
  <2>1. PICK i \in 1..Len(after) : IsMessageOf(after[i], a) /\ n = after[i].n
    BY NumbersMember
  <2>2. s[1].n < s[i + 1].n
    BY <2>1, <1>1, <1>2, <1>3, <1>6 DEF Sorted
  <2>3. s[1].n \in Nat /\ s[i + 1].n \in Nat
    BY <2>1, <1>1, <1>2, <1>3, <1>6, NumbersMember
  <2>. QED
    BY <2>1, <2>2, <2>3, <1>1
<1>7. Sorted(after, a)
  <2>1. \A i, j \in 1..Len(after) : i < j => i + 1 < j + 1
    BY <1>1
  <2>2. ASSUME NEW i \in 1..Len(after), NEW j \in 1..Len(after), i < j,
               IsMessageOf(after[i], a), IsMessageOf(after[j], a)
        PROVE  after[i].n < after[j].n
    <3>1. after[i] = s[i + 1] /\ after[j] = s[j + 1]
      BY <1>1
    <3>. QED
      BY <2>1, <2>2, <3>1, <1>2 DEF Sorted
  <2>. QED
    BY <2>2 DEF Sorted
<1>8. IsMessageOf(h, a) =>
        /\ h.n \in Numbers(s, a)
        /\ Numbers(after, a) = Numbers(s, a) \ {h.n}
        /\ Below({h.n}, Numbers(after, a))
  BY <1>4, <1>5, <1>6 DEF Below
<1>9. ~IsMessageOf(h, a) => Numbers(after, a) = Numbers(s, a)
  BY <1>4
<1>. QED
  BY <1>7, <1>8, <1>9 DEF after, h

LEMMA ConcatNumbers ==
    ASSUME NEW S, NEW s \in Seq(S), NEW t \in Seq(S), NEW a
    PROVE  /\ Numbers(s \o t, a) = Numbers(s, a) \cup Numbers(t, a)
           /\ Sorted(s, a) /\ Sorted(t, a) /\ Below(Numbers(s, a), Numbers(t, a))
                 => Sorted(s \o t, a)
<1> DEFINE after == s \o t
           k == Len(s)
<1>1. /\ k \in Nat /\ Len(t) \in Nat
      /\ Len(after) = k + Len(t)
      /\ \A i \in 1..Len(after) : after[i] = IF i <= k THEN s[i] ELSE t[i - k]
  BY ConcatProperties
<1> HIDE DEF after
<1>2. \A i \in 1..k : i \in 1..Len(after) /\ after[i] = s[i]
  BY <1>1
<1>3. \A j \in 1..Len(t) : j + k \in 1..Len(after) /\ after[j + k] = t[j]
  BY <1>1
<1>4. \A i \in 1..Len(after) : i \in 1..k \/ (i - k \in 1..Len(t) /\ after[i] = t[i - k])
  BY <1>1
<1>5. \A n : n \in Numbers(after, a) <=> n \in Numbers(s, a) \/ n \in Numbers(t, a)
  <2>. SUFFICES ASSUME NEW n
                PROVE  n \in Numbers(after, a) <=> n \in Numbers(s, a) \/ n \in Numbers(t, a)
    OBVIOUS
  <2>1. n \in Numbers(s, a) => n \in Numbers(after, a)
    BY <1>2, NumbersMember
  <2>2. n \in Numbers(t, a) => n \in Numbers(after, a)
    BY <1>3, NumbersMember
  <2>3. n \in Numbers(after, a) => n \in Numbers(s, a) \/ n \in Numbers(t, a)
    BY <1>2, <1>4, NumbersMember
  <2>. QED
    BY <2>1, <2>2, <2>3
<1>6. ASSUME Sorted(s, a), Sorted(t, a), Below(Numbers(s, a), Numbers(t, a))
      PROVE  Sorted(after, a)
  <2>. SUFFICES ASSUME NEW i \in 1..Len(after), NEW j \in 1..Len(after), i < j,
                       IsMessageOf(after[i], a), IsMessageOf(after[j], a)
                PROVE  after[i].n < after[j].n
    BY DEF Sorted
  <2>1. CASE j \in 1..k
    <3>1. i \in 1..k
      BY <2>1, <1>1
    <3>. QED
      BY <2>1, <3>1, <1>2, <1>6 DEF Sorted
  <2>2. CASE i \in 1..k /\ j \notin 1..k
    <3>1. after[i].n \in Numbers(s, a)
      BY <2>2, <1>2, NumbersMember
    <3>2. after[j].n \in Numbers(t, a)
      BY <2>2, <1>4, NumbersMember
    <3>. QED
      BY <3>1, <3>2, <1>6 DEF Below
  <2>3. CASE i \notin 1..k /\ j \notin 1..k
    <3>1. i - k \in 1..Len(t) /\ j - k \in 1..Len(t) /\ i - k < j - k
      BY <2>3, <1>1, <1>4
    <3>2. after[i] = t[i - k] /\ after[j] = t[j - k]
      BY <2>3, <1>4
    <3>. QED
      BY <3>1, <3>2, <1>6 DEF Sorted
  <2>. QED
    BY <2>1, <2>2, <2>3
<1>. QED
  BY <1>5, <1>6 DEF after

LEMMA RemoveAtProperties ==
    ASSUME NEW S, NEW s \in Seq(S), NEW k \in 1..Len(s)
    PROVE  /\ RemoveAt(s, k) \in Seq(S)
           /\ Len(RemoveAt(s, k)) = Len(s) - 1
           /\ \A i \in 1..Len(RemoveAt(s, k)) :
                 RemoveAt(s, k)[i] = IF i < k THEN s[i] ELSE s[i + 1]
<1> DEFINE after == RemoveAt(s, k)
           A == SubSeq(s, 1, k - 1)
           B == SubSeq(s, k + 1, Len(s))
<1>1. Len(s) \in Nat /\ k \in Nat /\ 1 <= k /\ k <= Len(s)
  OBVIOUS
<1>2. /\ A \in Seq(S)
      /\ Len(A) = k - 1
      /\ \A i \in 1..(k - 1) : A[i] = s[i]
  OBVIOUS
<1>3. /\ B \in Seq(S)
      /\ Len(B) = Len(s) - k
      /\ \A i \in 1..(Len(s) - k) : B[i] = s[i + k]
  OBVIOUS
<1>4. after = A \o B
  BY DEF RemoveAt
<1> HIDE DEF A, B, after
<1>5. /\ after \in Seq(S)
      /\ Len(after) = Len(A) + Len(B)
      /\ \A i \in 1..(Len(A) + Len(B)) : after[i] = IF i <= Len(A) THEN A[i] ELSE B[i - Len(A)]
  BY <1>2, <1>3, <1>4, ConcatProperties, Zenon
<1>6. Len(after) = Len(s) - 1
  BY <1>1, <1>2, <1>3, <1>5
<1>7. ASSUME NEW i \in 1..Len(after), i < k
      PROVE  after[i] = s[i]
  <2>1. i \in 1..(k - 1) /\ i <= Len(A) /\ i \in 1..(Len(A) + Len(B))
    BY <1>1, <1>2, <1>5, <1>7
  <2>. QED
    BY <2>1, <1>2, <1>5
<1>8. ASSUME NEW i \in 1..Len(after), ~(i < k)
      PROVE  after[i] = s[i + 1]
  <2>1. /\ i - Len(A) \in 1..(Len(s) - k)
        /\ ~(i <= Len(A)) /\ i \in 1..(Len(A) + Len(B))
        /\ (i - Len(A)) + k = i + 1
    BY <1>1, <1>2, <1>3, <1>5, <1>8
  <2>2. after[i] = B[i - Len(A)]
    BY <2>1, <1>5
  <2>. QED
    BY <2>1, <2>2, <1>3
<1>. QED
  BY <1>5, <1>6, <1>7, <1>8 DEF after

LEMMA RemoveAtNumbers ==
    ASSUME NEW S, NEW s \in Seq(S), NEW k \in 1..Len(s), NEW a, Sorted(s, a), Numbers(s, a) \subseteq Nat
    PROVE  /\ IsMessageOf(s[k], a) => Numbers(RemoveAt(s, k), a) = Numbers(s, a) \ {s[k].n}
           /\ ~IsMessageOf(s[k], a) => Numbers(RemoveAt(s, k), a) = Numbers(s, a)
           /\ Sorted(RemoveAt(s, k), a)
<1> DEFINE after == RemoveAt(s, k)
           from(i) == IF i < k THEN i ELSE i + 1
<1>1. /\ Len(s) \in Nat /\ k \in 1..Len(s)
      /\ Len(after) = Len(s) - 1
      /\ \A i \in 1..Len(after) : after[i] = s[from(i)]
  BY RemoveAtProperties
<1> HIDE DEF after
<1>2. \A i \in 1..Len(after) : from(i) \in 1..Len(s) \ {k}
  BY <1>1
<1>3. \A i, j \in 1..Len(after) : i < j => from(i) < from(j)
  BY <1>1
<1>4. \A i \in 1..Len(s) \ {k} : \E j \in 1..Len(after) : after[j] = s[i]
  <2>. SUFFICES ASSUME NEW i \in 1..Len(s) \ {k}
                PROVE  \E j \in 1..Len(after) : after[j] = s[i]
    OBVIOUS
  <2>1. CASE i < k
    <3>1. i \in 1..Len(after) /\ from(i) = i
      BY <2>1, <1>1
    <3>. QED
      BY <3>1, <1>1
  <2>2. CASE ~(i < k)
    <3>1. i - 1 \in 1..Len(after) /\ from(i - 1) = i
      BY <2>2, <1>1
    <3>. QED
      BY <3>1, <1>1
  <2>. QED
    BY <2>1, <2>2
<1> HIDE DEF from
<1>5. \A i \in 1..Len(s) \ {k} : IsMessageOf(s[i], a) /\ IsMessageOf(s[k], a) => s[i].n # s[k].n
  <2>. SUFFICES ASSUME NEW i \in 1..Len(s) \ {k}, IsMessageOf(s[i], a), IsMessageOf(s[k], a)
                PROVE  s[i].n # s[k].n
    OBVIOUS
  <2>1. s[i].n \in Nat /\ s[k].n \in Nat
    BY NumbersMember
  <2>2. i < k \/ k < i
    BY <1>1
  <2>3. s[i].n < s[k].n \/ s[k].n < s[i].n
    BY <2>2 DEF Sorted
  <2>. QED
    BY <2>1, <2>3
<1>6. \A n : n \in Numbers(s, a) <=> (IsMessageOf(s[k], a) /\ n = s[k].n) \/ n \in Numbers(after, a)
  <2>. SUFFICES ASSUME NEW n
                PROVE  n \in Numbers(s, a) <=> (IsMessageOf(s[k], a) /\ n = s[k].n) \/ n \in Numbers(after, a)
    OBVIOUS
  <2>1. ASSUME n \in Numbers(after, a)
        PROVE  n \in Numbers(s, a)
    <3>1. PICK i \in 1..Len(after) : IsMessageOf(after[i], a) /\ n = after[i].n
      BY <2>1, NumbersMember
    <3>2. from(i) \in 1..Len(s) /\ after[i] = s[from(i)]
      BY <1>1, <1>2
    <3>. QED
      BY <3>1, <3>2, NumbersMember
  <2>2. ASSUME n \in Numbers(s, a)
        PROVE  (IsMessageOf(s[k], a) /\ n = s[k].n) \/ n \in Numbers(after, a)
    <3>1. PICK i \in 1..Len(s) : IsMessageOf(s[i], a) /\ n = s[i].n
      BY <2>2, NumbersMember
    <3>2. CASE i # k
      <4>1. PICK j \in 1..Len(after) : after[j] = s[i]
        BY <3>2, <1>4
      <4>. QED
        BY <3>1, <4>1, NumbersMember
    <3>. QED
      BY <3>1, <3>2
  <2>3. IsMessageOf(s[k], a) /\ n = s[k].n => n \in Numbers(s, a)
    BY NumbersMember
  <2>. QED
    BY <2>1, <2>2, <2>3
<1>7. IsMessageOf(s[k], a) => s[k].n \notin Numbers(after, a)
  <2>. SUFFICES ASSUME IsMessageOf(s[k], a), s[k].n \in Numbers(after, a)
                PROVE  FALSE
    OBVIOUS
  <2>1. PICK i \in 1..Len(after) : IsMessageOf(after[i], a) /\ s[k].n = after[i].n
    BY NumbersMember
  <2>. QED
    BY <2>1, <1>1, <1>2, <1>5
<1>8. Sorted(after, a)
  BY <1>1, <1>2, <1>3 DEF Sorted
<1>. QED
  BY <1>6, <1>7, <1>8 DEF after

-----------------------------------------------------------------------------
(* The inductive invariant: the messages of an asset are in the order of   *)
(* their numbers, in each queue and from the worker's queue to the batch   *)
(* to the router's queue, all above the last one its book has seen; and    *)
(* everything in a worker's queue is for that worker.                      *)

Ranked(queued, batched, waiting, lo, hi) ==
    /\ queued \subseteq Nat /\ batched \subseteq Nat /\ waiting \subseteq Nat
    /\ lo <= hi
    /\ \A n \in queued \cup batched \cup waiting : lo < n /\ n <= hi
    /\ Below(queued, batched) /\ Below(queued, waiting) /\ Below(batched, waiting)

InOrder(a) ==
    /\ Sorted(inputQueue[WorkerOf[a]], a) /\ Sorted(batch, a) /\ Sorted(asyncQueue, a)
    /\ Ranked(Numbers(inputQueue[WorkerOf[a]], a), Numbers(batch, a), Numbers(asyncQueue, a),
              seen[a], arrived[a])

ForWorker(s, w) ==
    \A i \in 1..Len(s) : s[i].kind # "sentinel" => WorkerOf[s[i].asset] = w

AtItsWorker == \A w \in Workers : ForWorker(inputQueue[w], w)

Flow == DataPlaneTypeOK /\ AtItsWorker /\ \A a \in Assets : InOrder(a)

LEMMA RankedAccept ==
    ASSUME NEW X, NEW Y, NEW Z, NEW lo \in Nat, NEW hi \in Nat, Ranked(X, Y, Z, lo, hi)
    PROVE  /\ Ranked(X, Y, Z \cup {hi + 1}, lo, hi + 1)
           /\ Ranked(X, Y, Z, lo, hi + 1)
           /\ Below(Z, {hi + 1})
<1>1. \A n \in X \cup Y \cup Z : n \in Nat /\ n < hi + 1 /\ n <= hi + 1
  BY DEF Ranked
<1>2. lo < hi + 1 /\ hi + 1 \in Nat
  BY DEF Ranked
<1>. QED
  BY <1>1, <1>2 DEF Ranked, Below

LEMMA RankedTake ==
    ASSUME NEW X, NEW Y, NEW Z, NEW lo \in Nat, NEW hi \in Nat, Ranked(X, Y, Z, lo, hi),
           NEW n \in Z, Below({n}, Z \ {n})
    PROVE  /\ Ranked(X, Y \cup {n}, Z \ {n}, lo, hi)
           /\ Below(Y, {n})
BY DEF Ranked, Below

LEMMA RankedPut ==
    ASSUME NEW X, NEW Y, NEW Z, NEW lo \in Nat, NEW hi \in Nat, Ranked(X, Y, Z, lo, hi),
           NEW n \in Y, Below({n}, Y \ {n})
    PROVE  /\ Ranked(X \cup {n}, Y \ {n}, Z, lo, hi)
           /\ Below(X, {n})
BY DEF Ranked, Below

LEMMA RankedDrop ==
    ASSUME NEW X, NEW Y, NEW Z, NEW lo \in Nat, NEW hi \in Nat, Ranked(X, Y, Z, lo, hi),
           NEW n \in Y
    PROVE  /\ Ranked(X, Y \ {n}, Z, lo, hi)
           /\ X \cup (Y \ {n}) \cup Z = (X \cup Y \cup Z) \ {n}
<1>1. n \in Nat /\ \A k \in X : k \in Nat /\ k < n
  BY DEF Ranked, Below
<1>2. \A k \in Z : k \in Nat /\ n < k
  BY DEF Ranked, Below
<1>3. n \notin X /\ n \notin Z
  BY <1>1, <1>2
<1>. QED
  BY <1>3 DEF Ranked, Below

LEMMA RankedDrain ==
    ASSUME NEW X, NEW Y, NEW Z, NEW lo \in Nat, NEW hi \in Nat, Ranked(X, Y, Z, lo, hi)
    PROVE  Ranked(X, Y \cup Z, {}, lo, hi)
BY DEF Ranked, Below

LEMMA RankedDeliver ==
    ASSUME NEW X, NEW Y, NEW Z, NEW lo \in Nat, NEW hi \in Nat, Ranked(X, Y, Z, lo, hi),
           NEW n \in X, Below({n}, X \ {n})
    PROVE  /\ Ranked(X \ {n}, Y, Z, n, hi)
           /\ lo < n
           /\ (X \ {n}) \cup Y \cup Z = (X \cup Y \cup Z) \ {n}
           /\ \A k \in X \cup Y \cup Z : n <= k
<1>1. n \in Nat /\ lo < n /\ n <= hi
  BY DEF Ranked
<1>2. \A k \in Y \cup Z : k \in Nat /\ n < k /\ k <= hi
  BY DEF Ranked, Below
<1>3. \A k \in X \ {n} : k \in Nat /\ n < k /\ k <= hi
  BY DEF Ranked, Below
<1>4. n \notin Y /\ n \notin Z
  BY <1>1, <1>2
<1>5. Ranked(X \ {n}, Y, Z, n, hi)
  BY <1>1, <1>2, <1>3 DEF Ranked, Below
<1>6. \A k \in X \cup Y \cup Z : n <= k
  BY <1>1, <1>2, <1>3
<1>. QED
  BY <1>1, <1>4, <1>5, <1>6

LEMMA ForWorkerAppend ==
    ASSUME NEW w, NEW s \in Seq(Item), NEW m \in Item, ForWorker(s, w),
           m.kind # "sentinel" => WorkerOf[m.asset] = w
    PROVE  ForWorker(Append(s, m), w)
<1>1. /\ Len(s) \in Nat
      /\ Len(Append(s, m)) = Len(s) + 1
      /\ \A i \in 1..Len(s) : Append(s, m)[i] = s[i]
      /\ Append(s, m)[Len(s) + 1] = m
  OBVIOUS
<1>. QED
  BY <1>1 DEF ForWorker

LEMMA ForWorkerTail ==
    ASSUME NEW w, NEW s \in Seq(Item), s # <<>>, ForWorker(s, w)
    PROVE  ForWorker(Tail(s), w)
<1>1. /\ Len(s) \in Nat \ {0}
      /\ Len(Tail(s)) = Len(s) - 1
      /\ \A i \in 1..Len(Tail(s)) : Tail(s)[i] = s[i + 1]
  OBVIOUS
<1>2. \A i \in 1..Len(Tail(s)) : i + 1 \in 1..Len(s)
  BY <1>1
<1>. QED
  BY <1>1, <1>2 DEF ForWorker

-----------------------------------------------------------------------------
(* Types.                                                                  *)

LEMMA FlowTypes ==
    ASSUME Flow
    PROVE  /\ batch \in Seq(Message) /\ asyncQueue \in Seq(Message)
           /\ \A w \in Workers : inputQueue[w] \in Seq(Item)
           /\ \A a \in Assets :
                 /\ WorkerOf[a] \in Workers
                 /\ seen[a] \in Nat /\ arrived[a] \in Nat
                 /\ InOrder(a)
           /\ \A a \in Assets : Numbers(inputQueue[WorkerOf[a]], a) \subseteq Nat
           /\ \A a \in Assets : Numbers(batch, a) \subseteq Nat
           /\ \A a \in Assets : Numbers(asyncQueue, a) \subseteq Nat
<1>1. /\ batch \in Seq(Message) /\ asyncQueue \in Seq(Message)
      /\ \A w \in Workers : inputQueue[w] \in Seq(Item)
  BY DEF Flow, DataPlaneTypeOK, RouterTypeOK
<1>2. \A a \in Assets :
         /\ WorkerOf[a] \in Workers
         /\ seen[a] \in Nat /\ arrived[a] \in Nat
         /\ InOrder(a)
  BY WorkerOfAssumption DEF Flow, DataPlaneTypeOK, RouterTypeOK, WorkerTypeOK
<1>. QED
  BY <1>1, <1>2 DEF InOrder, Ranked

LEMMA CapacitiesAreNat ==
    AsyncQueueSize \in Nat \ {0} /\ WorkerQueueSize \in Nat \ {0} /\ BatchSize \in Nat \ {0}
BY SizesAssumption

LEMMA LastPutIsLast ==
    ASSUME Flow, NEW a \in Assets
    PROVE  /\ LastPut(a) \in {seen[a]} \cup Numbers(inputQueue[WorkerOf[a]], a)
           /\ LastPut(a) \in Nat
<1> DEFINE T == {seen[a]} \cup Numbers(inputQueue[WorkerOf[a]], a)
<1>1. T \subseteq Nat /\ T # {} /\ arrived[a] \in Nat /\ \A n \in T : n <= arrived[a]
  BY FlowTypes DEF InOrder, Ranked
<1>2. LastPut(a) = Max(T)
  BY DEF LastPut
<1> HIDE DEF T
<1>3. Max(T) \in T
  BY <1>1, MaxOfBounded
<1>. QED
  BY <1>1, <1>2, <1>3 DEF T

LEMMA WithSentinelsTypes ==
    ASSUME DataPlaneTypeOK
    PROVE  /\ WithSentinels \in [Workers -> Seq(Item)]
           /\ \A w \in Workers : Len(WithSentinels[w]) <= WorkerQueueSize
<1>1. Sentinel \in Item
  BY DEF Item
<1>2. ASSUME NEW w \in Workers
      PROVE  /\ inputQueue[w] \in Seq(Item) /\ Len(inputQueue[w]) <= WorkerQueueSize
             /\ Append(inputQueue[w], Sentinel) \in Seq(Item)
             /\ Len(Append(inputQueue[w], Sentinel)) = Len(inputQueue[w]) + 1
             /\ Len(inputQueue[w]) \in Nat
  BY <1>1 DEF DataPlaneTypeOK, RouterTypeOK
<1>. QED
  BY <1>2, CapacitiesAreNat DEF WithSentinels, HasRoom

(* A put in a queue that has room.                                         *)
LEMMA PutTypes ==
    ASSUME DataPlaneTypeOK, NEW w \in Workers, HasRoom(w), NEW m \in Item,
           inputQueue' = [inputQueue EXCEPT ![w] = Append(@, m)]
    PROVE  /\ inputQueue' \in [Workers -> Seq(Item)]
           /\ \A v \in Workers : Len(inputQueue'[v]) <= WorkerQueueSize
<1>1. \A v \in Workers :
         /\ inputQueue[v] \in Seq(Item) /\ Len(inputQueue[v]) <= WorkerQueueSize
         /\ Len(inputQueue[v]) \in Nat
  BY DEF DataPlaneTypeOK, RouterTypeOK
<1>2. /\ Append(inputQueue[w], m) \in Seq(Item)
      /\ Len(Append(inputQueue[w], m)) = Len(inputQueue[w]) + 1
  BY <1>1
<1>3. Len(inputQueue[w]) + 1 <= WorkerQueueSize
  BY <1>1, CapacitiesAreNat DEF HasRoom
<1>4. /\ inputQueue' \in [Workers -> Seq(Item)]
      /\ \A v \in Workers : inputQueue'[v] = IF v = w THEN Append(inputQueue[w], m) ELSE inputQueue[v]
  BY <1>2 DEF DataPlaneTypeOK, RouterTypeOK
<1>. QED
  BY <1>1, <1>2, <1>3, <1>4

(* A worker takes the first item of its queue.                             *)
LEMMA DequeuedTypes ==
    ASSUME DataPlaneTypeOK, NEW w \in Workers, NEW kind, Dequeued(w, kind)
    PROVE  /\ RouterTypeOK'
           /\ inputQueue[w] \in Seq(Item) /\ inputQueue[w] # <<>>
           /\ Head(inputQueue[w]) \in Item /\ Head(inputQueue[w]).kind = kind
           /\ inputQueue' = [inputQueue EXCEPT ![w] = Tail(@)]
<1>1. inputQueue[w] \in Seq(Item) /\ inputQueue[w] # <<>> /\ Len(inputQueue[w]) <= WorkerQueueSize
  BY DEF DataPlaneTypeOK, RouterTypeOK, Dequeued
<1>2. /\ Head(inputQueue[w]) \in Item
      /\ Tail(inputQueue[w]) \in Seq(Item)
      /\ Len(Tail(inputQueue[w])) = Len(inputQueue[w]) - 1
      /\ Len(inputQueue[w]) \in Nat
  BY <1>1
<1>3. Len(Tail(inputQueue[w])) <= WorkerQueueSize
  BY <1>1, <1>2, CapacitiesAreNat
<1>4. inputQueue' = [inputQueue EXCEPT ![w] = Tail(@)]
  BY DEF Dequeued
<1>5. /\ inputQueue' \in [Workers -> Seq(Item)]
      /\ \A v \in Workers : Len(inputQueue'[v]) <= WorkerQueueSize
  BY <1>2, <1>3, <1>4 DEF DataPlaneTypeOK, RouterTypeOK
<1>6. RouterTypeOK'
  BY <1>5 DEF DataPlaneTypeOK, RouterTypeOK, Dequeued
<1>. QED
  BY <1>1, <1>2, <1>4, <1>6 DEF Dequeued

LEMMA NextToRouteTypes ==
    ASSUME DataPlaneTypeOK, batch # <<>>
    PROVE  /\ NextToRoute \in 1..Len(batch)
           /\ batch[NextToRoute] \in Message
           /\ WorkerOf[batch[NextToRoute].asset] \in Workers
           /\ RemoveAt(batch, NextToRoute) \in Seq(Message)
<1>1. batch \in Seq(Message)
  BY DEF DataPlaneTypeOK, RouterTypeOK
<1>2. NextToRoute \in 1..Len(batch)
  BY <1>1, NextToRouteExists
<1>3. batch[NextToRoute] \in Message
  BY <1>1, <1>2
<1>4. WorkerOf[batch[NextToRoute].asset] \in Workers
  BY <1>3, WorkerOfAssumption DEF Message
<1>. QED
  BY <1>1, <1>2, <1>3, <1>4, RemoveAtProperties

LEMMA StatsTypes ==
    ASSUME NEW stats \in [routed : Nat, dropped : Nat]
    PROVE  /\ [stats EXCEPT !.routed = @ + 1] \in [routed : Nat, dropped : Nat]
           /\ [stats EXCEPT !.dropped = @ + 1] \in [routed : Nat, dropped : Nat]
OBVIOUS

LEMMA RouterTypes ==
    ASSUME Flow, (\E a \in Assets : RouteMessage(a) \/ RefuseMessage(a))
                 \/ TakeItem \/ BeginBatch \/ RoutePut \/ RouteDrop \/ EndBatch
                 \/ RouterStopBegin \/ RouterStopEnd
    PROVE  RouterTypeOK'
<1>0. DataPlaneTypeOK /\ RouterTypeOK
  BY DEF Flow, DataPlaneTypeOK
<1>1. /\ asyncQueue \in Seq(Message) /\ Len(asyncQueue) \in Nat /\ Len(asyncQueue) <= AsyncQueueSize
      /\ batch \in Seq(Message)
  BY <1>0 DEF RouterTypeOK
<1>. routerStats \in [routed : Nat, dropped : Nat]
  BY <1>0 DEF RouterTypeOK
<1>2. ASSUME NEW a \in Assets, RouteMessage(a) PROVE RouterTypeOK'
  <2> DEFINE m == [kind |-> "message", asset |-> a, n |-> arrived[a] + 1]
  <2>1. m \in Message
    BY <1>0 DEF RouterTypeOK, Message
  <2>2. asyncQueue' = Append(asyncQueue, m)
    BY <1>2 DEF RouteMessage
  <2> HIDE DEF m
  <2>3. asyncQueue' \in Seq(Message) /\ Len(asyncQueue') <= AsyncQueueSize
    BY <1>1, <1>2, <2>1, <2>2, CapacitiesAreNat DEF RouteMessage
  <2>. QED
    BY <1>0, <1>2, <2>3 DEF RouterTypeOK, RouteMessage
<1>3. ASSUME NEW a \in Assets, RefuseMessage(a) PROVE RouterTypeOK'
  BY <1>0, <1>3 DEF RouterTypeOK, RefuseMessage
<1>4. CASE TakeItem
  <2>1. /\ batch' \in Seq(Message) /\ asyncQueue' \in Seq(Message)
        /\ Len(asyncQueue') = Len(asyncQueue) - 1
    BY <1>1, <1>4 DEF TakeItem
  <2>2. Len(asyncQueue') <= AsyncQueueSize
    BY <1>1, <2>1, CapacitiesAreNat
  <2>. QED
    BY <1>0, <1>4, <2>1, <2>2 DEF RouterTypeOK, TakeItem
<1>5. CASE BeginBatch \/ EndBatch
  BY <1>0, <1>5 DEF RouterTypeOK, BeginBatch, EndBatch
<1>6. CASE RoutePut
  <2>1. batch # <<>>
    BY <1>6 DEF RoutePut
  <2>2. batch[NextToRoute] \in Item /\ batch' \in Seq(Message)
    BY <1>0, <1>6, <2>1, NextToRouteTypes DEF RoutePut, Item
  <2>3. /\ inputQueue' \in [Workers -> Seq(Item)]
        /\ \A v \in Workers : Len(inputQueue'[v]) <= WorkerQueueSize
    <3>1. PICK m : m = batch[NextToRoute]
      OBVIOUS
    <3>2. PICK w : w = WorkerOf[m.asset]
      OBVIOUS
    <3>3. w \in Workers /\ m \in Item
      BY <1>0, <2>1, <2>2, <3>1, <3>2, NextToRouteTypes
    <3>4. HasRoom(w) /\ inputQueue' = [inputQueue EXCEPT ![w] = Append(@, m)]
      BY <1>6, <3>1, <3>2 DEF RoutePut
    <3>. QED
      BY <1>0, <3>3, <3>4, PutTypes
  <2>4. routerStats' \in [routed : Nat, dropped : Nat]
    <3>1. routerStats' = [routerStats EXCEPT !.routed = @ + 1]
      BY <1>6 DEF RoutePut
    <3>. QED
      BY <3>1, StatsTypes
  <2>5. UNCHANGED <<arrived, asyncQueue, routing>>
    BY <1>6 DEF RoutePut
  <2>. QED
    BY <1>0, <2>2, <2>3, <2>4, <2>5 DEF RouterTypeOK
<1>7. CASE RouteDrop
  <2>1. batch' \in Seq(Message)
    <3>1. batch # <<>> /\ batch' = RemoveAt(batch, NextToRoute)
      BY <1>7 DEF RouteDrop
    <3>. QED
      BY <1>0, <3>1, NextToRouteTypes
  <2>2. routerStats' \in [routed : Nat, dropped : Nat]
    <3>1. routerStats' = [routerStats EXCEPT !.dropped = @ + 1]
      BY <1>7 DEF RouteDrop
    <3>. QED
      BY <3>1, StatsTypes
  <2>3. UNCHANGED <<arrived, asyncQueue, routing, inputQueue>>
    BY <1>7 DEF RouteDrop
  <2>. QED
    BY <1>0, <2>1, <2>2, <2>3 DEF RouterTypeOK
<1>8. CASE RouterStopBegin
  <2>1. batch \o asyncQueue \in Seq(Message) /\ <<>> \in Seq(Message) /\ Len(<<>>) = 0
    BY <1>1
  <2>. QED
    BY <1>0, <1>8, <2>1, CapacitiesAreNat DEF RouterTypeOK, RouterStopBegin
<1>9. CASE RouterStopEnd
  BY <1>0, <1>9, WithSentinelsTypes DEF RouterTypeOK, RouterStopEnd
<1>. QED
  BY <1>2, <1>3, <1>4, <1>5, <1>6, <1>7, <1>8, <1>9

(* A worker that leaves its loop, or does not.                             *)
LEMMA LeavesTypes ==
    ASSUME WorkerTypeOK, NEW w \in Workers, NEW periodic \in {0, 1}, Leaves(w, periodic)
    PROVE  workerState' \in [Workers -> {"running", "exiting", "stopped"}] /\ reports' \in Nat
BY DEF Leaves, WorkerTypeOK

LEMMA NextRoundTypes ==
    ASSUME WorkerTypeOK, NEW w \in Workers, NextRound(w)
    PROVE  workerState' \in [Workers -> {"running", "exiting", "stopped"}] /\ reports' \in Nat
<1>1. PICK periodic \in {0, 1} :
        Leaves(w, periodic) \/ (workerState' = workerState /\ reports' = reports + periodic)
  BY DEF NextRound
<1>2. CASE Leaves(w, periodic)
  BY <1>2, LeavesTypes
<1>3. CASE workerState' = workerState /\ reports' = reports + periodic
  BY <1>3 DEF WorkerTypeOK
<1>. QED
  BY <1>1, <1>2, <1>3

LEMMA WorkTypes ==
    ASSUME Flow, NEW w \in Workers, Work(w)
    PROVE  DataPlaneTypeOK'
<1>0. DataPlaneTypeOK /\ WorkerTypeOK
  BY DEF Flow, DataPlaneTypeOK
<1>1. ASSUME NextRound(w) \/ Leaves(w, 0)
      PROVE  workerState' \in [Workers -> {"running", "exiting", "stopped"}] /\ reports' \in Nat
  BY <1>0, <1>1, LeavesTypes, NextRoundTypes
<1>2. CASE ProcessMessage(w)
  <2>1. Dequeued(w, "message")
    BY <1>2 DEF ProcessMessage
  <2>2. /\ RouterTypeOK'
        /\ Head(inputQueue[w]) \in Message
    BY <1>0, <2>1, DequeuedTypes DEF Item, Request, Sentinel
  <2>3. seen' \in [Assets -> Nat] /\ processed' \in [Workers -> Nat]
    BY <1>0, <1>2, <2>2 DEF ProcessMessage, DataPlaneTypeOK, WorkerTypeOK, Message
  <2>. QED
    BY <1>0, <1>1, <1>2, <2>1, <2>2, <2>3
    DEF ProcessMessage, DataPlaneTypeOK, WorkerTypeOK, Dequeued
<1>3. CASE HandleOrderbookRequest(w)
  <2>1. Dequeued(w, "request")
    BY <1>3 DEF HandleOrderbookRequest
  <2>2. /\ RouterTypeOK'
        /\ Head(inputQueue[w]) \in Request
    BY <1>0, <2>1, DequeuedTypes DEF Item, Message, Sentinel
  <2>3. responseQueue' \in Seq(Response)
    <3>1. PICK r : r = Head(inputQueue[w])
      OBVIOUS
    <3>2. [query |-> r.n, seen |-> seen[r.asset]] \in Response
      BY <1>0, <2>2, <3>1 DEF DataPlaneTypeOK, WorkerTypeOK, Request, Response
    <3>3. responseQueue' = Append(responseQueue, [query |-> r.n, seen |-> seen[r.asset]])
      BY <1>3, <3>1 DEF HandleOrderbookRequest
    <3>. QED
      BY <1>0, <3>2, <3>3 DEF DataPlaneTypeOK, WorkerTypeOK
  <2>. QED
    BY <1>0, <1>1, <1>3, <2>1, <2>2, <2>3
    DEF HandleOrderbookRequest, DataPlaneTypeOK, WorkerTypeOK, Dequeued
<1>4. CASE ReceiveSentinel(w)
  <2>1. Dequeued(w, "sentinel")
    BY <1>4 DEF ReceiveSentinel
  <2>2. RouterTypeOK'
    BY <1>0, <2>1, DequeuedTypes
  <2>. QED
    BY <1>0, <1>1, <1>4, <2>1, <2>2 DEF ReceiveSentinel, DataPlaneTypeOK, WorkerTypeOK, Dequeued
<1>5. CASE WorkerIdle(w)
  BY <1>0, <1>1, <1>5 DEF WorkerIdle, routerVars, DataPlaneTypeOK, WorkerTypeOK, RouterTypeOK
<1>. QED
  BY <1>2, <1>3, <1>4, <1>5 DEF Work

LEMMA ManagerTypes ==
    ASSUME DataPlaneTypeOK, ManagerStopBegin \/ ManagerStopEnd \/ \E w \in Workers : KillWorker(w)
    PROVE  DataPlaneTypeOK'
<1>1. CASE ManagerStopBegin
  BY <1>1, WithSentinelsTypes DEF ManagerStopBegin, DataPlaneTypeOK, WorkerTypeOK, RouterTypeOK
<1>2. CASE ManagerStopEnd
  BY <1>2 DEF ManagerStopEnd, routerVars, DataPlaneTypeOK, WorkerTypeOK, RouterTypeOK
<1>3. ASSUME NEW w \in Workers, KillWorker(w) PROVE DataPlaneTypeOK'
  BY <1>3 DEF KillWorker, routerVars, DataPlaneTypeOK, WorkerTypeOK, RouterTypeOK
<1>. QED
  BY <1>1, <1>2, <1>3

(* The end of a process, and the reading of the reports.                   *)
LEMMA ReportTypes ==
    ASSUME DataPlaneTypeOK, GetStats \/ \E w \in Workers : ExitProcess(w)
    PROVE  DataPlaneTypeOK'
<1>1. CASE GetStats
  BY <1>1 DEF GetStats, routerVars, DataPlaneTypeOK, WorkerTypeOK, RouterTypeOK
<1>2. ASSUME NEW w \in Workers, ExitProcess(w) PROVE DataPlaneTypeOK'
  BY <1>2 DEF ExitProcess, routerVars, DataPlaneTypeOK, WorkerTypeOK, RouterTypeOK
<1>. QED
  BY <1>1, <1>2

LEMMA QueryTypes ==
    ASSUME Flow, NEW q \in Queries, QueryStep(q)
    PROVE  DataPlaneTypeOK'
<1>0. DataPlaneTypeOK /\ query[q] \in QueryState /\ query \in [Queries -> QueryState]
      /\ responseQueue \in Seq(Response)
  BY DEF Flow, DataPlaneTypeOK, WorkerTypeOK
<1>1. ASSUME NEW a \in Assets, QuerySend(q, a) PROVE DataPlaneTypeOK'
  <2>1. [kind |-> "request", asset |-> a, n |-> q] \in Item
    BY DEF Item, Request
  <2>2. WorkerOf[a] \in Workers
    BY WorkerOfAssumption
  <2>3. /\ inputQueue' \in [Workers -> Seq(Item)]
        /\ \A v \in Workers : Len(inputQueue'[v]) <= WorkerQueueSize
    BY <1>0, <1>1, <2>1, <2>2, PutTypes DEF QuerySend
  <2>4. [pc |-> "waiting", floor |-> LastPut(a)] \in QueryState
    BY LastPutIsLast DEF QueryState
  <2>5. query' \in [Queries -> QueryState]
    BY <1>0, <1>1, <2>4 DEF QuerySend
  <2>. QED
    BY <1>0, <1>1, <2>3, <2>5 DEF QuerySend, DataPlaneTypeOK, WorkerTypeOK, RouterTypeOK
<1>2. ASSUME NEW a \in Assets, QueryRefused(q, a) PROVE DataPlaneTypeOK'
  <2>1. query' \in [Queries -> QueryState]
    BY <1>0, <1>2 DEF QueryRefused, QueryState
  <2>. QED
    BY <1>0, <1>2, <2>1 DEF QueryRefused, routerVars, DataPlaneTypeOK, WorkerTypeOK, RouterTypeOK
<1>3. CASE QueryPoll(q)
  <2>1. PICK r : r = Head(responseQueue)
    OBVIOUS
  <2>2. /\ r \in Response /\ Tail(responseQueue) \in Seq(Response)
        /\ Append(Tail(responseQueue), r) \in Seq(Response)
    BY <1>0, <1>3, <2>1 DEF QueryPoll
  <2>3. responseQueue' \in Seq(Response)
    BY <1>3, <2>1, <2>2 DEF QueryPoll
  <2>4. query[q].floor \in Nat
    BY <1>0, <1>3 DEF QueryPoll, QueryState
  <2>5. [pc |-> "answered", floor |-> query[q].floor, answer |-> r.seen] \in QueryState
    BY <2>2, <2>4 DEF Response, QueryState
  <2>6. query' \in [Queries -> QueryState]
    BY <1>0, <1>3, <2>1, <2>5 DEF QueryPoll
  <2>. QED
    BY <1>0, <1>3, <2>3, <2>6 DEF QueryPoll, routerVars, DataPlaneTypeOK, WorkerTypeOK, RouterTypeOK
<1>4. CASE QueryTimeout(q)
  <2>1. query' \in [Queries -> QueryState]
    BY <1>0, <1>4 DEF QueryTimeout, QueryState
  <2>. QED
    BY <1>0, <1>4, <2>1 DEF QueryTimeout, routerVars, DataPlaneTypeOK, WorkerTypeOK, RouterTypeOK
<1>. QED
  BY <1>1, <1>2, <1>3, <1>4 DEF QueryStep

LEMMA TypesStep == ASSUME Flow, [Next]_vars PROVE DataPlaneTypeOK'
<1>1. ASSUME UNCHANGED workerVars, RouterTypeOK' PROVE DataPlaneTypeOK'
  BY <1>1 DEF Flow, workerVars, DataPlaneTypeOK, WorkerTypeOK
<1>2. ASSUME NEW a \in Assets, Arrive(a) PROVE DataPlaneTypeOK'
  BY <1>1, <1>2, RouterTypes DEF Arrive
<1>3. CASE Route
  BY <1>1, <1>3, RouterTypes DEF Route
<1>4. CASE StopRouter
  BY <1>1, <1>4, RouterTypes DEF StopRouter
<1>5. CASE StopManager
  BY <1>5, ManagerTypes DEF Flow, StopManager
<1>6. CASE UNCHANGED vars
  BY <1>6 DEF Flow, vars, routerVars, workerVars, DataPlaneTypeOK, RouterTypeOK, WorkerTypeOK
<1>. QED
  BY <1>2, <1>3, <1>4, <1>5, <1>6, WorkTypes, ReportTypes, QueryTypes DEF Flow, Next

-----------------------------------------------------------------------------
(* The order, step by step, and what each does to the messages under way.  *)

(* What may happen to a worker's queue without touching its messages.      *)
Quiet(s, t, w) ==
    \/ t = s
    \/ \E m \in Item :
          /\ m.kind # "message" /\ (m.kind # "sentinel" => WorkerOf[m.asset] = w)
          /\ t = Append(s, m)
    \/ s # <<>> /\ Head(s).kind # "message" /\ t = Tail(s)

LEMMA QuietKeeps ==
    ASSUME NEW w, NEW s \in Seq(Item), NEW t, Quiet(s, t, w), ForWorker(s, w),
           NEW a, Sorted(s, a)
    PROVE  /\ ForWorker(t, w)
           /\ Sorted(t, a)
           /\ Numbers(t, a) = Numbers(s, a)
<1>1. ASSUME NEW m \in Item, m.kind # "message", m.kind # "sentinel" => WorkerOf[m.asset] = w,
             t = Append(s, m)
      PROVE  ForWorker(t, w) /\ Sorted(t, a) /\ Numbers(t, a) = Numbers(s, a)
  <2>1. ~IsMessageOf(m, a)
    BY <1>1 DEF IsMessageOf
  <2>2. ForWorker(t, w)
    <3>1. ForWorker(Append(s, m), w)
      BY <1>1, ForWorkerAppend
    <3>. QED
      BY <1>1, <3>1
  <2>3. Sorted(t, a) /\ Numbers(t, a) = Numbers(s, a)
    BY <1>1, <2>1, AppendOther
  <2>. QED
    BY <2>2, <2>3
<1>2. ASSUME s # <<>>, Head(s).kind # "message", t = Tail(s)
      PROVE  ForWorker(t, w) /\ Sorted(t, a) /\ Numbers(t, a) = Numbers(s, a)
  <2>1. ~IsMessageOf(Head(s), a)
    BY <1>2 DEF IsMessageOf
  <2>2. ForWorker(t, w)
    BY <1>2, ForWorkerTail
  <2>3. Numbers(s, a) \subseteq Nat
    BY NumbersAreNat
  <2>4. Sorted(t, a) /\ Numbers(t, a) = Numbers(s, a)
    BY <1>2, <2>1, <2>3, TailNumbers
  <2>. QED
    BY <2>2, <2>4
<1>. QED
  BY <1>1, <1>2 DEF Quiet

UnderWayKept == \A a \in Assets : UnderWay(a)' = UnderWay(a)

(* A step that leaves the router's messages and the books alone.           *)
LEMMA QuietStep ==
    ASSUME Flow, DataPlaneTypeOK', UNCHANGED <<arrived, asyncQueue, batch, seen>>,
           \A w \in Workers : Quiet(inputQueue[w], inputQueue'[w], w)
    PROVE  Flow' /\ UnderWayKept
<1>1. \A w \in Workers : inputQueue[w] \in Seq(Item) /\ ForWorker(inputQueue[w], w)
  BY FlowTypes DEF Flow, AtItsWorker
<1>2. \A a \in Assets : WorkerOf[a] \in Workers /\ InOrder(a)
  BY FlowTypes
<1>3. ASSUME NEW w \in Workers PROVE ForWorker(inputQueue'[w], w)
  <2>2. CASE inputQueue'[w] = inputQueue[w]
    BY <1>1, <2>2
  <2>3. ASSUME NEW m \in Item, m.kind # "sentinel" => WorkerOf[m.asset] = w,
               inputQueue'[w] = Append(inputQueue[w], m)
        PROVE  ForWorker(inputQueue'[w], w)
    BY <1>1, <2>3, ForWorkerAppend
  <2>4. CASE inputQueue[w] # <<>> /\ inputQueue'[w] = Tail(inputQueue[w])
    BY <1>1, <2>4, ForWorkerTail
  <2>. QED
    BY <2>2, <2>3, <2>4 DEF Quiet
<1>4. ASSUME NEW a \in Assets
      PROVE  /\ Sorted(inputQueue'[WorkerOf[a]], a)
             /\ Numbers(inputQueue'[WorkerOf[a]], a) = Numbers(inputQueue[WorkerOf[a]], a)
  <2>1. WorkerOf[a] \in Workers /\ Sorted(inputQueue[WorkerOf[a]], a)
    BY <1>2 DEF InOrder
  <2>. QED
    BY <2>1, <1>1, QuietKeeps
<1>5. \A a \in Assets : InOrder(a)' /\ UnderWay(a)' = UnderWay(a)
  BY <1>2, <1>4 DEF InOrder, UnderWay
<1>. QED
  BY <1>3, <1>5 DEF Flow, AtItsWorker, UnderWayKept

LEMMA RouteMessageFlow ==
    ASSUME Flow, DataPlaneTypeOK', NEW a \in Assets, RouteMessage(a), UNCHANGED workerVars
    PROVE  /\ Flow'
           /\ \A b \in Assets : UnderWay(b)' = IF b = a THEN UnderWay(a) \cup {arrived[a] + 1}
                                                        ELSE UnderWay(b)
<1> DEFINE m == [kind |-> "message", asset |-> a, n |-> arrived[a] + 1]
<1>1. /\ arrived' = [arrived EXCEPT ![a] = @ + 1]
      /\ asyncQueue' = Append(asyncQueue, m)
      /\ UNCHANGED <<batch, inputQueue, seen>>
  BY DEF RouteMessage, workerVars
<1>2. /\ m \in Message
      /\ m.n = arrived[a] + 1
      /\ \A b : IsMessageOf(m, b) <=> b = a
  BY FlowTypes DEF Message, IsMessageOf
<1> HIDE DEF m
<1>3. ASSUME NEW b \in Assets
      PROVE  /\ InOrder(b)'
             /\ UnderWay(b)' = IF b = a THEN UnderWay(a) \cup {arrived[a] + 1} ELSE UnderWay(b)
  <2>1. /\ seen[b] \in Nat /\ arrived[b] \in Nat /\ InOrder(b)
        /\ asyncQueue \in Seq(Message) /\ Sorted(asyncQueue, b)
    BY FlowTypes DEF InOrder
  <2>2. CASE b = a
    <3>1. /\ Ranked(Numbers(inputQueue[WorkerOf[a]], a), Numbers(batch, a),
                    Numbers(asyncQueue, a) \cup {arrived[a] + 1}, seen[a], arrived[a] + 1)
          /\ Below(Numbers(asyncQueue, a), {arrived[a] + 1})
      BY <2>1, <2>2, RankedAccept DEF InOrder
    <3>2. /\ Numbers(asyncQueue', a) = Numbers(asyncQueue, a) \cup {arrived[a] + 1}
          /\ Sorted(asyncQueue', a)
      <4>1. IsMessageOf(m, a) /\ Sorted(asyncQueue, a) /\ Below(Numbers(asyncQueue, a), {m.n})
        BY <1>2, <2>1, <2>2, <3>1
      <4>2. /\ Numbers(Append(asyncQueue, m), a) = Numbers(asyncQueue, a) \cup {m.n}
            /\ Sorted(Append(asyncQueue, m), a)
        BY <1>2, <2>1, <4>1, AppendMessage
      <4>. QED
        BY <1>1, <1>2, <4>2
    <3>3. arrived'[a] = arrived[a] + 1
      BY <1>1 DEF Flow, DataPlaneTypeOK, RouterTypeOK
    <3>. QED
      BY <1>1, <2>1, <2>2, <3>1, <3>2, <3>3 DEF InOrder, UnderWay
  <2>3. CASE b # a
    <3>1. Numbers(asyncQueue', b) = Numbers(asyncQueue, b) /\ Sorted(asyncQueue', b)
      BY <1>1, <1>2, <2>1, <2>3, AppendOther
    <3>2. arrived'[b] = arrived[b]
      BY <1>1, <2>3 DEF Flow, DataPlaneTypeOK, RouterTypeOK
    <3>. QED
      BY <1>1, <2>1, <2>3, <3>1, <3>2 DEF InOrder, UnderWay
  <2>. QED
    BY <2>2, <2>3
<1>. QED
  BY <1>1, <1>3 DEF Flow, AtItsWorker

LEMMA RefuseMessageFlow ==
    ASSUME Flow, DataPlaneTypeOK', NEW a \in Assets, RefuseMessage(a), UNCHANGED workerVars
    PROVE  Flow' /\ UnderWayKept
<1>1. /\ arrived' = [arrived EXCEPT ![a] = @ + 1]
      /\ UNCHANGED <<batch, asyncQueue, inputQueue, seen>>
  BY DEF RefuseMessage, workerVars
<1>2. ASSUME NEW b \in Assets
      PROVE  InOrder(b)' /\ UnderWay(b)' = UnderWay(b)
  <2>1. seen[b] \in Nat /\ arrived[b] \in Nat /\ InOrder(b)
    BY FlowTypes
  <2>2. arrived'[b] = arrived[b] \/ arrived'[b] = arrived[b] + 1
    BY <1>1 DEF Flow, DataPlaneTypeOK, RouterTypeOK
  <2>3. Ranked(Numbers(inputQueue[WorkerOf[b]], b), Numbers(batch, b),
               Numbers(asyncQueue, b), seen[b], arrived'[b])
    BY <2>1, <2>2, RankedAccept DEF InOrder
  <2>. QED
    BY <1>1, <2>1, <2>3 DEF InOrder, UnderWay
<1>. QED
  BY <1>1, <1>2 DEF Flow, AtItsWorker, UnderWayKept

LEMMA TakeItemFlow ==
    ASSUME Flow, DataPlaneTypeOK', TakeItem, UNCHANGED workerVars
    PROVE  Flow' /\ UnderWayKept
<1>1. PICK m : m = Head(asyncQueue)
  OBVIOUS
<1>2. /\ asyncQueue # <<>> /\ asyncQueue' = Tail(asyncQueue)
      /\ batch' = Append(batch, m)
      /\ UNCHANGED <<arrived, inputQueue, seen>>
  BY <1>1 DEF TakeItem, workerVars
<1>3. asyncQueue \in Seq(Message) /\ batch \in Seq(Message) /\ m \in Message
  BY <1>1, <1>2, FlowTypes
<1>4. ASSUME NEW b \in Assets
      PROVE  InOrder(b)' /\ UnderWay(b)' = UnderWay(b)
  <2>1. /\ seen[b] \in Nat /\ arrived[b] \in Nat /\ InOrder(b)
        /\ Sorted(asyncQueue, b) /\ Sorted(batch, b)
        /\ Numbers(asyncQueue, b) \subseteq Nat
    BY FlowTypes DEF InOrder
  <2>2. CASE IsMessageOf(m, b)
    <3>1. /\ m.n \in Numbers(asyncQueue, b)
          /\ Numbers(asyncQueue', b) = Numbers(asyncQueue, b) \ {m.n}
          /\ Below({m.n}, Numbers(asyncQueue', b))
          /\ Sorted(asyncQueue', b)
      BY <1>1, <1>2, <1>3, <2>1, <2>2, TailNumbers
    <3>2. /\ Ranked(Numbers(inputQueue[WorkerOf[b]], b), Numbers(batch, b) \cup {m.n},
                    Numbers(asyncQueue, b) \ {m.n}, seen[b], arrived[b])
          /\ Below(Numbers(batch, b), {m.n})
      BY <2>1, <3>1, RankedTake DEF InOrder
    <3>3. Numbers(batch', b) = Numbers(batch, b) \cup {m.n} /\ Sorted(batch', b)
      <4>1. /\ Numbers(Append(batch, m), b) = Numbers(batch, b) \cup {m.n}
            /\ Sorted(Append(batch, m), b)
        BY <1>3, <2>1, <2>2, <3>2, AppendMessage
      <4>. QED
        BY <1>2, <4>1
    <3>. QED
      BY <1>2, <2>1, <3>1, <3>2, <3>3 DEF InOrder, UnderWay
  <2>3. CASE ~IsMessageOf(m, b)
    <3>1. Numbers(asyncQueue', b) = Numbers(asyncQueue, b) /\ Sorted(asyncQueue', b)
      BY <1>1, <1>2, <1>3, <2>1, <2>3, TailNumbers
    <3>2. Numbers(batch', b) = Numbers(batch, b) /\ Sorted(batch', b)
      <4>1. Numbers(Append(batch, m), b) = Numbers(batch, b) /\ Sorted(Append(batch, m), b)
        BY <1>3, <2>1, <2>3, AppendOther
      <4>. QED
        BY <1>2, <4>1
    <3>. QED
      BY <1>2, <2>1, <3>1, <3>2 DEF InOrder, UnderWay
  <2>. QED
    BY <2>2, <2>3
<1>. QED
  BY <1>2, <1>4 DEF Flow, AtItsWorker, UnderWayKept

(* The next message to route is the first one of its asset in the batch.   *)
LEMMA NextIsFirst ==
    ASSUME Flow, batch # <<>>, NEW k, k = NextToRoute, NEW m, m = batch[k]
    PROVE  /\ batch \in Seq(Message) /\ k \in 1..Len(batch) /\ m \in Message
           /\ m.asset \in Assets /\ WorkerOf[m.asset] \in Workers
           /\ \A b : IsMessageOf(m, b) <=> b = m.asset
           /\ m.n \in Numbers(batch, m.asset)
           /\ Below({m.n}, Numbers(batch, m.asset) \ {m.n})
<1>1. batch \in Seq(Message)
  BY FlowTypes
<1>2. /\ k \in 1..Len(batch)
      /\ \A j \in 1..Len(batch) : WorkerOf[batch[j].asset] = WorkerOf[m.asset] => k <= j
  BY <1>1, NextToRouteExists
<1>3. m \in Message
  BY <1>1, <1>2
<1>4. /\ m.asset \in Assets /\ WorkerOf[m.asset] \in Workers
      /\ \A b : IsMessageOf(m, b) <=> b = m.asset
  BY <1>3, WorkerOfAssumption DEF Message, IsMessageOf
<1>5. m.n \in Numbers(batch, m.asset)
  BY <1>2, <1>4, NumbersMember
<1>6. ASSUME NEW n \in Numbers(batch, m.asset) \ {m.n}
      PROVE  m.n < n
  <2>1. PICK j \in 1..Len(batch) : IsMessageOf(batch[j], m.asset) /\ n = batch[j].n
    BY NumbersMember
  <2>2. k <= j /\ k # j
    BY <1>2, <2>1 DEF IsMessageOf
  <2>3. k < j
    BY <1>2, <2>2
  <2>4. Sorted(batch, m.asset)
    BY <1>4, FlowTypes DEF InOrder
  <2>. QED
    BY <1>2, <1>4, <2>1, <2>3, <2>4 DEF Sorted
<1>7. Below({m.n}, Numbers(batch, m.asset) \ {m.n})
  BY <1>6 DEF Below
<1>. QED
  BY <1>1, <1>2, <1>3, <1>4, <1>5, <1>7

(* What the batch is without it.                                           *)
LEMMA BatchWithoutNext ==
    ASSUME Flow, batch # <<>>, NEW k, k = NextToRoute, NEW m, m = batch[k],
           batch' = RemoveAt(batch, k), NEW b \in Assets
    PROVE  /\ Sorted(batch', b)
           /\ b = m.asset => Numbers(batch', b) = Numbers(batch, b) \ {m.n}
           /\ b # m.asset => Numbers(batch', b) = Numbers(batch, b)
<1>1. Sorted(batch, b) /\ Numbers(batch, b) \subseteq Nat
  BY FlowTypes DEF InOrder
<1>2. /\ batch \in Seq(Message) /\ k \in 1..Len(batch)
      /\ IsMessageOf(batch[k], b) <=> b = m.asset
  BY NextIsFirst
<1>. QED
  BY <1>1, <1>2, RemoveAtNumbers

LEMMA RoutePutFlow ==
    ASSUME Flow, DataPlaneTypeOK', RoutePut, UNCHANGED workerVars
    PROVE  Flow' /\ UnderWayKept
<1>1. PICK k : k = NextToRoute
  OBVIOUS
<1>2. PICK m : m = batch[k]
  OBVIOUS
<1>3. PICK w : w = WorkerOf[m.asset]
  OBVIOUS
<1>4. /\ batch # <<>> /\ batch' = RemoveAt(batch, k)
      /\ inputQueue' = [inputQueue EXCEPT ![w] = Append(@, m)]
      /\ UNCHANGED <<arrived, asyncQueue, seen>>
  BY <1>1, <1>2, <1>3 DEF RoutePut, workerVars
<1>5. /\ m \in Message /\ m \in Item /\ m.asset \in Assets /\ w \in Workers
      /\ \A b : IsMessageOf(m, b) <=> b = m.asset
      /\ m.n \in Numbers(batch, m.asset)
      /\ Below({m.n}, Numbers(batch, m.asset) \ {m.n})
  BY <1>1, <1>2, <1>3, <1>4, NextIsFirst DEF Item
<1>6. \A v \in Workers :
         /\ inputQueue[v] \in Seq(Item)
         /\ inputQueue'[v] = IF v = w THEN Append(inputQueue[w], m) ELSE inputQueue[v]
  BY <1>4, <1>5 DEF Flow, DataPlaneTypeOK, RouterTypeOK
<1>7. ASSUME NEW v \in Workers PROVE ForWorker(inputQueue'[v], v)
  <2>1. ForWorker(inputQueue[v], v)
    BY DEF Flow, AtItsWorker
  <2>2. CASE v = w
    <3>1. ForWorker(Append(inputQueue[v], m), v)
      BY <1>3, <1>5, <1>6, <2>1, <2>2, ForWorkerAppend
    <3>. QED
      BY <1>6, <2>2, <3>1
  <2>. QED
    BY <1>6, <2>1, <2>2
<1>8. ASSUME NEW b \in Assets
      PROVE  InOrder(b)' /\ UnderWay(b)' = UnderWay(b)
  <2>1. /\ seen[b] \in Nat /\ arrived[b] \in Nat /\ InOrder(b)
        /\ WorkerOf[b] \in Workers /\ inputQueue[WorkerOf[b]] \in Seq(Item)
        /\ Sorted(inputQueue[WorkerOf[b]], b)
    BY FlowTypes DEF InOrder
  <2>2. /\ Sorted(batch', b)
        /\ b = m.asset => Numbers(batch', b) = Numbers(batch, b) \ {m.n}
        /\ b # m.asset => Numbers(batch', b) = Numbers(batch, b)
    BY <1>1, <1>2, <1>4, BatchWithoutNext
  <2>3. CASE b = m.asset
    <3>1. /\ Ranked(Numbers(inputQueue[WorkerOf[b]], b) \cup {m.n}, Numbers(batch, b) \ {m.n},
                    Numbers(asyncQueue, b), seen[b], arrived[b])
          /\ Below(Numbers(inputQueue[WorkerOf[b]], b), {m.n})
      BY <1>5, <2>1, <2>3, RankedPut DEF InOrder
    <3>2. /\ Numbers(Append(inputQueue[w], m), b) = Numbers(inputQueue[w], b) \cup {m.n}
          /\ Sorted(Append(inputQueue[w], m), b)
      <4>1. w = WorkerOf[b] /\ IsMessageOf(m, b)
        BY <1>3, <1>5, <2>3
      <4>. QED
        BY <1>5, <2>1, <3>1, <4>1, AppendMessage
    <3>3. inputQueue'[WorkerOf[b]] = Append(inputQueue[w], m) /\ w = WorkerOf[b]
      BY <1>3, <1>5, <1>6, <2>3
    <3>4. /\ Numbers(inputQueue'[WorkerOf[b]], b) = Numbers(inputQueue[WorkerOf[b]], b) \cup {m.n}
          /\ Sorted(inputQueue'[WorkerOf[b]], b)
          /\ Numbers(batch', b) = Numbers(batch, b) \ {m.n}
      BY <2>2, <2>3, <3>2, <3>3
    <3>5. InOrder(b)'
      BY <1>4, <2>1, <2>2, <3>1, <3>4 DEF InOrder
    <3>6. m.n \in Numbers(batch, b)
      BY <1>5, <2>3
    <3>7. UnderWay(b)' = UnderWay(b)
      BY <1>4, <3>4, <3>6 DEF UnderWay
    <3>. QED
      BY <3>5, <3>7
  <2>4. CASE b # m.asset
    <3>1. /\ Numbers(inputQueue'[WorkerOf[b]], b) = Numbers(inputQueue[WorkerOf[b]], b)
          /\ Sorted(inputQueue'[WorkerOf[b]], b)
      <4>1. /\ Numbers(Append(inputQueue[WorkerOf[b]], m), b) = Numbers(inputQueue[WorkerOf[b]], b)
            /\ Sorted(Append(inputQueue[WorkerOf[b]], m), b)
        BY <1>5, <2>1, <2>4, AppendOther
      <4>. QED
        BY <1>6, <2>1, <4>1
    <3>. QED
      BY <1>4, <2>1, <2>2, <2>4, <3>1 DEF InOrder, UnderWay
  <2>. QED
    BY <2>3, <2>4
<1>. QED
  BY <1>7, <1>8 DEF Flow, AtItsWorker, UnderWayKept

LEMMA RouteDropFlow ==
    ASSUME Flow, DataPlaneTypeOK', RouteDrop, UNCHANGED workerVars
    PROVE  /\ Flow'
           /\ \E a \in Assets : \E n \in UnderWay(a) :
                 \A b \in Assets : UnderWay(b)' = IF b = a THEN UnderWay(a) \ {n} ELSE UnderWay(b)
<1>1. PICK k : k = NextToRoute
  OBVIOUS
<1>2. PICK m : m = batch[k]
  OBVIOUS
<1>3. /\ batch # <<>> /\ batch' = RemoveAt(batch, k)
      /\ UNCHANGED <<arrived, asyncQueue, inputQueue, seen>>
  BY <1>1 DEF RouteDrop, workerVars
<1>4. m.asset \in Assets /\ m.n \in Numbers(batch, m.asset)
  BY <1>1, <1>2, <1>3, NextIsFirst
<1>5. ASSUME NEW b \in Assets
      PROVE  InOrder(b)' /\ UnderWay(b)' = IF b = m.asset THEN UnderWay(b) \ {m.n} ELSE UnderWay(b)
  <2>1. seen[b] \in Nat /\ arrived[b] \in Nat /\ InOrder(b)
    BY FlowTypes
  <2>2. /\ Sorted(batch', b)
        /\ b = m.asset => Numbers(batch', b) = Numbers(batch, b) \ {m.n}
        /\ b # m.asset => Numbers(batch', b) = Numbers(batch, b)
    BY <1>1, <1>2, <1>3, BatchWithoutNext
  <2>3. CASE b = m.asset
    <3>1. /\ Ranked(Numbers(inputQueue[WorkerOf[b]], b), Numbers(batch, b) \ {m.n},
                    Numbers(asyncQueue, b), seen[b], arrived[b])
          /\ Numbers(inputQueue[WorkerOf[b]], b) \cup (Numbers(batch, b) \ {m.n}) \cup Numbers(asyncQueue, b)
                = UnderWay(b) \ {m.n}
      <4>1. m.n \in Numbers(batch, b)
        BY <1>4, <2>3
      <4>2. Ranked(Numbers(inputQueue[WorkerOf[b]], b), Numbers(batch, b), Numbers(asyncQueue, b),
                   seen[b], arrived[b])
        BY <2>1 DEF InOrder
      <4>3. PICK X, Y, Z : /\ X = Numbers(inputQueue[WorkerOf[b]], b)
                           /\ Y = Numbers(batch, b) /\ Z = Numbers(asyncQueue, b)
        OBVIOUS
      <4>4. /\ Ranked(X, Y \ {m.n}, Z, seen[b], arrived[b])
            /\ X \cup (Y \ {m.n}) \cup Z = (X \cup Y \cup Z) \ {m.n}
        BY <2>1, <4>1, <4>2, <4>3, RankedDrop
      <4>5. UnderWay(b) = X \cup Y \cup Z
        BY <4>3 DEF UnderWay
      <4>. QED
        BY <4>3, <4>4, <4>5
    <3>2. Numbers(batch', b) = Numbers(batch, b) \ {m.n}
      BY <2>2, <2>3
    <3>3. InOrder(b)'
      BY <1>3, <2>1, <2>2, <3>1, <3>2 DEF InOrder
    <3>4. UnderWay(b)' = UnderWay(b) \ {m.n}
      BY <1>3, <3>1, <3>2 DEF UnderWay
    <3>. QED
      BY <2>3, <3>3, <3>4
  <2>4. CASE b # m.asset
    BY <1>3, <2>1, <2>2, <2>4 DEF InOrder, UnderWay
  <2>. QED
    BY <2>3, <2>4
<1>6. m.n \in UnderWay(m.asset)
  BY <1>4 DEF UnderWay
<1>7. Flow'
  BY <1>3, <1>5 DEF Flow, AtItsWorker
<1>8. \A b \in Assets : UnderWay(b)' = IF b = m.asset THEN UnderWay(m.asset) \ {m.n} ELSE UnderWay(b)
  BY <1>5
<1>. QED
  BY <1>4, <1>6, <1>7, <1>8

LEMMA RouterStopBeginFlow ==
    ASSUME Flow, DataPlaneTypeOK', RouterStopBegin, UNCHANGED workerVars
    PROVE  Flow' /\ UnderWayKept
<1>1. /\ batch' = batch \o asyncQueue /\ asyncQueue' = <<>>
      /\ UNCHANGED <<arrived, inputQueue, seen>>
  BY DEF RouterStopBegin, workerVars
<1>2. ASSUME NEW b \in Assets
      PROVE  InOrder(b)' /\ UnderWay(b)' = UnderWay(b)
  <2>1. /\ seen[b] \in Nat /\ arrived[b] \in Nat /\ InOrder(b)
        /\ batch \in Seq(Message) /\ asyncQueue \in Seq(Message)
        /\ Sorted(batch, b) /\ Sorted(asyncQueue, b)
        /\ Below(Numbers(batch, b), Numbers(asyncQueue, b))
    BY FlowTypes DEF InOrder, Ranked
  <2>2. /\ Numbers(batch \o asyncQueue, b) = Numbers(batch, b) \cup Numbers(asyncQueue, b)
        /\ Sorted(batch \o asyncQueue, b)
    BY <2>1, ConcatNumbers
  <2>3. Numbers(<<>>, b) = {} /\ Sorted(<<>>, b)
    BY DEF Numbers, Sorted
  <2>4. Ranked(Numbers(inputQueue[WorkerOf[b]], b), Numbers(batch, b) \cup Numbers(asyncQueue, b), {},
               seen[b], arrived[b])
    BY <2>1, RankedDrain DEF InOrder
  <2>5. InOrder(b)'
    BY <1>1, <2>1, <2>2, <2>3, <2>4 DEF InOrder
  <2>6. UnderWay(b)' = UnderWay(b)
    BY <1>1, <2>2, <2>3 DEF UnderWay
  <2>. QED
    BY <2>5, <2>6
<1>. QED
  BY <1>1, <1>2 DEF Flow, AtItsWorker, UnderWayKept

(* What is delivered is the first message of its asset under way.          *)
LEMMA ProcessMessageFlow ==
    ASSUME Flow, DataPlaneTypeOK', NEW w \in Workers, ProcessMessage(w)
    PROVE  /\ Flow'
           /\ \E a \in Assets : \E n \in UnderWay(a) :
                 /\ w = WorkerOf[a] /\ IsMessageOf(Head(inputQueue[w]), a) /\ n = Head(inputQueue[w]).n
                 /\ \A k \in UnderWay(a) : n <= k
                 /\ seen[a] < n
                 /\ seen' = [seen EXCEPT ![a] = n]
                 /\ arrived' = arrived
                 /\ \A b \in Assets :
                       UnderWay(b)' = IF b = a THEN UnderWay(a) \ {n} ELSE UnderWay(b)
<1>1. PICK s : s = inputQueue[w]
  OBVIOUS
<1>2. PICK m : m = Head(s)
  OBVIOUS
<1>3. Dequeued(w, "message")
  BY DEF ProcessMessage
<1>4. /\ s \in Seq(Item) /\ s # <<>> /\ m \in Item /\ m.kind = "message"
      /\ inputQueue' = [inputQueue EXCEPT ![w] = Tail(s)]
      /\ UNCHANGED <<arrived, asyncQueue, batch>>
  BY <1>1, <1>2, <1>3, DequeuedTypes DEF Flow, Dequeued
<1>5. /\ m \in Message /\ m.asset \in Assets /\ m.n \in Nat
      /\ \A b : IsMessageOf(m, b) <=> b = m.asset
  BY <1>4 DEF Item, Message, Request, Sentinel, IsMessageOf
<1>6. seen' = [seen EXCEPT ![m.asset] = m.n]
  BY <1>1, <1>2 DEF ProcessMessage
<1>7. WorkerOf[m.asset] = w
  <2>1. ForWorker(s, w)
    BY <1>1 DEF Flow, AtItsWorker
  <2>2. 1 \in 1..Len(s) /\ m = s[1]
    BY <1>2, <1>4
  <2>. QED
    BY <1>4, <2>1, <2>2 DEF ForWorker
<1>8. \A v \in Workers : inputQueue'[v] = IF v = w THEN Tail(s) ELSE inputQueue[v]
  BY <1>4 DEF Flow, DataPlaneTypeOK, RouterTypeOK
<1>9. ASSUME NEW v \in Workers PROVE ForWorker(inputQueue'[v], v)
  <2>1. ForWorker(inputQueue[v], v)
    BY DEF Flow, AtItsWorker
  <2>2. CASE v = w
    <3>1. ForWorker(Tail(s), w)
      BY <1>1, <1>4, <2>1, <2>2, ForWorkerTail
    <3>. QED
      BY <1>8, <2>2, <3>1
  <2>. QED
    BY <1>8, <2>1, <2>2
<1>10. ASSUME NEW b \in Assets
       PROVE  /\ InOrder(b)'
              /\ UnderWay(b)' = IF b = m.asset THEN UnderWay(b) \ {m.n} ELSE UnderWay(b)
              /\ b = m.asset =>
                    m.n \in UnderWay(b) /\ seen[b] < m.n /\ \A k \in UnderWay(b) : m.n <= k
  <2>1. /\ seen[b] \in Nat /\ arrived[b] \in Nat /\ InOrder(b)
        /\ WorkerOf[b] \in Workers
        /\ Sorted(inputQueue[WorkerOf[b]], b)
        /\ Numbers(inputQueue[WorkerOf[b]], b) \subseteq Nat
    BY FlowTypes DEF InOrder
  <2>2. CASE b = m.asset
    <3>1. PICK X, Y, Z : X = Numbers(s, b) /\ Y = Numbers(batch, b) /\ Z = Numbers(asyncQueue, b)
      OBVIOUS
    <3>2. Ranked(X, Y, Z, seen[b], arrived[b]) /\ UnderWay(b) = X \cup Y \cup Z
      BY <1>1, <1>7, <2>1, <2>2, <3>1 DEF InOrder, UnderWay
    <3>3. /\ m.n \in X
          /\ Numbers(Tail(s), b) = X \ {m.n}
          /\ Below({m.n}, Numbers(Tail(s), b))
          /\ Sorted(Tail(s), b)
      <4>1. IsMessageOf(Head(s), b) /\ Sorted(s, b) /\ Numbers(s, b) \subseteq Nat
        BY <1>1, <1>2, <1>5, <1>7, <2>1, <2>2
      <4>. QED
        BY <1>2, <1>4, <3>1, <4>1, TailNumbers
    <3>4. /\ Ranked(X \ {m.n}, Y, Z, m.n, arrived[b])
          /\ seen[b] < m.n
          /\ (X \ {m.n}) \cup Y \cup Z = (X \cup Y \cup Z) \ {m.n}
          /\ \A k \in X \cup Y \cup Z : m.n <= k
      <4>1. PICK n : n = m.n
        OBVIOUS
      <4>2. n \in X /\ Below({n}, X \ {n})
        BY <3>3, <4>1
      <4>3. /\ Ranked(X \ {n}, Y, Z, n, arrived[b])
            /\ seen[b] < n
            /\ (X \ {n}) \cup Y \cup Z = (X \cup Y \cup Z) \ {n}
            /\ \A k \in X \cup Y \cup Z : n <= k
        BY <2>1, <3>2, <4>2, RankedDeliver
      <4>. QED
        BY <4>1, <4>3
    <3>5. seen'[b] = m.n
      BY <1>6, <2>2 DEF Flow, DataPlaneTypeOK, WorkerTypeOK
    <3>6. inputQueue'[WorkerOf[b]] = Tail(s)
      BY <1>7, <1>8, <2>2
    <3>7. InOrder(b)'
      BY <1>4, <2>1, <3>1, <3>3, <3>4, <3>5, <3>6 DEF InOrder
    <3>8. UnderWay(b)' = (X \ {m.n}) \cup Y \cup Z
      BY <1>4, <3>1, <3>3, <3>6 DEF UnderWay
    <3>. QED
      BY <2>2, <3>2, <3>3, <3>4, <3>7, <3>8
  <2>3. CASE b # m.asset
    <3>1. seen'[b] = seen[b]
      BY <1>6, <2>3 DEF Flow, DataPlaneTypeOK, WorkerTypeOK
    <3>2. /\ Numbers(inputQueue'[WorkerOf[b]], b) = Numbers(inputQueue[WorkerOf[b]], b)
          /\ Sorted(inputQueue'[WorkerOf[b]], b)
      <4>1. CASE WorkerOf[b] = w
        <5>1. ~IsMessageOf(Head(s), b)
          BY <1>2, <1>5, <2>3
        <5>2. Numbers(Tail(s), b) = Numbers(s, b) /\ Sorted(Tail(s), b)
          BY <1>1, <1>4, <2>1, <4>1, <5>1, TailNumbers
        <5>. QED
          BY <1>1, <1>8, <2>1, <4>1, <5>2
      <4>2. CASE WorkerOf[b] # w
        BY <1>8, <2>1, <4>2
      <4>. QED
        BY <4>1, <4>2
    <3>. QED
      BY <1>4, <2>1, <2>3, <3>1, <3>2 DEF InOrder, UnderWay
  <2>. QED
    BY <2>2, <2>3
<1>11. Flow'
  BY <1>9, <1>10 DEF Flow, AtItsWorker
<1>12. /\ m.n \in UnderWay(m.asset)
       /\ \A k \in UnderWay(m.asset) : m.n <= k
       /\ seen[m.asset] < m.n
       /\ \A b \in Assets : UnderWay(b)' = IF b = m.asset THEN UnderWay(m.asset) \ {m.n} ELSE UnderWay(b)
  BY <1>5, <1>10
<1>. QED
  BY <1>1, <1>2, <1>4, <1>5, <1>6, <1>7, <1>11, <1>12

(* All the others leave the messages under way, and the books, alone.      *)
LEMMA QuietActions ==
    ASSUME Flow, DataPlaneTypeOK',
           \/ (BeginBatch \/ EndBatch \/ RouterStopEnd) /\ UNCHANGED workerVars
           \/ \E w \in Workers : HandleOrderbookRequest(w) \/ ReceiveSentinel(w) \/ WorkerIdle(w) \/ ExitProcess(w)
           \/ GetStats
           \/ \E q \in Queries : QueryStep(q)
           \/ StopManager
           \/ UNCHANGED vars
    PROVE  /\ UNCHANGED <<arrived, asyncQueue, batch, seen>>
           /\ \A w \in Workers : Quiet(inputQueue[w], inputQueue'[w], w)
<1>1. \A w \in Workers : Quiet(inputQueue[w], WithSentinels[w], w)
  <2>1. Sentinel \in Item /\ Sentinel.kind = "sentinel"
    BY DEF Item, Sentinel
  <2>2. ASSUME NEW w \in Workers
        PROVE  WithSentinels[w] = inputQueue[w] \/ WithSentinels[w] = Append(inputQueue[w], Sentinel)
    BY DEF WithSentinels
  <2>. QED
    BY <2>1, <2>2 DEF Quiet
<1>2. CASE (BeginBatch \/ EndBatch \/ RouterStopEnd) /\ UNCHANGED workerVars
  <2>1. CASE BeginBatch \/ EndBatch
    BY <1>2, <2>1 DEF BeginBatch, EndBatch, workerVars, Quiet
  <2>2. CASE RouterStopEnd
    <3>1. UNCHANGED <<arrived, asyncQueue, batch, seen>> /\ inputQueue' = WithSentinels
      BY <1>2, <2>2 DEF RouterStopEnd, workerVars
    <3>. QED
      BY <1>1, <3>1
  <2>. QED
    BY <1>2, <2>1, <2>2
<1>3. ASSUME NEW w \in Workers, HandleOrderbookRequest(w) \/ ReceiveSentinel(w)
      PROVE  /\ UNCHANGED <<arrived, asyncQueue, batch, seen>>
             /\ \A v \in Workers : Quiet(inputQueue[v], inputQueue'[v], v)
  <2>1. Dequeued(w, "request") \/ Dequeued(w, "sentinel")
    BY <1>3 DEF HandleOrderbookRequest, ReceiveSentinel
  <2>2. /\ inputQueue[w] # <<>> /\ Head(inputQueue[w]).kind # "message"
        /\ inputQueue' = [inputQueue EXCEPT ![w] = Tail(@)]
        /\ UNCHANGED <<arrived, asyncQueue, batch>>
    BY <2>1 DEF Dequeued
  <2>3. seen' = seen
    BY <1>3 DEF HandleOrderbookRequest, ReceiveSentinel
  <2>4. \A v \in Workers : inputQueue'[v] = IF v = w THEN Tail(inputQueue[w]) ELSE inputQueue[v]
    BY <2>2 DEF Flow, DataPlaneTypeOK, RouterTypeOK
  <2>. QED
    BY <2>2, <2>3, <2>4 DEF Quiet
<1>4. ASSUME GetStats \/ \E w \in Workers : WorkerIdle(w) \/ ExitProcess(w)
      PROVE  /\ UNCHANGED <<arrived, asyncQueue, batch, seen>>
             /\ \A v \in Workers : Quiet(inputQueue[v], inputQueue'[v], v)
  BY <1>4 DEF GetStats, WorkerIdle, ExitProcess, routerVars, Quiet
<1>5. ASSUME NEW q \in Queries, QueryStep(q)
      PROVE  /\ UNCHANGED <<arrived, asyncQueue, batch, seen>>
             /\ \A v \in Workers : Quiet(inputQueue[v], inputQueue'[v], v)
  <2>1. ASSUME NEW a \in Assets, QuerySend(q, a)
        PROVE  /\ UNCHANGED <<arrived, asyncQueue, batch, seen>>
               /\ \A v \in Workers : Quiet(inputQueue[v], inputQueue'[v], v)
    <3>1. PICK r : r = [kind |-> "request", asset |-> a, n |-> q]
      OBVIOUS
    <3>2. r \in Item /\ r.kind = "request" /\ r.asset = a
      BY <3>1 DEF Item, Request
    <3>3. /\ inputQueue' = [inputQueue EXCEPT ![WorkerOf[a]] = Append(@, r)]
          /\ UNCHANGED <<arrived, asyncQueue, batch, seen>>
      BY <2>1, <3>1 DEF QuerySend
    <3>4. \A v \in Workers : inputQueue'[v] = IF v = WorkerOf[a] THEN Append(inputQueue[v], r)
                                                                ELSE inputQueue[v]
      BY <3>3 DEF Flow, DataPlaneTypeOK, RouterTypeOK
    <3>. QED
      BY <3>2, <3>3, <3>4 DEF Quiet
  <2>2. ASSUME NEW a \in Assets, QueryRefused(q, a)
        PROVE  UNCHANGED <<routerVars, seen>>
    BY <2>2 DEF QueryRefused
  <2>3. CASE QueryPoll(q) \/ QueryTimeout(q)
    BY <2>3 DEF QueryPoll, QueryTimeout, routerVars, Quiet
  <2>. QED
    BY <1>5, <2>1, <2>2, <2>3 DEF QueryStep, routerVars, Quiet
<1>6. CASE StopManager
  <2>1. CASE ManagerStopBegin
    <3>1. UNCHANGED <<arrived, asyncQueue, batch, seen>> /\ inputQueue' = WithSentinels
      BY <2>1 DEF ManagerStopBegin
    <3>. QED
      BY <1>1, <3>1
  <2>2. CASE ManagerStopEnd
    BY <2>2 DEF ManagerStopEnd, routerVars, Quiet
  <2>3. ASSUME NEW w \in Workers, KillWorker(w)
        PROVE  UNCHANGED <<routerVars, seen>>
    BY <2>3 DEF KillWorker
  <2>. QED
    BY <1>6, <2>1, <2>2, <2>3 DEF StopManager, routerVars, Quiet
<1>7. CASE UNCHANGED vars
  BY <1>7 DEF vars, routerVars, workerVars, Quiet
<1>. QED
  BY <1>2, <1>3, <1>4, <1>5, <1>6, <1>7

LEMMA FlowInit == Init => Flow
<1> SUFFICES ASSUME Init PROVE Flow
  OBVIOUS
<1>1. /\ arrived = [a \in Assets |-> 0] /\ seen = [a \in Assets |-> 0]
      /\ asyncQueue = <<>> /\ batch = <<>> /\ inputQueue = [w \in Workers |-> <<>>]
  BY DEF Init, RouterInit, WorkerInit
<1>2. RouterTypeOK
  BY CapacitiesAreNat DEF Init, RouterInit, RouterTypeOK
<1>3. WorkerTypeOK
  <2>1. [q \in Queries |-> [pc |-> "idle"]] \in [Queries -> QueryState]
    BY DEF QueryState
  <2>2. responseQueue \in Seq(Response)
    BY DEF Init, WorkerInit
  <2>. QED
    BY <2>1, <2>2 DEF Init, WorkerInit, WorkerTypeOK
<1>4. ASSUME NEW w \in Workers PROVE ForWorker(inputQueue[w], w)
  BY <1>1 DEF ForWorker
<1>5. ASSUME NEW a \in Assets PROVE InOrder(a)
  <2>1. inputQueue[WorkerOf[a]] = <<>> /\ seen[a] = 0 /\ arrived[a] = 0
    BY <1>1, WorkerOfAssumption
  <2>2. Numbers(<<>>, a) = {} /\ Sorted(<<>>, a)
    BY DEF Numbers, Sorted
  <2>3. Ranked({}, {}, {}, 0, 0)
    BY DEF Ranked, Below
  <2>. QED
    BY <1>1, <2>1, <2>2, <2>3 DEF InOrder
<1>. QED
  BY <1>2, <1>3, <1>4, <1>5 DEF Flow, DataPlaneTypeOK, AtItsWorker

-----------------------------------------------------------------------------
(* The steps of the data plane are steps of the channel.                   *)

Transit == [a \in Assets |-> UnderWay(a)]

LEMMA TransitChanged ==
    ASSUME NEW a \in Assets, NEW T,
           \A b \in Assets : UnderWay(b)' = IF b = a THEN T ELSE UnderWay(b)
    PROVE  Transit' = [Transit EXCEPT ![a] = T]
BY DEF Transit

LEMMA TransitKept ==
    ASSUME UnderWayKept
    PROVE  Transit' = Transit
BY DEF Transit, UnderWayKept

ChannelStep ==
    \/ \E a \in Assets :
          Channel!Accept(a) \/ Channel!Refuse(a) \/ Channel!Deliver(a) \/ Channel!Lose(a)
    \/ UNCHANGED <<arrived, Transit, seen>>

LEMMA FlowStep ==
    ASSUME Flow, [Next]_vars
    PROVE  /\ Flow'
           /\ ChannelStep
           /\ \A a \in Assets : seen'[a] = seen[a] \/ seen[a] < seen'[a]
<1>0. DataPlaneTypeOK'
  BY TypesStep
<1>1. ASSUME Flow', UnderWayKept, UNCHANGED <<arrived, seen>>
      PROVE  /\ Flow' /\ ChannelStep
             /\ \A a \in Assets : seen'[a] = seen[a] \/ seen[a] < seen'[a]
  BY <1>1, TransitKept DEF ChannelStep
<1>2. ASSUME NEW a \in Assets, RouteMessage(a), UNCHANGED workerVars
      PROVE  /\ Flow' /\ ChannelStep
             /\ \A b \in Assets : seen'[b] = seen[b] \/ seen[b] < seen'[b]
  <2>1. /\ Flow'
        /\ \A b \in Assets : UnderWay(b)' = IF b = a THEN UnderWay(a) \cup {arrived[a] + 1}
                                                     ELSE UnderWay(b)
    BY <1>0, <1>2, RouteMessageFlow
  <2>2. Transit' = [Transit EXCEPT ![a] = UnderWay(a) \cup {arrived[a] + 1}]
    BY <2>1, TransitChanged
  <2>3. /\ arrived[a] < MaxMessages[a]
        /\ arrived' = [arrived EXCEPT ![a] = @ + 1]
        /\ seen' = seen
    BY <1>2 DEF RouteMessage, workerVars
  <2>4. Transit[a] = UnderWay(a)
    BY DEF Transit
  <2>5. Channel!Accept(a)
    BY <2>2, <2>3, <2>4 DEF Channel!Accept, Transit
  <2>. QED
    BY <2>1, <2>3, <2>5 DEF ChannelStep
<1>3. ASSUME NEW a \in Assets, RefuseMessage(a), UNCHANGED workerVars
      PROVE  /\ Flow' /\ ChannelStep
             /\ \A b \in Assets : seen'[b] = seen[b] \/ seen[b] < seen'[b]
  <2>1. Flow' /\ Transit' = Transit
    BY <1>0, <1>3, RefuseMessageFlow, TransitKept
  <2>2. /\ arrived[a] < MaxMessages[a]
        /\ arrived' = [arrived EXCEPT ![a] = @ + 1]
        /\ seen' = seen
    BY <1>3 DEF RefuseMessage, workerVars
  <2>3. Channel!Refuse(a)
    BY <2>1, <2>2 DEF Channel!Refuse, Transit
  <2>. QED
    BY <2>1, <2>2, <2>3 DEF ChannelStep
<1>4. ASSUME TakeItem \/ RoutePut \/ RouterStopBegin, UNCHANGED workerVars
      PROVE  /\ Flow' /\ ChannelStep
             /\ \A a \in Assets : seen'[a] = seen[a] \/ seen[a] < seen'[a]
  <2>1. Flow' /\ UnderWayKept
    BY <1>0, <1>4, TakeItemFlow, RoutePutFlow, RouterStopBeginFlow
  <2>2. UNCHANGED <<arrived, seen>>
    BY <1>4 DEF TakeItem, RoutePut, RouterStopBegin, workerVars
  <2>. QED
    BY <1>1, <2>1, <2>2
<1>5. ASSUME RouteDrop, UNCHANGED workerVars
      PROVE  /\ Flow' /\ ChannelStep
             /\ \A a \in Assets : seen'[a] = seen[a] \/ seen[a] < seen'[a]
  <2>1. Flow'
    BY <1>0, <1>5, RouteDropFlow
  <2>2. PICK a \in Assets : \E n \in UnderWay(a) :
           \A b \in Assets : UnderWay(b)' = IF b = a THEN UnderWay(a) \ {n} ELSE UnderWay(b)
    BY <1>0, <1>5, RouteDropFlow
  <2>3. PICK n \in UnderWay(a) :
           \A b \in Assets : UnderWay(b)' = IF b = a THEN UnderWay(a) \ {n} ELSE UnderWay(b)
    BY <2>2
  <2>4. Transit' = [Transit EXCEPT ![a] = UnderWay(a) \ {n}]
    BY <2>3, TransitChanged
  <2>5. UNCHANGED <<arrived, seen>>
    BY <1>5 DEF RouteDrop, workerVars
  <2>6. Transit[a] = UnderWay(a)
    BY DEF Transit
  <2>7. Channel!Lose(a)
    BY <2>4, <2>5, <2>6 DEF Channel!Lose, Transit
  <2>. QED
    BY <2>1, <2>5, <2>7 DEF ChannelStep
<1>6. ASSUME NEW w \in Workers, ProcessMessage(w)
      PROVE  /\ Flow' /\ ChannelStep
             /\ \A b \in Assets : seen'[b] = seen[b] \/ seen[b] < seen'[b]
  <2>1. Flow'
    BY <1>0, <1>6, ProcessMessageFlow
  <2>2. PICK a \in Assets : \E n \in UnderWay(a) :
           /\ \A k \in UnderWay(a) : n <= k
           /\ seen[a] < n
           /\ seen' = [seen EXCEPT ![a] = n]
           /\ arrived' = arrived
           /\ \A b \in Assets : UnderWay(b)' = IF b = a THEN UnderWay(a) \ {n} ELSE UnderWay(b)
    BY <1>0, <1>6, ProcessMessageFlow
  <2>3. PICK n \in UnderWay(a) :
           /\ \A k \in UnderWay(a) : n <= k
           /\ seen[a] < n
           /\ seen' = [seen EXCEPT ![a] = n]
           /\ arrived' = arrived
           /\ \A b \in Assets : UnderWay(b)' = IF b = a THEN UnderWay(a) \ {n} ELSE UnderWay(b)
    BY <2>2
  <2>4. Transit' = [Transit EXCEPT ![a] = UnderWay(a) \ {n}]
    BY <2>3, TransitChanged
  <2>5. Transit[a] = UnderWay(a)
    BY DEF Transit
  <2>6. Channel!Deliver(a)
    BY <2>3, <2>4, <2>5 DEF Channel!Deliver, Transit
  <2>7. \A b \in Assets : seen'[b] = seen[b] \/ seen[b] < seen'[b]
    BY <2>3 DEF Flow, DataPlaneTypeOK, WorkerTypeOK
  <2>. QED
    BY <2>1, <2>6, <2>7 DEF ChannelStep
<1>7. ASSUME \/ (BeginBatch \/ EndBatch \/ RouterStopEnd) /\ UNCHANGED workerVars
             \/ \E w \in Workers : HandleOrderbookRequest(w) \/ ReceiveSentinel(w) \/ WorkerIdle(w) \/ ExitProcess(w)
             \/ GetStats
             \/ \E q \in Queries : QueryStep(q)
             \/ StopManager
             \/ UNCHANGED vars
      PROVE  /\ Flow' /\ ChannelStep
             /\ \A a \in Assets : seen'[a] = seen[a] \/ seen[a] < seen'[a]
  <2>1. /\ UNCHANGED <<arrived, asyncQueue, batch, seen>>
        /\ \A w \in Workers : Quiet(inputQueue[w], inputQueue'[w], w)
    BY <1>0, <1>7, QuietActions
  <2>2. Flow' /\ UnderWayKept
    BY <1>0, <2>1, QuietStep
  <2>. QED
    BY <1>1, <2>1, <2>2
<1>. QED
  BY <1>2, <1>3, <1>4, <1>5, <1>6, <1>7 DEF Next, Arrive, Route, Work, StopRouter

(* The variables keep their types; no queue exceeds its size, the sentinels *)
(* of two stops included.                                                  *)
THEOREM DataPlaneTypes == Spec => []DataPlaneTypeOK
<1>1. Flow /\ [Next]_vars => Flow'
  BY FlowStep
<1>2. Flow => DataPlaneTypeOK
  BY DEF Flow
<1>. QED
  BY <1>1, <1>2, FlowInit, PTL DEF Spec

(* For each asset, the data plane is a channel that may lose messages, but *)
(* neither reorders nor repeats them: batching, grouping by worker, full   *)
(* queues and the drain of stop() included.                                *)
THEOREM ImplementsChannel == Spec => RefinesChannel
<1>1. Init => Channel!ChannelInit
  <2>. SUFFICES ASSUME Init PROVE Channel!ChannelInit
    OBVIOUS
  <2>1. ASSUME NEW a \in Assets PROVE UnderWay(a) = {}
    <3>1. inputQueue[WorkerOf[a]] = <<>> /\ batch = <<>> /\ asyncQueue = <<>>
      BY WorkerOfAssumption DEF Init, RouterInit
    <3>2. Numbers(<<>>, a) = {}
      BY DEF Numbers
    <3>. QED
      BY <3>1, <3>2 DEF UnderWay
  <2>. QED
    BY <2>1 DEF Init, RouterInit, WorkerInit, Channel!ChannelInit
<1>2. Flow /\ [Next]_vars => Flow' /\ [Channel!ChannelNext]_(Channel!channelVars)
  <2>. SUFFICES ASSUME Flow, [Next]_vars
                PROVE  Flow' /\ [Channel!ChannelNext]_(Channel!channelVars)
    OBVIOUS
  <2>1. Flow' /\ ChannelStep
    BY FlowStep
  <2>. QED
    BY <2>1 DEF ChannelStep, Transit, Channel!ChannelNext, Channel!channelVars
<1>. QED
  BY <1>1, <1>2, FlowInit, PTL DEF Spec, RefinesChannel, Channel!ChannelSpec

(* Whatever is lost, no book is given a message again, nor one that came   *)
(* before a message it has been given.                                     *)
THEOREM BooksNeverGoBack == Spec => Channel!BooksGoForward
<1>1. Flow /\ [Next]_vars => Flow' /\ [\A a \in Assets : seen'[a] # seen[a] => seen[a] < seen'[a]]_(Channel!channelVars)
  BY FlowStep
<1>. QED
  BY <1>1, FlowInit, PTL DEF Spec, Channel!BooksGoForward

-----------------------------------------------------------------------------
(* Queries.  Where in a sequence the members of a set are.                 *)

NoneIn(s, K) == \A i \in 1..Len(s) : s[i] \notin K

OneIn(s, K) == \E i \in 1..Len(s) : s[i] \in K /\ \A j \in 1..Len(s) : s[j] \in K => j = i

LEMMA AppendIn ==
    ASSUME NEW S, NEW s \in Seq(S), NEW m \in S, NEW K
    PROVE  /\ m \notin K /\ NoneIn(s, K) => NoneIn(Append(s, m), K)
           /\ m \notin K /\ OneIn(s, K) => OneIn(Append(s, m), K)
           /\ m \in K /\ NoneIn(s, K) => OneIn(Append(s, m), K)
<1> DEFINE after == Append(s, m)
<1>1. /\ Len(s) \in Nat
      /\ Len(after) = Len(s) + 1
      /\ \A i \in 1..Len(s) : after[i] = s[i]
      /\ after[Len(s) + 1] = m
  OBVIOUS
<1> HIDE DEF after
<1>2. 1..Len(after) = 1..Len(s) \cup {Len(s) + 1}
  BY <1>1
<1>3. m \notin K /\ NoneIn(s, K) => NoneIn(after, K)
  BY <1>1, <1>2 DEF NoneIn
<1>4. ASSUME m \notin K, OneIn(s, K) PROVE OneIn(after, K)
  <2>1. PICK i \in 1..Len(s) : s[i] \in K /\ \A j \in 1..Len(s) : s[j] \in K => j = i
    BY <1>4 DEF OneIn
  <2>2. i \in 1..Len(after) /\ after[i] \in K
    BY <2>1, <1>1, <1>2
  <2>3. \A j \in 1..Len(after) : after[j] \in K => j = i
    BY <2>1, <1>1, <1>2, <1>4
  <2>. QED
    BY <2>2, <2>3 DEF OneIn
<1>5. ASSUME m \in K, NoneIn(s, K) PROVE OneIn(after, K)
  <2>1. Len(s) + 1 \in 1..Len(after) /\ after[Len(s) + 1] \in K
    BY <1>1, <1>2, <1>5
  <2>2. \A j \in 1..Len(after) : after[j] \in K => j = Len(s) + 1
    BY <1>1, <1>2, <1>5 DEF NoneIn
  <2>. QED
    BY <2>1, <2>2 DEF OneIn
<1>. QED
  BY <1>3, <1>4, <1>5 DEF after

LEMMA TailIn ==
    ASSUME NEW S, NEW s \in Seq(S), s # <<>>, NEW K
    PROVE  /\ NoneIn(s, K) => Head(s) \notin K /\ NoneIn(Tail(s), K)
           /\ Head(s) \notin K /\ OneIn(s, K) => OneIn(Tail(s), K)
           /\ Head(s) \in K /\ OneIn(s, K) => NoneIn(Tail(s), K)
<1> DEFINE after == Tail(s)
<1>1. /\ Len(s) \in Nat \ {0}
      /\ Len(after) = Len(s) - 1
      /\ Head(s) = s[1]
      /\ \A i \in 1..Len(after) : after[i] = s[i + 1]
  OBVIOUS
<1> HIDE DEF after
<1>2. /\ 1 \in 1..Len(s)
      /\ \A i \in 1..Len(after) : i + 1 \in 1..Len(s) /\ i + 1 # 1
      /\ \A i \in 1..Len(s) : i # 1 => i - 1 \in 1..Len(after) /\ (i - 1) + 1 = i
  BY <1>1
<1>3. ASSUME NoneIn(s, K) PROVE Head(s) \notin K /\ NoneIn(after, K)
  BY <1>1, <1>2, <1>3 DEF NoneIn
<1>4. ASSUME OneIn(s, K)
      PROVE  IF Head(s) \in K THEN NoneIn(after, K) ELSE OneIn(after, K)
  <2>1. PICK i \in 1..Len(s) : s[i] \in K /\ \A j \in 1..Len(s) : s[j] \in K => j = i
    BY <1>4 DEF OneIn
  <2>2. CASE Head(s) \in K
    <3>1. i = 1
      BY <2>1, <2>2, <1>1, <1>2
    <3>2. NoneIn(after, K)
      BY <2>1, <3>1, <1>1, <1>2 DEF NoneIn
    <3>. QED
      BY <2>2, <3>2
  <2>3. CASE Head(s) \notin K
    <3>1. i # 1
      BY <2>1, <2>3, <1>1
    <3>2. i - 1 \in 1..Len(after) /\ after[i - 1] = s[i]
      BY <3>1, <1>1, <1>2
    <3>3. \A j \in 1..Len(after) : after[j] \in K => j = i - 1
      <4>. SUFFICES ASSUME NEW j \in 1..Len(after), after[j] \in K PROVE j = i - 1
        OBVIOUS
      <4>1. j + 1 = i
        BY <2>1, <1>1, <1>2
      <4>. QED
        BY <4>1
    <3>4. OneIn(after, K)
      BY <2>1, <3>2, <3>3 DEF OneIn
    <3>. QED
      BY <2>3, <3>4
  <2>. QED
    BY <2>2, <2>3
<1>. QED
  BY <1>3, <1>4 DEF after

(* The requests of a query, and the answers to it.                         *)
Asking(q) == {m \in Request : m.n = q}
Answering(q) == {r \in Response : r.query = q}

(* An answer to the request will have seen the message of that number: the *)
(* book has, or the message is ahead of the request.                       *)
FloorKept(s, q, floor, books) ==
    \A i \in 1..Len(s) : s[i] \in Asking(q) =>
        \/ floor <= books[s[i].asset]
        \/ \E k \in 1..Len(s) : k < i /\ IsMessageOf(s[k], s[i].asset) /\ floor <= s[k].n

LEMMA FloorAppend ==
    ASSUME NEW s \in Seq(Item), NEW m \in Item, NEW q, NEW floor, NEW books,
           FloorKept(s, q, floor, books), m \notin Asking(q)
    PROVE  FloorKept(Append(s, m), q, floor, books)
<1> DEFINE after == Append(s, m)
<1>1. /\ Len(s) \in Nat
      /\ Len(after) = Len(s) + 1
      /\ \A i \in 1..Len(s) : after[i] = s[i]
      /\ after[Len(s) + 1] = m
  OBVIOUS
<1> HIDE DEF after
<1>2. 1..Len(after) = 1..Len(s) \cup {Len(s) + 1}
  BY <1>1
<1>3. ASSUME NEW i \in 1..Len(after), after[i] \in Asking(q)
      PROVE  \/ floor <= books[after[i].asset]
             \/ \E k \in 1..Len(after) :
                   k < i /\ IsMessageOf(after[k], after[i].asset) /\ floor <= after[k].n
  <2>1. i \in 1..Len(s) /\ after[i] = s[i]
    BY <1>1, <1>2, <1>3
  <2>2. CASE floor <= books[s[i].asset]
    BY <2>1, <2>2
  <2>3. ASSUME NEW k \in 1..Len(s), k < i, IsMessageOf(s[k], s[i].asset), floor <= s[k].n
        PROVE  \E l \in 1..Len(after) :
                  l < i /\ IsMessageOf(after[l], after[i].asset) /\ floor <= after[l].n
    <3>1. k \in 1..Len(after) /\ after[k] = s[k]
      BY <1>1, <1>2
    <3>. QED
      BY <2>1, <2>3, <3>1
  <2>. QED
    BY <2>1, <2>2, <2>3, <1>3 DEF FloorKept
<1>. QED
  BY <1>3 DEF FloorKept, after

(* A request sent when that message was the last one put for its asset.    *)
LEMMA FloorSet ==
    ASSUME NEW s \in Seq(Item), NEW m \in Item, NEW q, NEW floor, NEW books, NEW a,
           NoneIn(s, Asking(q)), m.asset = a,
           floor <= books[a] \/ \E n \in Numbers(s, a) : floor <= n
    PROVE  FloorKept(Append(s, m), q, floor, books)
<1> DEFINE after == Append(s, m)
<1>1. /\ Len(s) \in Nat
      /\ Len(after) = Len(s) + 1
      /\ \A i \in 1..Len(s) : after[i] = s[i]
      /\ after[Len(s) + 1] = m
  OBVIOUS
<1> HIDE DEF after
<1>2. 1..Len(after) = 1..Len(s) \cup {Len(s) + 1}
  BY <1>1
<1>3. ASSUME NEW i \in 1..Len(after), after[i] \in Asking(q)
      PROVE  \/ floor <= books[after[i].asset]
             \/ \E k \in 1..Len(after) :
                   k < i /\ IsMessageOf(after[k], after[i].asset) /\ floor <= after[k].n
  <2>1. i = Len(s) + 1 /\ after[i].asset = a
    BY <1>1, <1>2, <1>3 DEF NoneIn
  <2>2. CASE floor <= books[a]
    BY <2>1, <2>2
  <2>3. ASSUME NEW n \in Numbers(s, a), floor <= n
        PROVE  \E k \in 1..Len(after) :
                  k < i /\ IsMessageOf(after[k], after[i].asset) /\ floor <= after[k].n
    <3>1. PICK k \in 1..Len(s) : IsMessageOf(s[k], a) /\ n = s[k].n
      BY NumbersMember
    <3>2. k \in 1..Len(after) /\ k < i /\ after[k] = s[k]
      BY <1>1, <1>2, <2>1
    <3>. QED
      BY <2>1, <2>3, <3>1, <3>2
  <2>. QED
    BY <2>2, <2>3, <2>1
<1>. QED
  BY <1>3 DEF FloorKept, after

LEMMA FloorTail ==
    ASSUME NEW s \in Seq(Item), s # <<>>, NEW q, NEW floor \in Nat,
           NEW books \in [Assets -> Nat], NEW later \in [Assets -> Nat],
           FloorKept(s, q, floor, books),
           \A a \in Assets : books[a] <= later[a],
           \A a \in Assets : IsMessageOf(Head(s), a) => Head(s).n <= later[a]
    PROVE  FloorKept(Tail(s), q, floor, later)
<1> DEFINE after == Tail(s)
<1>1. /\ Len(s) \in Nat \ {0}
      /\ Len(after) = Len(s) - 1
      /\ Head(s) = s[1]
      /\ \A i \in 1..Len(after) : after[i] = s[i + 1]
      /\ \A i \in 1..Len(s) : s[i] \in Item
  OBVIOUS
<1> HIDE DEF after
<1>2. /\ \A i \in 1..Len(after) : i + 1 \in 1..Len(s)
      /\ \A i \in 1..Len(s) : i # 1 => i - 1 \in 1..Len(after) /\ after[i - 1] = s[i]
  BY <1>1
<1>3. ASSUME NEW i \in 1..Len(after), after[i] \in Asking(q)
      PROVE  \/ floor <= later[after[i].asset]
             \/ \E k \in 1..Len(after) :
                   k < i /\ IsMessageOf(after[k], after[i].asset) /\ floor <= after[k].n
  <2>1. PICK a : a = after[i].asset
    OBVIOUS
  <2>2. a \in Assets /\ i + 1 \in 1..Len(s) /\ after[i] = s[i + 1]
    BY <1>1, <1>2, <1>3, <2>1 DEF Asking, Request
  <2>3. CASE floor <= books[a]
    BY <2>1, <2>2, <2>3
  <2>4. ASSUME NEW k \in 1..Len(s), k < i + 1, IsMessageOf(s[k], a), floor <= s[k].n
        PROVE  \/ floor <= later[a]
               \/ \E l \in 1..Len(after) : l < i /\ IsMessageOf(after[l], a) /\ floor <= after[l].n
    <3>1. CASE k = 1
      <4>1. s[k] \in Item /\ s[k].n \in Nat
        BY <1>1, <2>4 DEF Item, Message, Request, Sentinel, IsMessageOf
      <4>2. s[k].n <= later[a]
        BY <1>1, <2>2, <2>4, <3>1
      <4>. QED
        BY <2>2, <2>4, <4>1, <4>2
    <3>2. CASE k # 1
      <4>1. k - 1 \in 1..Len(after) /\ k - 1 < i /\ after[k - 1] = s[k]
        BY <1>2, <2>4, <3>2
      <4>. QED
        BY <2>4, <4>1
    <3>. QED
      BY <3>1, <3>2
  <2>5. \/ floor <= books[a]
        \/ \E k \in 1..Len(s) : k < i + 1 /\ IsMessageOf(s[k], a) /\ floor <= s[k].n
    BY <1>3, <2>1, <2>2 DEF FloorKept
  <2>. QED
    BY <2>1, <2>3, <2>4, <2>5
<1>. QED
  BY <1>3 DEF FloorKept, after

(* Books only go forward.                                                  *)
LEMMA FloorForward ==
    ASSUME NEW s \in Seq(Item), NEW q, NEW floor \in Nat,
           NEW books \in [Assets -> Nat], NEW later \in [Assets -> Nat],
           FloorKept(s, q, floor, books),
           \A a \in Assets : books[a] <= later[a]
    PROVE  FloorKept(s, q, floor, later)
<1>1. ASSUME NEW i \in 1..Len(s), s[i] \in Asking(q), floor <= books[s[i].asset]
      PROVE  floor <= later[s[i].asset]
  <2>1. s[i].asset \in Assets
    BY <1>1 DEF Asking, Request
  <2>. QED
    BY <1>1, <2>1
<1>. QED
  BY <1>1 DEF FloorKept

-----------------------------------------------------------------------------
(* The inductive invariant for queries: one that waits has its request in  *)
(* one place, or its response in one place and not both; and the answer it *)
(* will get, or has got, is not older than the query.                      *)

Unsent(q) ==
    /\ \A w \in Workers : NoneIn(inputQueue[w], Asking(q))
    /\ NoneIn(responseQueue, Answering(q))

Asked(q) ==
    /\ \E w \in Workers :
          /\ OneIn(inputQueue[w], Asking(q))
          /\ \A v \in Workers \ {w} : NoneIn(inputQueue[v], Asking(q))
    /\ NoneIn(responseQueue, Answering(q))

Responded(q) ==
    /\ \A w \in Workers : NoneIn(inputQueue[w], Asking(q))
    /\ OneIn(responseQueue, Answering(q))

Floored(q) ==
    /\ \A w \in Workers : FloorKept(inputQueue[w], q, query[q].floor, seen)
    /\ \A i \in 1..Len(responseQueue) :
          responseQueue[i].query = q => query[q].floor <= responseQueue[i].seen

Tracked(q) ==
    /\ query[q].pc = "idle" => Unsent(q)
    /\ query[q].pc = "waiting" => (Asked(q) \/ Responded(q)) /\ Floored(q)
    /\ query[q].pc = "answered" => query[q].answer >= query[q].floor

Queried == Flow /\ \A q \in Queries : Tracked(q)

LEMMA QueriedTypes ==
    ASSUME Flow
    PROVE  /\ \A w \in Workers : inputQueue[w] \in Seq(Item)
           /\ responseQueue \in Seq(Response)
           /\ seen \in [Assets -> Nat]
           /\ query \in [Queries -> QueryState]
           /\ \A q \in Queries : query[q].pc \in {"waiting", "answered"} => query[q].floor \in Nat
<1>1. /\ \A w \in Workers : inputQueue[w] \in Seq(Item)
      /\ responseQueue \in Seq(Response)
      /\ seen \in [Assets -> Nat]
      /\ query \in [Queries -> QueryState]
  BY FlowTypes DEF Flow, DataPlaneTypeOK, WorkerTypeOK
<1>. QED
  BY <1>1 DEF QueryState

(* What may happen to a worker's queue without touching the requests.      *)
Passes(s, t, later) ==
    \/ t = s
    \/ \E m \in Item \ Request : t = Append(s, m)
    \/ /\ s # <<>> /\ Head(s) \notin Request /\ t = Tail(s)
       /\ \A a \in Assets : IsMessageOf(Head(s), a) => Head(s).n <= later[a]

LEMMA PassesKeeps ==
    ASSUME NEW s \in Seq(Item), NEW t, NEW later \in [Assets -> Nat], Passes(s, t, later),
           NEW q
    PROVE  /\ NoneIn(s, Asking(q)) => NoneIn(t, Asking(q))
           /\ OneIn(s, Asking(q)) => OneIn(t, Asking(q))
<1>1. ASSUME NEW m \in Item \ Request, t = Append(s, m)
      PROVE  /\ NoneIn(s, Asking(q)) => NoneIn(t, Asking(q))
             /\ OneIn(s, Asking(q)) => OneIn(t, Asking(q))
  <2>1. m \notin Asking(q) /\ m \in Item
    BY <1>1 DEF Asking
  <2>2. /\ NoneIn(s, Asking(q)) => NoneIn(Append(s, m), Asking(q))
        /\ OneIn(s, Asking(q)) => OneIn(Append(s, m), Asking(q))
    BY <2>1, AppendIn
  <2>. QED
    BY <1>1, <2>2
<1>2. ASSUME s # <<>>, Head(s) \notin Request, t = Tail(s)
      PROVE  /\ NoneIn(s, Asking(q)) => NoneIn(t, Asking(q))
             /\ OneIn(s, Asking(q)) => OneIn(t, Asking(q))
  <2>1. Head(s) \notin Asking(q)
    BY <1>2 DEF Asking
  <2>2. /\ NoneIn(s, Asking(q)) => NoneIn(Tail(s), Asking(q))
        /\ OneIn(s, Asking(q)) => OneIn(Tail(s), Asking(q))
    BY <1>2, <2>1, TailIn
  <2>. QED
    BY <1>2, <2>2
<1>. QED
  BY <1>1, <1>2 DEF Passes

LEMMA PassesKeepsFloor ==
    ASSUME NEW s \in Seq(Item), NEW t, NEW later \in [Assets -> Nat], Passes(s, t, later),
           NEW books \in [Assets -> Nat], \A a \in Assets : books[a] <= later[a],
           NEW q, NEW floor \in Nat, FloorKept(s, q, floor, books)
    PROVE  FloorKept(t, q, floor, later)
<1>1. FloorKept(s, q, floor, later)
  BY FloorForward
<1>2. ASSUME NEW m \in Item \ Request, t = Append(s, m)
      PROVE  FloorKept(t, q, floor, later)
  <2>1. m \notin Asking(q) /\ m \in Item
    BY <1>2 DEF Asking
  <2>2. FloorKept(Append(s, m), q, floor, later)
    BY <1>1, <2>1, FloorAppend
  <2>. QED
    BY <1>2, <2>2
<1>3. ASSUME s # <<>>, t = Tail(s),
             \A a \in Assets : IsMessageOf(Head(s), a) => Head(s).n <= later[a]
      PROVE  FloorKept(t, q, floor, later)
  <2>1. FloorKept(Tail(s), q, floor, later)
    BY <1>3, FloorTail
  <2>. QED
    BY <1>3, <2>1
<1>. QED
  BY <1>1, <1>2, <1>3 DEF Passes

(* A step that touches no request, no response and no query.               *)
LEMMA PassingStep ==
    ASSUME Queried, Flow', UNCHANGED <<responseQueue, query>>,
           \A a \in Assets : seen'[a] = seen[a] \/ seen[a] < seen'[a],
           \A w \in Workers : Passes(inputQueue[w], inputQueue'[w], seen')
    PROVE  Queried'
<1>1. /\ \A w \in Workers : inputQueue[w] \in Seq(Item)
      /\ seen \in [Assets -> Nat] /\ seen' \in [Assets -> Nat]
      /\ \A q \in Queries : query[q].pc \in {"waiting", "answered"} => query[q].floor \in Nat
  BY QueriedTypes DEF Queried, Flow, DataPlaneTypeOK, WorkerTypeOK
<1>2. \A a \in Assets : seen[a] <= seen'[a]
  BY <1>1
<1>3. ASSUME NEW q \in Queries PROVE Tracked(q)'
  <2>1. Tracked(q)
    BY DEF Queried
  <2>2. ASSUME NEW w \in Workers
        PROVE  /\ NoneIn(inputQueue[w], Asking(q)) => NoneIn(inputQueue'[w], Asking(q))
               /\ OneIn(inputQueue[w], Asking(q)) => OneIn(inputQueue'[w], Asking(q))
    BY <1>1, PassesKeeps
  <2>3. Unsent(q) => Unsent(q)'
    BY <2>2 DEF Unsent
  <2>4. Asked(q) => Asked(q)'
    BY <2>2 DEF Asked
  <2>5. Responded(q) => Responded(q)'
    BY <2>2 DEF Responded
  <2>6. ASSUME query[q].pc = "waiting", Floored(q) PROVE Floored(q)'
    <3>1. query[q].floor \in Nat
      BY <1>1, <2>6
    <3>2. ASSUME NEW w \in Workers
          PROVE  FloorKept(inputQueue'[w], q, query[q].floor, seen')
      <4>1. FloorKept(inputQueue[w], q, query[q].floor, seen)
        BY <2>6 DEF Floored
      <4>. QED
        BY <1>1, <1>2, <3>1, <4>1, PassesKeepsFloor
    <3>. QED
      BY <2>6, <3>2 DEF Floored
  <2>. QED
    BY <2>1, <2>3, <2>4, <2>5, <2>6 DEF Tracked
<1>. QED
  BY <1>3 DEF Queried

(* Which steps are of this kind.                                           *)
LEMMA PassingActions ==
    ASSUME Queried, Flow', [Next]_vars,
           ~(\E w \in Workers : HandleOrderbookRequest(w)),
           ~(\E q \in Queries : QueryStep(q))
    PROVE  /\ UNCHANGED <<responseQueue, query>>
           /\ \A w \in Workers : Passes(inputQueue[w], inputQueue'[w], seen')
<1>0. Flow /\ DataPlaneTypeOK' /\ \A w \in Workers : inputQueue[w] \in Seq(Item)
  BY QueriedTypes DEF Queried, Flow
<1>1. ASSUME inputQueue' = inputQueue
      PROVE  \A w \in Workers : Passes(inputQueue[w], inputQueue'[w], seen')
  BY <1>1 DEF Passes
<1>2. ASSUME inputQueue' = WithSentinels
      PROVE  \A w \in Workers : Passes(inputQueue[w], inputQueue'[w], seen')
  <2>1. Sentinel \in Item \ Request
    BY DEF Item, Request, Sentinel
  <2>2. \A w \in Workers : inputQueue'[w] = inputQueue[w] \/ inputQueue'[w] = Append(inputQueue[w], Sentinel)
    BY <1>2 DEF WithSentinels
  <2>. QED
    BY <2>1, <2>2 DEF Passes
<1>3. ASSUME NEW a \in Assets, Arrive(a)
      PROVE  UNCHANGED <<responseQueue, query, inputQueue>>
  BY <1>3 DEF Arrive, RouteMessage, RefuseMessage, workerVars
<1>4. ASSUME TakeItem \/ BeginBatch \/ RouteDrop \/ EndBatch \/ RouterStopBegin, UNCHANGED workerVars
      PROVE  UNCHANGED <<responseQueue, query, inputQueue>>
  BY <1>4 DEF TakeItem, BeginBatch, RouteDrop, EndBatch, RouterStopBegin, workerVars
<1>5. ASSUME RoutePut, UNCHANGED workerVars
      PROVE  /\ UNCHANGED <<responseQueue, query>>
             /\ \A w \in Workers : Passes(inputQueue[w], inputQueue'[w], seen')
  <2>1. PICK m : m = batch[NextToRoute]
    OBVIOUS
  <2>2. batch # <<>> /\ inputQueue' = [inputQueue EXCEPT ![WorkerOf[m.asset]] = Append(@, m)]
    BY <1>5, <2>1 DEF RoutePut
  <2>3. m \in Message
    BY <1>0, <2>1, <2>2, NextIsFirst
  <2>4. m \in Item \ Request
    BY <2>3 DEF Item, Message, Request
  <2>5. \A w \in Workers : inputQueue'[w] = inputQueue[w] \/ inputQueue'[w] = Append(inputQueue[w], m)
    BY <1>0, <2>2 DEF Flow, DataPlaneTypeOK, RouterTypeOK
  <2>. QED
    BY <1>5, <2>4, <2>5 DEF Passes, workerVars
<1>6. ASSUME RouterStopEnd, UNCHANGED workerVars
      PROVE  /\ UNCHANGED <<responseQueue, query>>
             /\ \A w \in Workers : Passes(inputQueue[w], inputQueue'[w], seen')
  BY <1>2, <1>6 DEF RouterStopEnd, workerVars
<1>7. ASSUME NEW w \in Workers, ProcessMessage(w)
      PROVE  /\ UNCHANGED <<responseQueue, query>>
             /\ \A v \in Workers : Passes(inputQueue[v], inputQueue'[v], seen')
  <2>1. PICK m : m = Head(inputQueue[w])
    OBVIOUS
  <2>2. /\ inputQueue[w] # <<>> /\ m \in Item /\ m.kind = "message"
        /\ inputQueue' = [inputQueue EXCEPT ![w] = Tail(@)]
        /\ UNCHANGED <<responseQueue, query>>
    BY <1>0, <1>7, <2>1, DequeuedTypes DEF ProcessMessage, Dequeued, Flow
  <2>3. m \in Message /\ m.asset \in Assets
    BY <2>2 DEF Item, Message, Request, Sentinel
  <2>4. seen'[m.asset] = m.n /\ m.n \in Nat
    BY <1>0, <1>7, <2>1, <2>3 DEF ProcessMessage, Flow, DataPlaneTypeOK, WorkerTypeOK, Message
  <2>5. m \notin Request /\ \A a \in Assets : IsMessageOf(m, a) => m.n <= seen'[a]
    BY <2>2, <2>3, <2>4 DEF Request, IsMessageOf
  <2>6. \A v \in Workers : inputQueue'[v] = IF v = w THEN Tail(inputQueue[w]) ELSE inputQueue[v]
    BY <1>0, <2>2 DEF Flow, DataPlaneTypeOK, RouterTypeOK
  <2>. QED
    BY <2>1, <2>2, <2>5, <2>6 DEF Passes
<1>8. ASSUME NEW w \in Workers, ReceiveSentinel(w)
      PROVE  /\ UNCHANGED <<responseQueue, query>>
             /\ \A v \in Workers : Passes(inputQueue[v], inputQueue'[v], seen')
  <2>1. PICK m : m = Head(inputQueue[w])
    OBVIOUS
  <2>2. /\ inputQueue[w] # <<>> /\ m \in Item /\ m.kind = "sentinel"
        /\ inputQueue' = [inputQueue EXCEPT ![w] = Tail(@)]
        /\ UNCHANGED <<responseQueue, query>>
    BY <1>0, <1>8, <2>1, DequeuedTypes DEF ReceiveSentinel, Dequeued, Flow
  <2>3. m \notin Request /\ \A a \in Assets : ~IsMessageOf(m, a)
    BY <2>2 DEF Request, IsMessageOf
  <2>4. \A v \in Workers : inputQueue'[v] = IF v = w THEN Tail(inputQueue[w]) ELSE inputQueue[v]
    BY <1>0, <2>2 DEF Flow, DataPlaneTypeOK, RouterTypeOK
  <2>. QED
    BY <2>1, <2>2, <2>3, <2>4 DEF Passes
<1>9. ASSUME GetStats \/ \E w \in Workers : WorkerIdle(w) \/ ExitProcess(w) \/ KillWorker(w)
      PROVE  UNCHANGED <<responseQueue, query, inputQueue>>
  BY <1>9 DEF GetStats, WorkerIdle, ExitProcess, KillWorker, routerVars
<1>10. ASSUME ManagerStopBegin
       PROVE  /\ UNCHANGED <<responseQueue, query>>
              /\ \A w \in Workers : Passes(inputQueue[w], inputQueue'[w], seen')
  BY <1>2, <1>10 DEF ManagerStopBegin
<1>11. ASSUME ManagerStopEnd
       PROVE  UNCHANGED <<responseQueue, query, inputQueue>>
  BY <1>11 DEF ManagerStopEnd, routerVars
<1>12. ASSUME UNCHANGED vars
       PROVE  UNCHANGED <<responseQueue, query, inputQueue>>
  BY <1>12 DEF vars, routerVars, workerVars
<1>. QED
  BY <1>1, <1>3, <1>4, <1>5, <1>6, <1>7, <1>8, <1>9, <1>10, <1>11, <1>12
  DEF Next, Route, Work, StopRouter, StopManager

LEMMA HandleRequestStep ==
    ASSUME Queried, Flow', NEW w \in Workers, HandleOrderbookRequest(w)
    PROVE  Queried'
<1>1. PICK s : s = inputQueue[w]
  OBVIOUS
<1>2. PICK r : r = Head(s)
  OBVIOUS
<1>3. PICK answer : answer = [query |-> r.n, seen |-> seen[r.asset]]
  OBVIOUS
<1>4. /\ \A v \in Workers : inputQueue[v] \in Seq(Item)
      /\ responseQueue \in Seq(Response)
      /\ seen \in [Assets -> Nat]
      /\ \A q \in Queries : query[q].pc \in {"waiting", "answered"} => query[q].floor \in Nat
  BY QueriedTypes DEF Queried
<1>5. Dequeued(w, "request")
  BY DEF HandleOrderbookRequest
<1>6. /\ s \in Seq(Item) /\ s # <<>> /\ r \in Item /\ r.kind = "request"
      /\ inputQueue' = [inputQueue EXCEPT ![w] = Tail(s)]
      /\ query' = query
  BY <1>1, <1>2, <1>5, DequeuedTypes DEF Queried, Flow, Dequeued
<1>7. r \in Request /\ r.n \in Queries /\ r.asset \in Assets /\ \A a : ~IsMessageOf(r, a)
  BY <1>6 DEF Item, Message, Request, Sentinel, IsMessageOf
<1>8. answer \in Response /\ answer.query = r.n /\ answer.seen = seen[r.asset]
  BY <1>3, <1>4, <1>7 DEF Response
<1>9. responseQueue' = Append(responseQueue, answer) /\ seen' = seen
  BY <1>1, <1>2, <1>3 DEF HandleOrderbookRequest
<1>10. \A v \in Workers : inputQueue'[v] = IF v = w THEN Tail(s) ELSE inputQueue[v]
  BY <1>6 DEF Queried, Flow, DataPlaneTypeOK, RouterTypeOK
<1>11. ASSUME NEW q \in Queries, NEW v \in Workers, NEW floor \in Nat,
              FloorKept(inputQueue[v], q, floor, seen)
       PROVE  FloorKept(inputQueue'[v], q, floor, seen)
  <2>1. CASE v = w
    <3>1. FloorKept(Tail(s), q, floor, seen)
      <4>1. \A a \in Assets : seen[a] <= seen[a]
        BY <1>4
      <4>2. \A a \in Assets : IsMessageOf(Head(s), a) => Head(s).n <= seen[a]
        BY <1>2, <1>7
      <4>3. FloorKept(s, q, floor, seen)
        BY <1>1, <1>11, <2>1
      <4>. QED
        BY <1>4, <1>6, <1>11, <4>1, <4>2, <4>3, FloorTail
    <3>. QED
      BY <1>10, <2>1, <3>1
  <2>2. CASE v # w
    BY <1>10, <1>11, <2>2
  <2>. QED
    BY <2>1, <2>2
<1>12. ASSUME NEW q \in Queries, NEW floor \in Nat,
              \A i \in 1..Len(responseQueue) :
                 responseQueue[i].query = q => floor <= responseQueue[i].seen,
              q = r.n => floor <= seen[r.asset]
       PROVE  \A i \in 1..Len(responseQueue') :
                 responseQueue'[i].query = q => floor <= responseQueue'[i].seen
  <2>1. /\ Len(responseQueue) \in Nat
        /\ Len(responseQueue') = Len(responseQueue) + 1
        /\ \A i \in 1..Len(responseQueue) : responseQueue'[i] = responseQueue[i]
        /\ responseQueue'[Len(responseQueue) + 1] = answer
    BY <1>4, <1>8, <1>9
  <2>2. \A i \in 1..Len(responseQueue') : i \in 1..Len(responseQueue) \/ i = Len(responseQueue) + 1
    BY <2>1
  <2>. QED
    BY <2>1, <2>2, <1>8, <1>12
<1>13. ASSUME NEW q \in Queries, q # r.n PROVE Tracked(q)'
  <2>1. Head(s) \notin Asking(q) /\ answer \notin Answering(q)
    BY <1>2, <1>8, <1>13 DEF Asking, Answering
  <2>2. ASSUME NEW v \in Workers
        PROVE  /\ NoneIn(inputQueue[v], Asking(q)) => NoneIn(inputQueue'[v], Asking(q))
               /\ OneIn(inputQueue[v], Asking(q)) => OneIn(inputQueue'[v], Asking(q))
    <3>1. /\ NoneIn(s, Asking(q)) => NoneIn(Tail(s), Asking(q))
          /\ OneIn(s, Asking(q)) => OneIn(Tail(s), Asking(q))
      BY <1>6, <2>1, TailIn
    <3>. QED
      BY <1>1, <1>10, <3>1
  <2>3. /\ NoneIn(responseQueue, Answering(q)) => NoneIn(responseQueue', Answering(q))
        /\ OneIn(responseQueue, Answering(q)) => OneIn(responseQueue', Answering(q))
    BY <1>4, <1>8, <1>9, <2>1, AppendIn
  <2>4. /\ Unsent(q) => Unsent(q)'
        /\ Asked(q) => Asked(q)'
        /\ Responded(q) => Responded(q)'
    BY <2>2, <2>3 DEF Unsent, Asked, Responded
  <2>5. ASSUME query[q].pc = "waiting", Floored(q) PROVE Floored(q)'
    <3>1. query[q].floor \in Nat
      BY <1>4, <2>5
    <3>2. \A v \in Workers : FloorKept(inputQueue'[v], q, query[q].floor, seen)
      BY <1>11, <2>5, <3>1 DEF Floored
    <3>3. \A i \in 1..Len(responseQueue') :
             responseQueue'[i].query = q => query[q].floor <= responseQueue'[i].seen
      BY <1>12, <1>13, <2>5, <3>1 DEF Floored
    <3>. QED
      BY <1>6, <1>9, <3>2, <3>3 DEF Floored
  <2>. QED
    BY <1>6, <2>4, <2>5 DEF Queried, Tracked
<1>14. ASSUME NEW q \in Queries, q = r.n PROVE Tracked(q)'
  <2>1. Head(s) \in Asking(q) /\ answer \in Answering(q)
    BY <1>2, <1>7, <1>8, <1>14 DEF Asking, Answering
  <2>2. ~NoneIn(s, Asking(q))
    BY <1>6, <2>1, TailIn
  <2>3. ~Unsent(q) /\ ~Responded(q)
    BY <1>1, <2>2 DEF Unsent, Responded
  <2>4. ASSUME Asked(q) PROVE Responded(q)'
    <3>1. OneIn(s, Asking(q)) /\ \A v \in Workers \ {w} : NoneIn(inputQueue[v], Asking(q))
      BY <1>1, <2>2, <2>4 DEF Asked
    <3>2. NoneIn(Tail(s), Asking(q))
      BY <1>6, <2>1, <3>1, TailIn
    <3>3. \A v \in Workers : NoneIn(inputQueue'[v], Asking(q))
      BY <1>10, <3>1, <3>2
    <3>4. OneIn(Append(responseQueue, answer), Answering(q))
      BY <1>4, <1>8, <2>1, <2>4, AppendIn DEF Asked
    <3>. QED
      BY <1>9, <3>3, <3>4 DEF Responded
  <2>5. ASSUME query[q].pc = "waiting", Floored(q) PROVE Floored(q)'
    <3>1. query[q].floor \in Nat
      BY <1>4, <2>5
    <3>2. \A v \in Workers : FloorKept(inputQueue'[v], q, query[q].floor, seen)
      BY <1>11, <2>5, <3>1 DEF Floored
    <3>3. query[q].floor <= seen[r.asset]
      <4>1. FloorKept(s, q, query[q].floor, seen)
        BY <1>1, <2>5 DEF Floored
      <4>2. 1 \in 1..Len(s) /\ s[1] = r /\ \A k \in 1..Len(s) : ~(k < 1)
        BY <1>2, <1>6
      <4>3. s[1] \in Asking(q)
        BY <1>2, <2>1, <4>2
      <4>. QED
        BY <4>1, <4>2, <4>3 DEF FloorKept
    <3>4. \A i \in 1..Len(responseQueue') :
             responseQueue'[i].query = q => query[q].floor <= responseQueue'[i].seen
      BY <1>12, <2>5, <3>1, <3>3 DEF Floored
    <3>. QED
      BY <1>6, <1>9, <3>2, <3>4 DEF Floored
  <2>. QED
    BY <1>6, <2>3, <2>4, <2>5 DEF Queried, Tracked
<1>. QED
  BY <1>13, <1>14 DEF Queried

LEMMA QuerySendStep ==
    ASSUME Queried, Flow', NEW p \in Queries, NEW a \in Assets, QuerySend(p, a)
    PROVE  Queried'
<1>1. PICK r : r = [kind |-> "request", asset |-> a, n |-> p]
  OBVIOUS
<1>2. PICK w : w = WorkerOf[a]
  OBVIOUS
<1>3. /\ w \in Workers
      /\ \A v \in Workers : inputQueue[v] \in Seq(Item)
      /\ query \in [Queries -> QueryState]
  BY <1>2, QueriedTypes, FlowTypes DEF Queried
<1>4. r \in Item /\ r \in Request /\ r.asset = a /\ r.n = p
  BY <1>1 DEF Item, Request
<1>5. /\ query[p].pc = "idle"
      /\ inputQueue' = [inputQueue EXCEPT ![w] = Append(@, r)]
      /\ query' = [query EXCEPT ![p] = [pc |-> "waiting", floor |-> LastPut(a)]]
      /\ UNCHANGED <<responseQueue, seen>>
  BY <1>1, <1>2 DEF QuerySend
<1>6. \A v \in Workers : inputQueue'[v] = IF v = w THEN Append(inputQueue[v], r) ELSE inputQueue[v]
  BY <1>3, <1>5 DEF Queried, Flow, DataPlaneTypeOK, RouterTypeOK
<1>7. ASSUME NEW q \in Queries, q # p PROVE Tracked(q)'
  <2>1. r \notin Asking(q)
    BY <1>4, <1>7 DEF Asking
  <2>2. query'[q] = query[q]
    BY <1>3, <1>5, <1>7
  <2>3. ASSUME NEW v \in Workers
        PROVE  /\ NoneIn(inputQueue[v], Asking(q)) => NoneIn(inputQueue'[v], Asking(q))
               /\ OneIn(inputQueue[v], Asking(q)) => OneIn(inputQueue'[v], Asking(q))
               /\ FloorKept(inputQueue[v], q, query[q].floor, seen)
                     => FloorKept(inputQueue'[v], q, query[q].floor, seen)
    <3>1. /\ NoneIn(inputQueue[v], Asking(q)) => NoneIn(Append(inputQueue[v], r), Asking(q))
          /\ OneIn(inputQueue[v], Asking(q)) => OneIn(Append(inputQueue[v], r), Asking(q))
      BY <1>3, <1>4, <2>1, AppendIn
    <3>2. FloorKept(inputQueue[v], q, query[q].floor, seen)
             => FloorKept(Append(inputQueue[v], r), q, query[q].floor, seen)
      BY <1>3, <1>4, <2>1, FloorAppend
    <3>. QED
      BY <1>6, <3>1, <3>2
  <2>4. /\ Unsent(q) => Unsent(q)'
        /\ Asked(q) => Asked(q)'
        /\ Responded(q) => Responded(q)'
    BY <1>5, <2>3 DEF Unsent, Asked, Responded
  <2>5. Floored(q) => Floored(q)'
    BY <1>5, <2>2, <2>3 DEF Floored
  <2>. QED
    BY <2>2, <2>4, <2>5 DEF Queried, Tracked
<1>8. Tracked(p)'
  <2>1. Unsent(p)
    BY <1>5 DEF Queried, Tracked
  <2>2. query'[p].pc = "waiting" /\ query'[p].floor = LastPut(a)
    BY <1>3, <1>5
  <2>3. r \in Asking(p)
    BY <1>4 DEF Asking
  <2>4. OneIn(inputQueue'[w], Asking(p))
    <3>1. OneIn(Append(inputQueue[w], r), Asking(p))
      BY <1>3, <1>4, <2>1, <2>3, AppendIn DEF Unsent
    <3>. QED
      BY <1>3, <1>6, <3>1
  <2>5. Asked(p)'
    BY <1>3, <1>5, <1>6, <2>1, <2>4 DEF Unsent, Asked
  <2>6. FloorKept(inputQueue'[w], p, LastPut(a), seen)
    <3>1. LastPut(a) <= seen[a] \/ \E n \in Numbers(inputQueue[w], a) : LastPut(a) <= n
      <4>1. /\ LastPut(a) \in {seen[a]} \cup Numbers(inputQueue[w], a)
            /\ LastPut(a) \in Nat
        BY <1>2, LastPutIsLast DEF Queried
      <4>. QED
        BY <4>1
    <3>2. FloorKept(Append(inputQueue[w], r), p, LastPut(a), seen)
      BY <1>3, <1>4, <2>1, <3>1, FloorSet DEF Unsent
    <3>. QED
      BY <1>3, <1>6, <3>2
  <2>7. \A v \in Workers \ {w} : FloorKept(inputQueue'[v], p, LastPut(a), seen)
    BY <1>6, <2>1 DEF Unsent, NoneIn, FloorKept
  <2>8. \A i \in 1..Len(responseQueue) : responseQueue[i].query # p
    <3>1. \A i \in 1..Len(responseQueue) : responseQueue[i] \in Response
      BY QueriedTypes DEF Queried
    <3>. QED
      BY <2>1, <3>1 DEF Unsent, NoneIn, Answering
  <2>9. Floored(p)'
    BY <1>5, <2>2, <2>6, <2>7, <2>8 DEF Floored
  <2>. QED
    BY <2>2, <2>5, <2>9 DEF Tracked
<1>. QED
  BY <1>7, <1>8 DEF Queried

(* A query that is refused, or gives up, has nothing left to track.        *)
LEMMA QueryOverStep ==
    ASSUME Queried, Flow', NEW p \in Queries, QueryTimeout(p) \/ \E a \in Assets : QueryRefused(p, a)
    PROVE  Queried'
<1>1. /\ UNCHANGED <<inputQueue, seen, responseQueue>>
      /\ \E end \in {"refused", "timeout"} : query' = [query EXCEPT ![p] = [pc |-> end]]
  BY DEF QueryTimeout, QueryRefused, routerVars
<1>2. query \in [Queries -> QueryState]
  BY QueriedTypes DEF Queried
<1>3. query'[p].pc \in {"refused", "timeout"}
  BY <1>1, <1>2
<1>4. ASSUME NEW q \in Queries, q # p PROVE Tracked(q)'
  <2>1. query'[q] = query[q]
    BY <1>1, <1>2, <1>4
  <2>2. /\ Unsent(q)' = Unsent(q) /\ Asked(q)' = Asked(q)
        /\ Responded(q)' = Responded(q) /\ Floored(q)' = Floored(q)
    BY <1>1, <2>1 DEF Unsent, Asked, Responded, Floored
  <2>. QED
    BY <2>1, <2>2 DEF Queried, Tracked
<1>5. Tracked(p)'
  BY <1>3 DEF Tracked
<1>. QED
  BY <1>4, <1>5 DEF Queried

(* The first response goes to whom it answers, or back to the end: either  *)
(* way every response still there was there before.                        *)
LEMMA QueryPollStep ==
    ASSUME Queried, Flow', NEW p \in Queries, QueryPoll(p)
    PROVE  Queried'
<1>1. PICK r : r = Head(responseQueue)
  OBVIOUS
<1>2. PICK rest : rest = Tail(responseQueue)
  OBVIOUS
<1>3. /\ responseQueue \in Seq(Response)
      /\ query \in [Queries -> QueryState]
      /\ \A q \in Queries : query[q].pc \in {"waiting", "answered"} => query[q].floor \in Nat
  BY QueriedTypes DEF Queried
<1>4. /\ query[p].pc = "waiting" /\ responseQueue # <<>>
      /\ UNCHANGED <<inputQueue, seen>>
      /\ IF r.query = p
         THEN /\ responseQueue' = rest
              /\ query' = [query EXCEPT ![p] =
                              [pc |-> "answered", floor |-> @.floor, answer |-> r.seen]]
         ELSE /\ responseQueue' = Append(rest, r)
              /\ query' = query
  BY <1>1, <1>2 DEF QueryPoll, routerVars
<1>5. /\ r \in Response /\ r.seen \in Nat /\ rest \in Seq(Response)
      /\ Len(responseQueue) \in Nat \ {0} /\ Len(rest) = Len(responseQueue) - 1
      /\ r = responseQueue[1] /\ 1 \in 1..Len(responseQueue)
      /\ \A i \in 1..Len(rest) : rest[i] = responseQueue[i + 1] /\ i + 1 \in 1..Len(responseQueue)
  <2>1. r \in Response
    BY <1>1, <1>3, <1>4
  <2>. QED
    BY <1>1, <1>2, <1>3, <1>4, <2>1 DEF Response
<1>6. ASSUME NEW q \in Queries, NEW floor \in Nat,
             \A i \in 1..Len(responseQueue) :
                responseQueue[i].query = q => floor <= responseQueue[i].seen
      PROVE  \A i \in 1..Len(responseQueue') :
                responseQueue'[i].query = q => floor <= responseQueue'[i].seen
  <2>1. \A i \in 1..Len(rest) : rest[i].query = q => floor <= rest[i].seen
    BY <1>5, <1>6
  <2>2. \A i \in 1..Len(Append(rest, r)) :
           Append(rest, r)[i].query = q => floor <= Append(rest, r)[i].seen
    <3>1. /\ Len(rest) \in Nat
          /\ Len(Append(rest, r)) = Len(rest) + 1
          /\ \A i \in 1..Len(rest) : Append(rest, r)[i] = rest[i]
          /\ Append(rest, r)[Len(rest) + 1] = r
      BY <1>5
    <3>2. \A i \in 1..Len(Append(rest, r)) : i \in 1..Len(rest) \/ i = Len(rest) + 1
      BY <3>1
    <3>3. r.query = q => floor <= r.seen
      BY <1>5, <1>6
    <3>. QED
      BY <2>1, <3>1, <3>2, <3>3
  <2>. QED
    BY <1>4, <2>1, <2>2
<1>7. ASSUME NEW q \in Queries, r \notin Answering(q)
      PROVE  /\ NoneIn(responseQueue, Answering(q)) => NoneIn(responseQueue', Answering(q))
             /\ OneIn(responseQueue, Answering(q)) => OneIn(responseQueue', Answering(q))
  <2>1. /\ NoneIn(responseQueue, Answering(q)) => NoneIn(rest, Answering(q))
        /\ OneIn(responseQueue, Answering(q)) => OneIn(rest, Answering(q))
    BY <1>1, <1>2, <1>3, <1>4, <1>7, TailIn
  <2>2. /\ NoneIn(rest, Answering(q)) => NoneIn(Append(rest, r), Answering(q))
        /\ OneIn(rest, Answering(q)) => OneIn(Append(rest, r), Answering(q))
    BY <1>5, <1>7, AppendIn
  <2>. QED
    BY <1>4, <2>1, <2>2
<1>8. ASSUME NEW q \in Queries, r \in Answering(q), r.query # p
      PROVE  /\ ~NoneIn(responseQueue, Answering(q))
             /\ OneIn(responseQueue, Answering(q)) => OneIn(responseQueue', Answering(q))
  <2>1. ~NoneIn(responseQueue, Answering(q))
    BY <1>5, <1>8 DEF NoneIn
  <2>2. OneIn(responseQueue, Answering(q)) => NoneIn(rest, Answering(q))
    BY <1>1, <1>2, <1>3, <1>4, <1>8, TailIn
  <2>3. NoneIn(rest, Answering(q)) => OneIn(Append(rest, r), Answering(q))
    BY <1>5, <1>8, AppendIn
  <2>. QED
    BY <1>4, <1>8, <2>1, <2>2, <2>3
<1>9. ASSUME NEW q \in Queries, query'[q] = query[q], r \notin Answering(q) \/ r.query # p
      PROVE  Tracked(q)'
  <2>1. Unsent(q) => Unsent(q)'
    BY <1>4, <1>7, <1>8, <1>9 DEF Unsent
  <2>2. Asked(q) => Asked(q)'
    BY <1>4, <1>7, <1>8, <1>9 DEF Asked
  <2>3. Responded(q) => Responded(q)'
    BY <1>4, <1>7, <1>8, <1>9 DEF Responded
  <2>4. ASSUME query[q].pc = "waiting", Floored(q) PROVE Floored(q)'
    <3>1. query[q].floor \in Nat
      BY <1>3, <2>4
    <3>2. \A i \in 1..Len(responseQueue') :
             responseQueue'[i].query = q => query[q].floor <= responseQueue'[i].seen
      BY <1>6, <2>4, <3>1 DEF Floored
    <3>3. \A w \in Workers : FloorKept(inputQueue'[w], q, query[q].floor, seen')
      BY <1>4, <2>4 DEF Floored
    <3>. QED
      BY <1>9, <3>2, <3>3 DEF Floored
  <2>. QED
    BY <1>9, <2>1, <2>2, <2>3, <2>4 DEF Queried, Tracked
<1>10. CASE r.query = p
  <2>1. ASSUME NEW q \in Queries, q # p PROVE Tracked(q)'
    <3>1. query'[q] = query[q]
      BY <1>3, <1>4, <1>10, <2>1
    <3>2. r \notin Answering(q)
      BY <1>10, <2>1 DEF Answering
    <3>. QED
      BY <1>9, <3>1, <3>2
  <2>2. Tracked(p)'
    <3>1. query[p].floor \in Nat /\ query[p].floor <= r.seen
      BY <1>3, <1>4, <1>5, <1>10 DEF Queried, Tracked, Floored
    <3>2. query'[p] = [pc |-> "answered", floor |-> query[p].floor, answer |-> r.seen]
      BY <1>3, <1>4, <1>10
    <3>3. query'[p].answer >= query'[p].floor /\ query'[p].pc = "answered"
      BY <1>5, <3>1, <3>2
    <3>. QED
      BY <3>3 DEF Tracked
  <2>. QED
    BY <2>1, <2>2 DEF Queried
<1>11. CASE r.query # p
  BY <1>4, <1>9, <1>11 DEF Queried
<1>. QED
  BY <1>10, <1>11

LEMMA QueriedInit == Init => Queried
<1>. SUFFICES ASSUME Init PROVE Queried
  OBVIOUS
<1>1. Flow
  BY FlowInit
<1>2. ASSUME NEW q \in Queries PROVE Tracked(q)
  BY DEF Init, RouterInit, WorkerInit, Tracked, Unsent, NoneIn
<1>. QED
  BY <1>1, <1>2 DEF Queried

LEMMA QueriedStep == Queried /\ [Next]_vars => Queried'
<1>. SUFFICES ASSUME Queried, [Next]_vars PROVE Queried'
  OBVIOUS
<1>1. Flow' /\ \A a \in Assets : seen'[a] = seen[a] \/ seen[a] < seen'[a]
  BY FlowStep DEF Queried
<1>2. ASSUME NEW w \in Workers, HandleOrderbookRequest(w) PROVE Queried'
  BY <1>1, <1>2, HandleRequestStep
<1>3. ASSUME NEW q \in Queries, QueryStep(q) PROVE Queried'
  BY <1>1, <1>3, QuerySendStep, QueryPollStep, QueryOverStep DEF QueryStep
<1>4. ASSUME ~(\E w \in Workers : HandleOrderbookRequest(w)), ~(\E q \in Queries : QueryStep(q))
      PROVE  Queried'
  <2>1. /\ UNCHANGED <<responseQueue, query>>
        /\ \A w \in Workers : Passes(inputQueue[w], inputQueue'[w], seen')
    BY <1>1, <1>4, PassingActions
  <2>. QED
    BY <1>1, <2>1, PassingStep
<1>. QED
  BY <1>2, <1>3, <1>4

(* The answer to a query shows every message that had been put in its      *)
(* worker's queue when it was sent.                                        *)
THEOREM AnswersAreFresh == Spec => []QueryFresh
<1>1. Queried => QueryFresh
  BY DEF Queried, Tracked, QueryFresh
<1>. QED
  BY <1>1, QueriedInit, QueriedStep, PTL DEF Spec

-----------------------------------------------------------------------------
(* The places of what there is once, or not at all.                        *)
LEMMA OnePlace ==
    ASSUME NEW s, NEW K, OneIn(s, K)
    PROVE  Cardinality({i \in 1..Len(s) : s[i] \in K}) = 1
<1>1. PICK i \in 1..Len(s) : s[i] \in K /\ \A j \in 1..Len(s) : s[j] \in K => j = i
  BY DEF OneIn
<1>2. {j \in 1..Len(s) : s[j] \in K} = {i}
  BY <1>1
<1>. QED
  BY <1>2, FS_Singleton

LEMMA NoPlace ==
    ASSUME NEW s, NEW K, NoneIn(s, K)
    PROVE  Cardinality({i \in 1..Len(s) : s[i] \in K}) = 0
<1>1. {i \in 1..Len(s) : s[i] \in K} = {}
  BY DEF NoneIn
<1>. QED
  BY <1>1, FS_EmptySet

LEMMA ResponsesAreAnswering ==
    ASSUME Flow, NEW q
    PROVE  Responses(q) = {i \in 1..Len(responseQueue) : responseQueue[i] \in Answering(q)}
<1>1. \A i \in 1..Len(responseQueue) : responseQueue[i] \in Response
  BY QueriedTypes
<1>. QED
  BY <1>1 DEF Responses, Answering

(* Where the requests of a query are, in the terms of the invariant.       *)
LEMMA RequestsAreAsking ==
    ASSUME Flow, NEW q, NEW w \in Workers, NEW i \in 1..WorkerQueueSize
    PROVE  <<w, i>> \in Requests(q) <=> i \in 1..Len(inputQueue[w]) /\ inputQueue[w][i] \in Asking(q)
<1>1. inputQueue[w] \in Seq(Item)
  BY QueriedTypes
<1>2. i \in 1..Len(inputQueue[w]) <=> i <= Len(inputQueue[w])
  BY <1>1, CapacitiesAreNat
<1>3. \A j \in 1..Len(inputQueue[w]) : inputQueue[w][j] \in Item
  BY <1>1
<1>4. \A m \in Item : m \in Asking(q) <=> m.kind = "request" /\ m.n = q
  BY DEF Item, Message, Request, Sentinel, Asking
<1>5. <<w, i>> \in Requests(q)
        <=> /\ i <= Len(inputQueue[w])
            /\ inputQueue[w][i].kind = "request" /\ inputQueue[w][i].n = q
  BY DEF Requests
<1>. QED
  BY <1>2, <1>3, <1>4, <1>5

LEMMA NoRequests ==
    ASSUME Flow, NEW q, \A w \in Workers : NoneIn(inputQueue[w], Asking(q))
    PROVE  Requests(q) = {}
<1>1. ASSUME NEW at \in Requests(q) PROVE FALSE
  <2>1. PICK w \in Workers, i \in 1..WorkerQueueSize : at = <<w, i>>
    BY DEF Requests
  <2>2. i \in 1..Len(inputQueue[w]) /\ inputQueue[w][i] \in Asking(q)
    BY <2>1, RequestsAreAsking
  <2>. QED
    BY <2>2 DEF NoneIn
<1>. QED
  BY <1>1

LEMMA OneRequest ==
    ASSUME Flow, NEW q, NEW w \in Workers, OneIn(inputQueue[w], Asking(q)),
           \A v \in Workers \ {w} : NoneIn(inputQueue[v], Asking(q))
    PROVE  Cardinality(Requests(q)) = 1
<1>1. PICK i \in 1..Len(inputQueue[w]) :
         /\ inputQueue[w][i] \in Asking(q)
         /\ \A j \in 1..Len(inputQueue[w]) : inputQueue[w][j] \in Asking(q) => j = i
  BY DEF OneIn
<1>2. i \in 1..WorkerQueueSize
  <2>1. inputQueue[w] \in Seq(Item) /\ Len(inputQueue[w]) <= WorkerQueueSize
    BY QueriedTypes DEF Flow, DataPlaneTypeOK, RouterTypeOK
  <2>. QED
    BY <2>1, CapacitiesAreNat
<1>3. <<w, i>> \in Requests(q)
  BY <1>1, <1>2, RequestsAreAsking
<1>4. ASSUME NEW at \in Requests(q) PROVE at = <<w, i>>
  <2>1. PICK v \in Workers, j \in 1..WorkerQueueSize : at = <<v, j>>
    BY DEF Requests
  <2>2. j \in 1..Len(inputQueue[v]) /\ inputQueue[v][j] \in Asking(q)
    BY <2>1, RequestsAreAsking
  <2>3. v = w
    BY <2>2 DEF NoneIn
  <2>. QED
    BY <2>1, <2>2, <2>3, <1>1
<1>5. Requests(q) = {<<w, i>>}
  BY <1>3, <1>4
<1>. QED
  BY <1>5, FS_Singleton

(* While a query waits there is one request or one response of it, never   *)
(* both and never two: no poll of another query loses or repeats it.       *)
THEOREM OneAnswerEach == Spec => []OneAnswer
<1>1. ASSUME Queried, NEW q \in Queries, query[q].pc = "waiting"
      PROVE  Cardinality(Requests(q)) + Cardinality(Responses(q)) = 1
  <2>1. Flow /\ (Asked(q) \/ Responded(q))
    BY <1>1 DEF Queried, Tracked
  <2>2. CASE Asked(q)
    <3>1. Cardinality(Requests(q)) = 1
      BY <2>1, <2>2, OneRequest DEF Asked
    <3>2. Cardinality(Responses(q)) = 0
      BY <2>1, <2>2, NoPlace, ResponsesAreAnswering DEF Asked
    <3>. QED
      BY <3>1, <3>2
  <2>3. CASE Responded(q)
    <3>1. Cardinality(Requests(q)) = 0
      BY <2>1, <2>3, NoRequests, FS_EmptySet DEF Responded
    <3>2. Cardinality(Responses(q)) = 1
      BY <2>1, <2>3, OnePlace, ResponsesAreAnswering DEF Responded
    <3>. QED
      BY <3>1, <3>2
  <2>. QED
    BY <2>1, <2>2, <2>3
<1>2. Queried => OneAnswer
  BY <1>1 DEF OneAnswer
<1>. QED
  BY <1>2, QueriedInit, QueriedStep, PTL DEF Spec

-----------------------------------------------------------------------------
(* The accounts.  The pairs of an argument of f and a member of its value: *)
(* a step that adds one of them, or takes one away, changes their number   *)
(* by one.                                                                 *)
Spread(f) == UNION {{x} \X f[x] : x \in DOMAIN f}

LEMMA SpreadGains ==
    ASSUME NEW f, NEW g, IsFiniteSet(Spread(f)), DOMAIN g = DOMAIN f,
           NEW x \in DOMAIN f, NEW y, y \notin f[x], g[x] = f[x] \cup {y},
           \A z \in DOMAIN f \ {x} : g[z] = f[z]
    PROVE  IsFiniteSet(Spread(g)) /\ Cardinality(Spread(g)) = Cardinality(Spread(f)) + 1
<1>1. \A p : p \in Spread(f) <=> \E z \in DOMAIN f : \E k \in f[z] : p = <<z, k>>
  BY DEF Spread
<1>2. \A p : p \in Spread(g) <=> \E z \in DOMAIN f : \E k \in g[z] : p = <<z, k>>
  BY DEF Spread
<1>3. <<x, y>> \notin Spread(f)
  BY <1>1
<1>4. ASSUME NEW p \in Spread(g) PROVE p \in Spread(f) \/ p = <<x, y>>
  <2>1. PICK z \in DOMAIN f : \E k \in g[z] : p = <<z, k>>
    BY <1>2
  <2>2. CASE z = x
    BY <1>1, <2>1, <2>2
  <2>3. CASE z # x
    BY <1>1, <2>1, <2>3
  <2>. QED
    BY <2>2, <2>3
<1>5. ASSUME NEW p \in Spread(f) PROVE p \in Spread(g)
  <2>1. PICK z \in DOMAIN f : \E k \in f[z] : p = <<z, k>>
    BY <1>1
  <2>2. f[z] \subseteq g[z]
    OBVIOUS
  <2>. QED
    BY <1>2, <2>1, <2>2
<1>6. <<x, y>> \in Spread(g)
  BY <1>2
<1>7. Spread(g) = Spread(f) \cup {<<x, y>>}
  BY <1>4, <1>5, <1>6
<1>8. PICK S, p : S = Spread(f) /\ p = <<x, y>>
  OBVIOUS
<1>9. IsFiniteSet(S \cup {p}) /\ Cardinality(S \cup {p}) = Cardinality(S) + 1
  <2>1. IsFiniteSet(S) /\ p \notin S
    BY <1>3, <1>8
  <2>. QED
    BY <2>1, FS_AddElement
<1>. QED
  BY <1>7, <1>8, <1>9

LEMMA SpreadLoses ==
    ASSUME NEW f, NEW g, IsFiniteSet(Spread(f)), DOMAIN g = DOMAIN f,
           NEW x \in DOMAIN f, NEW y \in f[x], g[x] = f[x] \ {y},
           \A z \in DOMAIN f \ {x} : g[z] = f[z]
    PROVE  IsFiniteSet(Spread(g)) /\ Cardinality(Spread(g)) + 1 = Cardinality(Spread(f))
<1>1. IsFiniteSet(Spread(g))
  <2>1. Spread(g) \subseteq Spread(f)
    <3>1. \A z \in DOMAIN f : g[z] \subseteq f[z]
      OBVIOUS
    <3>. QED
      BY <3>1 DEF Spread
  <2>. QED
    BY <2>1, FS_Subset
<1>2. y \notin g[x] /\ f[x] = g[x] \cup {y}
  OBVIOUS
<1>3. \A z \in DOMAIN g \ {x} : f[z] = g[z]
  OBVIOUS
<1>. QED
  BY <1>1, <1>2, <1>3, SpreadGains

(* What Sum counts.                                                        *)
Units(f) == Spread([x \in DOMAIN f |-> 1..f[x]])

LEMMA SumIsUnits ==
    ASSUME NEW f
    PROVE  Sum(f) = Cardinality(Units(f))
BY DEF Sum, Units, Spread

LEMMA SumOfNothing ==
    ASSUME NEW S
    PROVE  IsFiniteSet(Units([x \in S |-> 0])) /\ Sum([x \in S |-> 0]) = 0
<1>1. Units([x \in S |-> 0]) = {}
  BY DEF Units, Spread
<1>. QED
  BY <1>1, SumIsUnits, FS_EmptySet

LEMMA SumIncrement ==
    ASSUME NEW S, NEW f \in [S -> Nat], NEW x \in S, IsFiniteSet(Units(f)), NEW g,
           g = [f EXCEPT ![x] = @ + 1]
    PROVE  IsFiniteSet(Units(g)) /\ Sum(g) = Sum(f) + 1
<1> DEFINE F == [z \in DOMAIN f |-> 1..f[z]]
           G == [z \in DOMAIN g |-> 1..g[z]]
<1>1. DOMAIN G = DOMAIN F /\ x \in DOMAIN F /\ IsFiniteSet(Spread(F))
  BY DEF Units
<1>2. f[x] \in Nat /\ g[x] = f[x] + 1
  OBVIOUS
<1>3. f[x] + 1 \notin F[x] /\ G[x] = F[x] \cup {f[x] + 1}
  BY <1>2
<1>4. \A z \in DOMAIN F \ {x} : G[z] = F[z]
  OBVIOUS
<1> HIDE DEF F, G
<1>5. IsFiniteSet(Spread(G)) /\ Cardinality(Spread(G)) = Cardinality(Spread(F)) + 1
  BY <1>1, <1>3, <1>4, SpreadGains
<1>. QED
  BY <1>5, SumIsUnits DEF F, G, Units

(* The messages in an asset's worker's queue.                              *)
AtWorker(a) == Numbers(inputQueue[WorkerOf[a]], a)

AtWorkers == [a \in Assets |-> AtWorker(a)]

LEMMA QueuedIsSpread == Queued = Spread(AtWorkers)
BY DEF Queued, Spread, AtWorkers, AtWorker

LEMMA QueuedKept ==
    ASSUME \A a \in Assets : AtWorker(a)' = AtWorker(a)
    PROVE  Queued' = Queued
BY DEF Queued, AtWorker

LEMMA QueuedGains ==
    ASSUME IsFiniteSet(Queued), NEW a \in Assets, NEW n, n \notin AtWorker(a),
           \A b \in Assets : AtWorker(b)' = IF b = a THEN AtWorker(b) \cup {n} ELSE AtWorker(b)
    PROVE  IsFiniteSet(Queued') /\ Cardinality(Queued') = Cardinality(Queued) + 1
<1> DEFINE F == AtWorkers
           G == [b \in Assets |-> AtWorker(b)']
<1>1. /\ DOMAIN G = DOMAIN F /\ a \in DOMAIN F
      /\ n \notin F[a] /\ G[a] = F[a] \cup {n}
      /\ \A b \in DOMAIN F \ {a} : G[b] = F[b]
  BY DEF AtWorkers
<1>2. Queued = Spread(F)
  BY QueuedIsSpread
<1>3. Queued' = Spread(G)
  BY DEF Queued, Spread, AtWorker
<1> HIDE DEF F, G
<1>. QED
  BY <1>1, <1>2, <1>3, SpreadGains

LEMMA QueuedLoses ==
    ASSUME IsFiniteSet(Queued), NEW a \in Assets, NEW n \in AtWorker(a),
           \A b \in Assets : AtWorker(b)' = IF b = a THEN AtWorker(b) \ {n} ELSE AtWorker(b)
    PROVE  IsFiniteSet(Queued') /\ Cardinality(Queued') + 1 = Cardinality(Queued)
<1> DEFINE F == AtWorkers
           G == [b \in Assets |-> AtWorker(b)']
<1>1. /\ DOMAIN G = DOMAIN F /\ a \in DOMAIN F
      /\ n \in F[a] /\ G[a] = F[a] \ {n}
      /\ \A b \in DOMAIN F \ {a} : G[b] = F[b]
  BY DEF AtWorkers
<1>2. Queued = Spread(F)
  BY QueuedIsSpread
<1>3. Queued' = Spread(G)
  BY DEF Queued, Spread, AtWorker
<1> HIDE DEF F, G
<1>. QED
  BY <1>1, <1>2, <1>3, SpreadLoses

LEMMA QuietQueued ==
    ASSUME Flow, \A w \in Workers : Quiet(inputQueue[w], inputQueue'[w], w)
    PROVE  Queued' = Queued
<1>1. ASSUME NEW a \in Assets PROVE AtWorker(a)' = AtWorker(a)
  <2>1. PICK w \in Workers : w = WorkerOf[a]
    BY FlowTypes
  <2>2. inputQueue[w] \in Seq(Item) /\ ForWorker(inputQueue[w], w) /\ Sorted(inputQueue[w], a)
    BY <2>1, FlowTypes DEF Flow, AtItsWorker, InOrder
  <2>3. Quiet(inputQueue[w], inputQueue'[w], w)
    OBVIOUS
  <2>4. Numbers(inputQueue'[w], a) = Numbers(inputQueue[w], a)
    BY <2>2, <2>3, QuietKeeps
  <2>. QED
    BY <2>1, <2>4 DEF AtWorker
<1>. QED
  BY <1>1, QueuedKept

(* A put adds the message to its worker's queue, ...                       *)
LEMMA RoutePutQueued ==
    ASSUME Flow, RoutePut, IsFiniteSet(Queued)
    PROVE  IsFiniteSet(Queued') /\ Cardinality(Queued') = Cardinality(Queued) + 1
<1>1. PICK m : m = batch[NextToRoute]
  OBVIOUS
<1>2. batch # <<>> /\ inputQueue' = [inputQueue EXCEPT ![WorkerOf[m.asset]] = Append(@, m)]
  BY <1>1 DEF RoutePut
<1>3. /\ m \in Message /\ m \in Item /\ m.asset \in Assets /\ WorkerOf[m.asset] \in Workers
      /\ \A b : IsMessageOf(m, b) <=> b = m.asset
      /\ m.n \in Numbers(batch, m.asset)
  BY <1>1, <1>2, NextIsFirst DEF Item
<1>4. \A v \in Workers :
         /\ inputQueue[v] \in Seq(Item)
         /\ inputQueue'[v] = IF v = WorkerOf[m.asset] THEN Append(inputQueue[v], m) ELSE inputQueue[v]
  BY <1>2, <1>3 DEF Flow, DataPlaneTypeOK, RouterTypeOK
<1>5. Below(AtWorker(m.asset), {m.n}) /\ m.n \notin AtWorker(m.asset)
  <2>1. /\ Below(AtWorker(m.asset), Numbers(batch, m.asset))
        /\ AtWorker(m.asset) \subseteq Nat
    BY <1>3 DEF Flow, InOrder, Ranked, AtWorker
  <2>. QED
    BY <1>3, <2>1 DEF Below
<1>6. ASSUME NEW b \in Assets
      PROVE  AtWorker(b)' = IF b = m.asset THEN AtWorker(b) \cup {m.n} ELSE AtWorker(b)
  <2>1. PICK w \in Workers : w = WorkerOf[b]
    BY FlowTypes
  <2>2. inputQueue[w] \in Seq(Item) /\ Sorted(inputQueue[w], b)
    BY <1>4, <2>1 DEF Flow, InOrder
  <2>3. CASE b = m.asset
    <3>1. Numbers(Append(inputQueue[w], m), b) = Numbers(inputQueue[w], b) \cup {m.n}
      <4>1. IsMessageOf(m, b) /\ Below(Numbers(inputQueue[w], b), {m.n})
        BY <1>3, <1>5, <2>1, <2>3 DEF AtWorker
      <4>. QED
        BY <1>3, <2>2, <4>1, AppendMessage
    <3>. QED
      BY <1>4, <2>1, <2>3, <3>1 DEF AtWorker
  <2>4. CASE b # m.asset
    <3>1. Numbers(Append(inputQueue[w], m), b) = Numbers(inputQueue[w], b)
      BY <1>3, <2>2, <2>4, AppendOther
    <3>. QED
      BY <1>4, <2>1, <2>4, <3>1 DEF AtWorker
  <2>. QED
    BY <2>3, <2>4
<1>. QED
  BY <1>3, <1>5, <1>6, QueuedGains

(* ... and the worker takes it out.                                        *)
LEMMA ProcessMessageQueued ==
    ASSUME Flow, NEW w \in Workers, ProcessMessage(w), IsFiniteSet(Queued)
    PROVE  IsFiniteSet(Queued') /\ Cardinality(Queued') + 1 = Cardinality(Queued)
<1>1. PICK m : m = Head(inputQueue[w])
  OBVIOUS
<1>2. /\ inputQueue[w] \in Seq(Item) /\ inputQueue[w] # <<>> /\ m \in Item /\ m.kind = "message"
      /\ inputQueue' = [inputQueue EXCEPT ![w] = Tail(@)]
  <2>1. Dequeued(w, "message")
    BY DEF ProcessMessage
  <2>. QED
    BY <1>1, <2>1, DequeuedTypes DEF Flow
<1>3. /\ m \in Message /\ m.asset \in Assets
      /\ \A b : IsMessageOf(m, b) <=> b = m.asset
  BY <1>2 DEF Item, Message, Request, Sentinel, IsMessageOf
<1>4. WorkerOf[m.asset] = w
  <2>1. ForWorker(inputQueue[w], w)
    BY DEF Flow, AtItsWorker
  <2>2. 1 \in 1..Len(inputQueue[w]) /\ m = inputQueue[w][1]
    BY <1>1, <1>2
  <2>. QED
    BY <1>2, <2>1, <2>2 DEF ForWorker
<1>5. \A v \in Workers : inputQueue'[v] = IF v = w THEN Tail(inputQueue[w]) ELSE inputQueue[v]
  BY <1>2 DEF Flow, DataPlaneTypeOK, RouterTypeOK
<1>6. ASSUME NEW b \in Assets
      PROVE  /\ AtWorker(b)' = IF b = m.asset THEN AtWorker(b) \ {m.n} ELSE AtWorker(b)
             /\ b = m.asset => m.n \in AtWorker(b)
  <2>1. PICK v \in Workers : v = WorkerOf[b]
    BY FlowTypes
  <2>2. CASE v = w
    <3>1. Sorted(inputQueue[w], b) /\ Numbers(inputQueue[w], b) \subseteq Nat
      BY <2>1, <2>2, FlowTypes DEF InOrder
    <3>2. /\ IsMessageOf(Head(inputQueue[w]), b) =>
               /\ Head(inputQueue[w]).n \in Numbers(inputQueue[w], b)
               /\ Numbers(Tail(inputQueue[w]), b) = Numbers(inputQueue[w], b) \ {Head(inputQueue[w]).n}
          /\ ~IsMessageOf(Head(inputQueue[w]), b) =>
               Numbers(Tail(inputQueue[w]), b) = Numbers(inputQueue[w], b)
      BY <1>2, <3>1, TailNumbers
    <3>. QED
      BY <1>1, <1>3, <1>5, <2>1, <2>2, <3>2 DEF AtWorker
  <2>3. CASE v # w
    BY <1>4, <1>5, <2>1, <2>3 DEF AtWorker
  <2>. QED
    BY <2>2, <2>3
<1>. QED
  BY <1>3, <1>6, QueuedLoses

(* The inductive invariant: the accounts balance, what they count is       *)
(* finite, and the router that drains has nothing left in its own queue.   *)
Countable == IsFiniteSet(Units(arrived)) /\ IsFiniteSet(Units(processed)) /\ IsFiniteSet(Queued)

Emptied ==
    /\ routing = "draining" => asyncQueue = <<>>
    /\ routing = "stopped" => asyncQueue = <<>> /\ batch = <<>>

Accepted == Sum(arrived) = routerStats.routed + routerStats.dropped + Len(asyncQueue) + Len(batch)

Handled == routerStats.routed = Sum(processed) + Cardinality(Queued)

Counted == Flow /\ Countable /\ Emptied /\ Accepted /\ Handled

LEMMA CountedTypes ==
    ASSUME Counted
    PROVE  /\ asyncQueue \in Seq(Message) /\ batch \in Seq(Message)
           /\ Len(asyncQueue) \in Nat /\ Len(batch) \in Nat
           /\ routerStats \in [routed : Nat, dropped : Nat]
           /\ routerStats.routed \in Nat /\ routerStats.dropped \in Nat
           /\ arrived \in [Assets -> Nat] /\ processed \in [Workers -> Nat]
           /\ Sum(arrived) \in Nat /\ Sum(processed) \in Nat /\ Cardinality(Queued) \in Nat
<1>1. /\ asyncQueue \in Seq(Message) /\ batch \in Seq(Message)
      /\ routerStats \in [routed : Nat, dropped : Nat]
      /\ arrived \in [Assets -> Nat] /\ processed \in [Workers -> Nat]
  BY DEF Counted, Flow, DataPlaneTypeOK, RouterTypeOK, WorkerTypeOK
<1>2. Sum(arrived) \in Nat /\ Sum(processed) \in Nat /\ Cardinality(Queued) \in Nat
  BY SumIsUnits, FS_CardinalityType DEF Counted, Countable
<1>. QED
  BY <1>1, <1>2

LEMMA RouteMessageCounted ==
    ASSUME Counted, NEW a \in Assets, RouteMessage(a), UNCHANGED workerVars
    PROVE  Countable' /\ Emptied' /\ Accepted' /\ Handled'
<1>1. PICK m : m = [kind |-> "message", asset |-> a, n |-> arrived[a] + 1]
  OBVIOUS
<1>2. /\ routing = "collecting"
      /\ arrived' = [arrived EXCEPT ![a] = @ + 1]
      /\ asyncQueue' = Append(asyncQueue, m)
      /\ UNCHANGED <<batch, routing, routerStats, inputQueue, processed>>
  BY <1>1 DEF RouteMessage, LoopFree, workerVars
<1>3. IsFiniteSet(Units(arrived')) /\ Sum(arrived') = Sum(arrived) + 1
  BY <1>2, CountedTypes, SumIncrement DEF Counted, Countable
<1>4. Len(asyncQueue') = Len(asyncQueue) + 1
  BY <1>2, CountedTypes
<1>5. Queued' = Queued
  BY <1>2 DEF Queued
<1>6. Countable' /\ Emptied' /\ Handled'
  BY <1>2, <1>3, <1>5 DEF Counted, Countable, Emptied, Handled
<1>7. Accepted'
  BY <1>2, <1>3, <1>4, CountedTypes DEF Counted, Accepted
<1>. QED
  BY <1>6, <1>7

LEMMA RefuseMessageCounted ==
    ASSUME Counted, NEW a \in Assets, RefuseMessage(a), UNCHANGED workerVars
    PROVE  Countable' /\ Emptied' /\ Accepted' /\ Handled'
<1>1. /\ routing = "collecting"
      /\ arrived' = [arrived EXCEPT ![a] = @ + 1]
      /\ routerStats' = [routerStats EXCEPT !.dropped = @ + 1]
      /\ UNCHANGED <<asyncQueue, batch, routing, inputQueue, processed>>
  BY DEF RefuseMessage, LoopFree, workerVars
<1>2. IsFiniteSet(Units(arrived')) /\ Sum(arrived') = Sum(arrived) + 1
  BY <1>1, CountedTypes, SumIncrement DEF Counted, Countable
<1>3. routerStats'.dropped = routerStats.dropped + 1 /\ routerStats'.routed = routerStats.routed
  BY <1>1, CountedTypes
<1>4. Queued' = Queued
  BY <1>1 DEF Queued
<1>5. Countable' /\ Emptied' /\ Handled'
  BY <1>1, <1>2, <1>3, <1>4 DEF Counted, Countable, Emptied, Handled
<1>6. Accepted'
  BY <1>1, <1>2, <1>3, CountedTypes DEF Counted, Accepted
<1>. QED
  BY <1>5, <1>6

(* From the router's queue to the batch, one message or all of them.       *)
LEMMA CollectCounted ==
    ASSUME Counted, TakeItem \/ RouterStopBegin, UNCHANGED workerVars
    PROVE  Countable' /\ Emptied' /\ Accepted' /\ Handled'
<1>1. /\ UNCHANGED <<arrived, routerStats, inputQueue, processed>>
      /\ routing = "collecting"
  BY DEF TakeItem, RouterStopBegin, workerVars
<1>2. Len(asyncQueue') + Len(batch') = Len(asyncQueue) + Len(batch)
      /\ Len(asyncQueue') \in Nat /\ Len(batch') \in Nat
  <2>1. CASE TakeItem
    <3>1. /\ asyncQueue # <<>> /\ asyncQueue' = Tail(asyncQueue)
          /\ batch' = Append(batch, Head(asyncQueue))
      BY <2>1 DEF TakeItem
    <3>. QED
      BY <3>1, CountedTypes
  <2>2. CASE RouterStopBegin
    <3>1. asyncQueue' = <<>> /\ batch' = batch \o asyncQueue
      BY <2>2 DEF RouterStopBegin
    <3>. QED
      BY <3>1, CountedTypes
  <2>. QED
    BY <2>1, <2>2
<1>3. Emptied'
  BY <1>1 DEF TakeItem, RouterStopBegin, Emptied
<1>4. Queued' = Queued
  BY <1>1 DEF Queued
<1>5. Countable' /\ Handled'
  BY <1>1, <1>4 DEF Counted, Countable, Handled
<1>6. Accepted'
  BY <1>1, <1>2, CountedTypes DEF Counted, Accepted
<1>. QED
  BY <1>3, <1>5, <1>6

(* Out of the batch.                                                       *)
LEMMA RouteCounted ==
    ASSUME Counted, RoutePut \/ RouteDrop, UNCHANGED workerVars
    PROVE  Countable' /\ Emptied' /\ Accepted' /\ Handled'
<1>1. /\ UNCHANGED <<arrived, asyncQueue, routing, processed>>
      /\ routing \in {"routing", "draining"} /\ batch # <<>>
      /\ batch' = RemoveAt(batch, NextToRoute)
  BY DEF RoutePut, RouteDrop, workerVars
<1>2. Len(batch') + 1 = Len(batch) /\ Len(batch') \in Nat
  <2>1. batch \in Seq(Message) /\ NextToRoute \in 1..Len(batch)
    BY <1>1, NextIsFirst DEF Counted
  <2>2. Len(RemoveAt(batch, NextToRoute)) = Len(batch) - 1
    BY <2>1, RemoveAtProperties
  <2>. QED
    BY <1>1, <2>1, <2>2
<1>3. Emptied'
  BY <1>1 DEF Counted, Emptied
<1>4. CASE RoutePut
  <2>1. routerStats'.routed = routerStats.routed + 1 /\ routerStats'.dropped = routerStats.dropped
    BY <1>4, CountedTypes DEF RoutePut
  <2>2. IsFiniteSet(Queued') /\ Cardinality(Queued') = Cardinality(Queued) + 1
    BY <1>4, RoutePutQueued DEF Counted, Countable
  <2>3. Countable'
    BY <1>1, <2>2 DEF Counted, Countable
  <2>4. Accepted'
    <3>1. Sum(arrived') = Sum(arrived) /\ Len(asyncQueue') = Len(asyncQueue)
      BY <1>1
    <3>2. Sum(arrived) = routerStats.routed + routerStats.dropped + Len(asyncQueue) + Len(batch)
      BY DEF Counted, Accepted
    <3>3. /\ routerStats.routed \in Nat /\ routerStats.dropped \in Nat
          /\ Len(asyncQueue) \in Nat /\ Len(batch) \in Nat
      BY CountedTypes
    <3>4. PICK r, d, q, b, c : /\ r = routerStats.routed /\ d = routerStats.dropped
                               /\ q = Len(asyncQueue) /\ b = Len(batch) /\ c = Len(batch')
      OBVIOUS
    <3>5. r + d + q + b = (r + d + 1) + q + c
      BY <1>2, <3>3, <3>4
    <3>6. routerStats'.routed + routerStats'.dropped = r + d + 1
      BY <2>1, <3>3, <3>4
    <3>7. Sum(arrived') = routerStats'.routed + routerStats'.dropped + Len(asyncQueue') + Len(batch')
      BY <3>1, <3>2, <3>4, <3>5, <3>6
    <3>. QED
      BY <3>7 DEF Accepted
  <2>5. Handled'
    BY <1>1, <2>1, <2>2, CountedTypes DEF Counted, Handled
  <2>. QED
    BY <1>3, <2>3, <2>4, <2>5
<1>5. CASE RouteDrop
  <2>1. routerStats'.routed = routerStats.routed /\ routerStats'.dropped = routerStats.dropped + 1
    BY <1>5, CountedTypes DEF RouteDrop
  <2>2. Queued' = Queued
    BY <1>5 DEF RouteDrop, Queued
  <2>3. Countable' /\ Handled'
    BY <1>1, <2>1, <2>2 DEF Counted, Countable, Handled
  <2>4. Accepted'
    <3>1. Sum(arrived') = Sum(arrived) /\ Len(asyncQueue') = Len(asyncQueue)
      BY <1>1
    <3>2. Sum(arrived) = routerStats.routed + routerStats.dropped + Len(asyncQueue) + Len(batch)
      BY DEF Counted, Accepted
    <3>3. /\ routerStats.routed \in Nat /\ routerStats.dropped \in Nat
          /\ Len(asyncQueue) \in Nat /\ Len(batch) \in Nat
      BY CountedTypes
    <3>4. PICK r, d, q, b, c : /\ r = routerStats.routed /\ d = routerStats.dropped
                               /\ q = Len(asyncQueue) /\ b = Len(batch) /\ c = Len(batch')
      OBVIOUS
    <3>5. r + d + q + b = (r + d + 1) + q + c
      BY <1>2, <3>3, <3>4
    <3>6. routerStats'.routed + routerStats'.dropped = r + d + 1
      BY <2>1, <3>3, <3>4
    <3>7. Sum(arrived') = routerStats'.routed + routerStats'.dropped + Len(asyncQueue') + Len(batch')
      BY <3>1, <3>2, <3>4, <3>5, <3>6
    <3>. QED
      BY <3>7 DEF Accepted
  <2>. QED
    BY <1>3, <2>3, <2>4
<1>. QED
  BY <1>4, <1>5

LEMMA ProcessMessageCounted ==
    ASSUME Counted, NEW w \in Workers, ProcessMessage(w)
    PROVE  Countable' /\ Emptied' /\ Accepted' /\ Handled'
<1>1. /\ UNCHANGED <<arrived, asyncQueue, batch, routing, routerStats>>
      /\ processed' = [processed EXCEPT ![w] = @ + 1]
  BY DEF ProcessMessage, Dequeued
<1>2. IsFiniteSet(Units(processed')) /\ Sum(processed') = Sum(processed) + 1
  BY <1>1, CountedTypes, SumIncrement DEF Counted, Countable
<1>3. IsFiniteSet(Queued') /\ Cardinality(Queued') + 1 = Cardinality(Queued)
  BY ProcessMessageQueued DEF Counted, Countable
<1>4. Cardinality(Queued') \in Nat
  BY <1>3, FS_CardinalityType
<1>5. Countable' /\ Emptied' /\ Accepted'
  BY <1>1, <1>2, <1>3 DEF Counted, Countable, Emptied, Accepted
<1>6. Handled'
  BY <1>1, <1>2, <1>3, <1>4, CountedTypes DEF Counted, Handled
<1>. QED
  BY <1>5, <1>6

(* Every other step moves no message.                                      *)
LEMMA QuietCounted ==
    ASSUME Counted, DataPlaneTypeOK',
           \/ (BeginBatch \/ EndBatch \/ RouterStopEnd) /\ UNCHANGED workerVars
           \/ \E w \in Workers : HandleOrderbookRequest(w) \/ ReceiveSentinel(w) \/ WorkerIdle(w) \/ ExitProcess(w)
           \/ GetStats
           \/ \E q \in Queries : QueryStep(q)
           \/ StopManager
           \/ UNCHANGED vars
    PROVE  Countable' /\ Emptied' /\ Accepted' /\ Handled'
<1>1. /\ UNCHANGED <<arrived, asyncQueue, batch, seen>>
      /\ \A w \in Workers : Quiet(inputQueue[w], inputQueue'[w], w)
  BY QuietActions DEF Counted
<1>2. Queued' = Queued
  BY <1>1, QuietQueued DEF Counted
<1>3. UNCHANGED <<routerStats, processed>>
  BY DEF BeginBatch, EndBatch, RouterStopEnd, HandleOrderbookRequest, ReceiveSentinel, WorkerIdle,
         ExitProcess, GetStats, Dequeued, QueryStep, QuerySend, QueryRefused, QueryPoll, QueryTimeout, StopManager,
         ManagerStopBegin, ManagerStopEnd, KillWorker, vars, routerVars, workerVars
<1>4. \/ routing' = routing
      \/ routing' \in {"collecting", "routing"}
      \/ routing = "draining" /\ batch = <<>> /\ routing' = "stopped"
  BY DEF BeginBatch, EndBatch, RouterStopEnd, HandleOrderbookRequest, ReceiveSentinel, WorkerIdle,
         ExitProcess, GetStats, Dequeued, QueryStep, QuerySend, QueryRefused, QueryPoll, QueryTimeout, StopManager,
         ManagerStopBegin, ManagerStopEnd, KillWorker, vars, routerVars, workerVars
<1>5. Emptied'
  BY <1>1, <1>4 DEF Counted, Emptied
<1>. QED
  BY <1>1, <1>2, <1>3, <1>5 DEF Counted, Countable, Accepted, Handled

LEMMA CountedInit == Init => Counted
<1>. SUFFICES ASSUME Init PROVE Counted
  OBVIOUS
<1>1. /\ arrived = [a \in Assets |-> 0] /\ processed = [w \in Workers |-> 0]
      /\ asyncQueue = <<>> /\ batch = <<>> /\ routing = "collecting"
      /\ routerStats = [routed |-> 0, dropped |-> 0]
      /\ inputQueue = [w \in Workers |-> <<>>]
  BY DEF Init, RouterInit, WorkerInit
<1>2. Flow
  BY FlowInit
<1>3. Queued = {}
  <2>1. \A a \in Assets : Numbers(inputQueue[WorkerOf[a]], a) = {}
    BY <1>1, WorkerOfAssumption DEF Numbers
  <2>. QED
    BY <2>1 DEF Queued
<1>4. Countable /\ Sum(arrived) = 0 /\ Sum(processed) = 0 /\ Cardinality(Queued) = 0
  BY <1>1, <1>3, SumOfNothing, FS_EmptySet DEF Countable
<1>5. Accepted /\ Handled /\ Emptied
  BY <1>1, <1>4 DEF Accepted, Handled, Emptied
<1>. QED
  BY <1>2, <1>4, <1>5 DEF Counted

LEMMA CountedStep == Counted /\ [Next]_vars => Counted'
<1>. SUFFICES ASSUME Counted, [Next]_vars PROVE Counted'
  OBVIOUS
<1>1. Flow' /\ DataPlaneTypeOK'
  BY FlowStep DEF Counted, Flow
<1>2. ASSUME NEW a \in Assets, Arrive(a) PROVE Countable' /\ Emptied' /\ Accepted' /\ Handled'
  BY <1>2, RouteMessageCounted, RefuseMessageCounted DEF Arrive
<1>3. ASSUME Route PROVE Countable' /\ Emptied' /\ Accepted' /\ Handled'
  BY <1>1, <1>3, CollectCounted, RouteCounted, QuietCounted DEF Route
<1>4. ASSUME NEW w \in Workers, Work(w) PROVE Countable' /\ Emptied' /\ Accepted' /\ Handled'
  BY <1>1, <1>4, ProcessMessageCounted, QuietCounted DEF Work
<1>5. ASSUME NEW q \in Queries, QueryStep(q) PROVE Countable' /\ Emptied' /\ Accepted' /\ Handled'
  BY <1>1, <1>5, QuietCounted
<1>6. ASSUME StopRouter PROVE Countable' /\ Emptied' /\ Accepted' /\ Handled'
  BY <1>1, <1>6, CollectCounted, QuietCounted DEF StopRouter
<1>7. ASSUME StopManager \/ GetStats \/ (\E w \in Workers : ExitProcess(w)) \/ UNCHANGED vars
      PROVE  Countable' /\ Emptied' /\ Accepted' /\ Handled'
  BY <1>1, <1>7, QuietCounted
<1>8. Countable' /\ Emptied' /\ Accepted' /\ Handled'
  BY <1>2, <1>3, <1>4, <1>5, <1>6, <1>7 DEF Next
<1>. QED
  BY <1>1, <1>8 DEF Counted

(* No message vanishes uncounted and none is counted twice: what arrived   *)
(* has been routed or dropped or is with the router, and what was routed   *)
(* has been processed or is in its worker's queue.                         *)
THEOREM MessagesAlwaysAccounted == Spec => []MessagesAccounted
<1>1. Counted => MessagesAccounted
  BY DEF Counted, Emptied, Accepted, Handled, MessagesAccounted
<1>. QED
  BY <1>1, CountedInit, CountedStep, PTL DEF Spec

=============================================================================

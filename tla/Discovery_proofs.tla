-------------------------- MODULE Discovery_proofs --------------------------
(***************************************************************************)
(* What a fetch of the listing can miss, for any number of markets and any *)
(* size of a page.                                                         *)
(***************************************************************************)
EXTENDS Discovery, FiniteSetTheorems, TLAPS

(* Rank and Page, of any listing.                                          *)
RankIn(S, m) == Cardinality({n \in S : n > m})

PageIn(S, o) == {m \in S : RankIn(S, m) \in o..(o + PageSize - 1)}

LEMMA RankOfListed == \A m, o : Rank(m) = RankIn(listed, m) /\ Page(o) = PageIn(listed, o)
BY DEF Rank, RankIn, Page, PageIn

-----------------------------------------------------------------------------
(* Ranks.                                                                  *)

LEMMA MarketsFinite ==
    ASSUME NEW S \in SUBSET Markets
    PROVE  IsFiniteSet(S) /\ Cardinality(S) \in Nat
<1>1. MaxMarkets \in Int /\ 1 \in Int
  BY MaxMarketsAssumption
<1>2. IsFiniteSet(Markets)
  BY <1>1, FS_Interval DEF Markets
<1>. QED  BY <1>2, FS_Subset, FS_CardinalityType

LEMMA MarketsNatural == Markets \subseteq Nat
BY MaxMarketsAssumption DEF Markets

LEMMA RankNatural ==
    ASSUME NEW S \in SUBSET Markets, NEW m
    PROVE  RankIn(S, m) \in Nat
<1>1. {n \in S : n > m} \in SUBSET Markets
  OBVIOUS
<1>. QED  BY <1>1, MarketsFinite DEF RankIn

(* With more markets listed, a market ranks no better.                     *)
LEMMA RankGrows ==
    ASSUME NEW T \in SUBSET Markets, NEW S \in SUBSET T, NEW m
    PROVE  RankIn(S, m) <= RankIn(T, m)
<1> DEFINE after(U) == {n \in U : n > m}
<1>1. after(S) \in SUBSET after(T) /\ after(T) \in SUBSET Markets
  OBVIOUS
<1>2. Cardinality(after(S)) <= Cardinality(after(T))
  <2>. HIDE DEF after
  <2>. QED  BY <1>1, MarketsFinite, FS_Subset
<1>. QED  BY <1>2 DEF RankIn

(* With one less, by one better at most.                                   *)
LEMMA RankAfterClosing ==
    ASSUME NEW S \in SUBSET Markets, NEW c \in S, NEW m
    PROVE  RankIn(S, m) <= RankIn(S \ {c}, m) + 1
<1> DEFINE after == {n \in S : n > m}
           rest == {n \in S \ {c} : n > m}
<1>1. rest = after \ {c} /\ after \in SUBSET Markets
  OBVIOUS
<1>. HIDE DEF after, rest
<1>2. Cardinality(rest) = IF c \in after THEN Cardinality(after) - 1 ELSE Cardinality(after)
  BY <1>1, MarketsFinite, FS_RemoveElement
<1>3. Cardinality(after) \in Nat
  BY <1>1, MarketsFinite
<1>4. Cardinality(after) <= Cardinality(rest) + 1
  BY <1>2, <1>3
<1>. QED  BY <1>4 DEF RankIn, after, rest

(* A newer market ranks before an older one.                               *)
LEMMA RankDescends ==
    ASSUME NEW S \in SUBSET Markets, NEW m \in S, NEW n \in S, n > m
    PROVE  RankIn(S, n) < RankIn(S, m)
<1> DEFINE newer(x) == {y \in S : y > x}
<1>1. m \in Nat /\ n \in Nat /\ S \subseteq Nat
  BY MarketsNatural
<1>2. newer(n) \cup {n} \in SUBSET newer(m) /\ n \notin newer(n)
  <2>1. \A y \in newer(n) : y \in S /\ y > m
    BY <1>1
  <2>2. n \in newer(m) /\ ~(n > n)
    BY <1>1
  <2>. QED  BY <2>1, <2>2
<1>3. newer(n) \in SUBSET Markets /\ newer(m) \in SUBSET Markets
  OBVIOUS
<1>. HIDE DEF newer
<1>4. Cardinality(newer(n) \cup {n}) = Cardinality(newer(n)) + 1
  BY <1>2, <1>3, MarketsFinite, FS_AddElement
<1>5. Cardinality(newer(n) \cup {n}) <= Cardinality(newer(m))
  BY <1>2, <1>3, MarketsFinite, FS_Subset
<1>6. Cardinality(newer(n)) \in Nat /\ Cardinality(newer(m)) \in Nat
  BY <1>3, MarketsFinite
<1>7. Cardinality(newer(n)) < Cardinality(newer(m))
  BY <1>4, <1>5, <1>6
<1>. QED  BY <1>7 DEF RankIn, newer

LEMMA RanksDistinct ==
    ASSUME NEW S \in SUBSET Markets, NEW m \in S, NEW n \in S, RankIn(S, m) = RankIn(S, n)
    PROVE  m = n
<1>1. m \in Nat /\ n \in Nat
  BY MarketsNatural
<1>2. RankIn(S, m) \in Nat /\ RankIn(S, n) \in Nat
  BY RankNatural
<1>3. CASE n > m
  BY <1>2, <1>3, RankDescends
<1>4. CASE m > n
  BY <1>2, <1>4, RankDescends
<1>. QED  BY <1>1, <1>3, <1>4

(* The ranks are 0, 1, 2, ... without a gap.                               *)
LEMMA RanksContiguous ==
    ASSUME NEW S \in SUBSET Markets, NEW m \in S, NEW k \in 0..RankIn(S, m)
    PROVE  \E n \in S : RankIn(S, n) = k
<1> DEFINE N == Cardinality(S)
           rank == [n \in S |-> RankIn(S, n)]
<1>1. IsFiniteSet(S) /\ N \in Nat
  BY MarketsFinite
<1>2. \A n \in S : RankIn(S, n) \in 0..(N - 1)
  <2>. SUFFICES ASSUME NEW n \in S
                PROVE  RankIn(S, n) \in 0..(N - 1)
    OBVIOUS
  <2> DEFINE newer == {y \in S : y > n}
  <2>1. n \in Nat
    BY MarketsNatural
  <2>2. newer \in SUBSET S /\ n \notin newer
    BY <2>1
  <2>. HIDE DEF newer
  <2>3. Cardinality(newer) <= N /\ (N = Cardinality(newer) => S = newer)
    BY <1>1, <2>2, FS_Subset
  <2>4. Cardinality(newer) \in Nat
    BY <2>2, MarketsFinite
  <2>5. Cardinality(newer) # N
    BY <2>2, <2>3
  <2>. HIDE DEF N
  <2>6. Cardinality(newer) \in 0..(N - 1)
    BY <1>1, <2>3, <2>4, <2>5
  <2>. QED  BY <2>6 DEF RankIn, newer
<1>3. IsFiniteSet(0..(N - 1)) /\ Cardinality(0..(N - 1)) = N
  <2>. HIDE DEF N
  <2>1. IsFiniteSet(0..(N - 1)) /\ Cardinality(0..(N - 1)) = IF 0 > N - 1 THEN 0 ELSE (N - 1) - 0 + 1
    BY <1>1, FS_Interval
  <2>. QED  BY <1>1, <2>1
<1>4. rank \in Injection(S, 0..(N - 1))
  <2>1. \A a, b \in S : RankIn(S, a) = RankIn(S, b) => a = b
    BY RanksDistinct
  <2>. HIDE DEF N
  <2>. QED  BY <1>2, <2>1 DEF Injection, IsInjective
<1>5. rank \in Surjection(S, 0..(N - 1))
  <2>. HIDE DEF N, rank
  <2>. QED  BY <1>1, <1>3, <1>4, FS_Injection DEF N
<1>6. k \in 0..(N - 1)
  <2>. HIDE DEF N
  <2>. QED  BY <1>1, <1>2
<1>. QED  BY <1>5, <1>6 DEF Surjection

(* A page before a market that is listed beyond it is full.                *)
LEMMA PageFull ==
    ASSUME NEW S \in SUBSET Markets, NEW o \in Nat, NEW m \in S, RankIn(S, m) >= o + PageSize
    PROVE  Cardinality(PageIn(S, o)) = PageSize
<1> DEFINE P == PageIn(S, o)
           I == o..(o + PageSize - 1)
           rank == [n \in P |-> RankIn(S, n)]
<1>1. PageSize \in Nat \ {0} /\ RankIn(S, m) \in Nat
  BY PageSizeAssumption, RankNatural
<1>2. P \in SUBSET Markets
  BY DEF PageIn
<1>3. \A k \in I : \E n \in P : RankIn(S, n) = k
  <2>. SUFFICES ASSUME NEW k \in I
                PROVE  \E n \in P : RankIn(S, n) = k
    OBVIOUS
  <2>1. k \in 0..RankIn(S, m)
    BY <1>1
  <2>2. PICK n \in S : RankIn(S, n) = k
    BY <2>1, RanksContiguous
  <2>. QED  BY <2>2 DEF PageIn
<1>4. rank \in Surjection(P, I)
  <2>1. \A n \in P : RankIn(S, n) \in I
    BY DEF PageIn
  <2>. HIDE DEF P, I
  <2>. QED  BY <1>3, <2>1 DEF Surjection
<1>5. rank \in Injection(P, I)
  <2>1. \A a, b \in P : RankIn(S, a) = RankIn(S, b) => a = b
    BY RanksDistinct DEF PageIn
  <2>2. \A n \in P : RankIn(S, n) \in I
    BY DEF PageIn
  <2>. HIDE DEF P, I
  <2>. QED  BY <2>1, <2>2 DEF Injection, IsInjective
<1>6. Cardinality(I) = PageSize
  <2>1. o \in Int /\ o + PageSize - 1 \in Int /\ ~(o > o + PageSize - 1)
    BY <1>1
  <2>2. Cardinality(I) = IF o > o + PageSize - 1 THEN 0 ELSE (o + PageSize - 1) - o + 1
    BY <2>1, FS_Interval
  <2>. QED  BY <1>1, <2>1, <2>2
<1>. HIDE DEF P, I, rank
<1>7. IsFiniteSet(P)
  BY <1>2, MarketsFinite
<1>8. Cardinality(I) = Cardinality(P)
  BY <1>4, <1>5, <1>7, FS_Surjection
<1>. QED  BY <1>6, <1>8 DEF P

-----------------------------------------------------------------------------
(* The fetch.                                                              *)

(* What was listed all the while, lies on the pages already read, and yet  *)
(* has not been found.                                                     *)
Missed == {m \in Valid(throughout) \ found : RankIn(listed, m) < offset}

Fetching == pc \in {"requesting", "retrying"}

(* Every closing makes a fetch miss one market at most.                    *)
DiscoveryInv ==
    /\ TypeOK
    /\ ~Fetching => offset = 0
    /\ Cardinality(Missed) <= closings

LEMMA NothingMissedAtStart ==
    ASSUME TypeOK, offset = 0
    PROVE  Missed = {}
<1>1. \A m : RankIn(listed, m) \in Nat
  BY RankNatural, MaxMarketsAssumption DEF TypeOK, Markets
<1>. QED  BY <1>1 DEF Missed

LEMMA MissedFinite ==
    ASSUME DiscoveryInv
    PROVE  /\ listed \in SUBSET Markets /\ throughout \in SUBSET listed
           /\ Missed \in SUBSET Markets
           /\ IsFiniteSet(Missed) /\ Cardinality(Missed) \in Nat
           /\ opened \in Nat /\ offset \in Nat /\ closings \in Nat
<1>1. listed \in SUBSET Markets /\ throughout \in SUBSET listed
  BY MaxMarketsAssumption DEF DiscoveryInv, TypeOK, Markets
<1>2. Missed \in SUBSET Markets
  BY <1>1 DEF Missed, Valid
<1>. QED  BY <1>1, <1>2, MarketsFinite, MaxMarketsAssumption DEF DiscoveryInv, TypeOK

(* Missing no more than before.                                            *)
LEMMA MissedShrinks ==
    ASSUME DiscoveryInv, Missed' \in SUBSET Missed, closings' = closings
    PROVE  Cardinality(Missed') <= closings'
<1>1. Cardinality(Missed') <= Cardinality(Missed) /\ Cardinality(Missed') \in Nat
  BY MissedFinite, FS_Subset, FS_CardinalityType
<1>. QED  BY <1>1, MissedFinite DEF DiscoveryInv

LEMMA OpenMarketInv ==
    ASSUME DiscoveryInv, OpenMarket
    PROVE  DiscoveryInv'
<1>1. TypeOK'
  BY MaxMarketsAssumption DEF DiscoveryInv, OpenMarket, TypeOK, history
<1>2. listed \in SUBSET listed' /\ listed' \in SUBSET Markets
  BY <1>1, MaxMarketsAssumption DEF OpenMarket, TypeOK, Markets
<1>3. \A m : RankIn(listed, m) <= RankIn(listed', m)
  BY <1>2, RankGrows
<1>4. \A m : RankIn(listed, m) \in Nat /\ RankIn(listed', m) \in Nat
  BY <1>2, RankNatural
<1>5. Missed' \in SUBSET Missed
  <2>1. UNCHANGED <<kind, throughout, found, offset>> /\ offset \in Nat
    BY MissedFinite DEF OpenMarket, history
  <2>2. \A m : RankIn(listed', m) < offset' => RankIn(listed, m) < offset
    BY <1>3, <1>4, <2>1
  <2>. QED  BY <2>1, <2>2 DEF Missed, Valid
<1>6. Cardinality(Missed') <= closings'
  BY <1>5, MissedShrinks DEF OpenMarket, history
<1>. QED  BY <1>1, <1>6 DEF DiscoveryInv, OpenMarket, Fetching

(* The one market that a closing can add to those missed is the first of   *)
(* the page not yet read.                                                  *)
LEMMA CloseMarketInv ==
    ASSUME DiscoveryInv, NEW c \in Markets, CloseMarket(c)
    PROVE  DiscoveryInv'
<1>1. TypeOK'
  BY MissedFinite DEF DiscoveryInv, CloseMarket, TypeOK
<1>2. /\ c \in listed /\ listed' = listed \ {c} /\ throughout' = throughout \ {c}
      /\ UNCHANGED <<kind, opened, pc, offset, attempt, found, known>>
  BY DEF CloseMarket
<1>3. CASE ~Fetching
  <2>1. offset' = 0
    BY <1>2, <1>3 DEF DiscoveryInv
  <2>2. \A m : RankIn(listed', m) \in Nat
    BY <1>2, MissedFinite, RankNatural
  <2>3. Missed' = {}
    BY <2>1, <2>2 DEF Missed
  <2>4. Cardinality(Missed') <= closings'
    BY <1>1, <2>3, FS_EmptySet DEF TypeOK
  <2>. QED  BY <1>1, <1>2, <1>3, <2>1, <2>4 DEF DiscoveryInv
<1>4. CASE Fetching
  <2>1. closings' = closings + 1
    BY <1>4 DEF CloseMarket, Fetching
  <2>2. \A m : RankIn(listed, m) <= RankIn(listed', m) + 1
    BY <1>2, MissedFinite, RankAfterClosing
  <2>3. \A m : RankIn(listed, m) \in Nat /\ RankIn(listed', m) \in Nat
    BY <1>2, MissedFinite, RankNatural
  <2>4. \A m \in Missed' : m \in Missed \/ (m \in listed /\ RankIn(listed, m) = offset)
    <3>1. offset \in Nat /\ throughout \subseteq listed
      BY MissedFinite
    <3>2. \A m : RankIn(listed', m) < offset => RankIn(listed, m) < offset \/ RankIn(listed, m) = offset
      BY <2>2, <2>3, <3>1
    <3>3. \A m \in Missed' : m \in Valid(throughout) \ found /\ RankIn(listed', m) < offset
      BY <1>2 DEF Missed, Valid
    <3>. QED  BY <3>1, <3>2, <3>3 DEF Missed, Valid
  <2>5. PICK next : Missed' \in SUBSET (Missed \cup {next})
    <3>1. CASE \E n \in listed : RankIn(listed, n) = offset
      <4>1. PICK n \in listed : RankIn(listed, n) = offset
        BY <3>1
      <4>2. \A m \in listed : RankIn(listed, m) = offset => m = n
        BY <4>1, MissedFinite, RanksDistinct
      <4>. QED  BY <2>4, <4>2
    <3>2. CASE ~\E n \in listed : RankIn(listed, n) = offset
      BY <2>4, <3>2
    <3>. QED  BY <3>1, <3>2
  <2>6. /\ IsFiniteSet(Missed \cup {next})
        /\ Cardinality(Missed \cup {next}) <= Cardinality(Missed) + 1
    <3>1. IsFiniteSet(Missed) /\ Cardinality(Missed) \in Nat
      BY MissedFinite
    <3>2. /\ IsFiniteSet(Missed \cup {next})
          /\ Cardinality(Missed \cup {next}) =
                IF next \in Missed THEN Cardinality(Missed) ELSE Cardinality(Missed) + 1
      BY <3>1, FS_AddElement
    <3>. QED  BY <3>1, <3>2
  <2>7. Cardinality(Missed') <= Cardinality(Missed \cup {next}) /\ Cardinality(Missed') \in Nat
    BY <2>5, <2>6, FS_Subset, FS_CardinalityType
  <2>8. Cardinality(Missed \cup {next}) \in Nat
    BY <2>6, FS_CardinalityType
  <2>9. Cardinality(Missed') <= closings'
    BY <2>1, <2>6, <2>7, <2>8, MissedFinite DEF DiscoveryInv
  <2>. QED  BY <1>1, <1>2, <1>4, <2>9 DEF DiscoveryInv, Fetching
<1>. QED  BY <1>3, <1>4

(* Once the fetch is over nothing of it is left.                           *)
LEMMA EndFetchInv ==
    ASSUME DiscoveryInv, TypeOK', offset' = 0, closings' = 0
    PROVE  DiscoveryInv'
<1>1. \A m : RankIn(listed', m) \in Nat
  BY RankNatural, MaxMarketsAssumption DEF TypeOK, Markets
<1>2. Missed' = {}
  BY <1>1 DEF Missed
<1>. QED  BY <1>2, FS_EmptySet DEF DiscoveryInv

LEMMA PageInRange ==
    ASSUME DiscoveryInv, NEW o \in Nat, NEW m \in listed, ~(RankIn(listed, m) < o),
           RankIn(listed, m) < o + PageSize
    PROVE  m \in Page(o)
<1>1. RankIn(listed, m) \in Nat /\ PageSize \in Nat
  BY RankNatural, MissedFinite, PageSizeAssumption
<1>2. RankIn(listed, m) \in o..(o + PageSize - 1)
  BY <1>1
<1>. QED  BY <1>2, RankOfListed DEF PageIn

LEMMA PageOkInv ==
    ASSUME DiscoveryInv, NEW o \in Offsets, PageOk(o)
    PROVE  DiscoveryInv'
<1>1. o \in Nat /\ PageSize \in Nat /\ offset = o /\ Fetching /\ UNCHANGED listing
  BY MaxMarketsAssumption, PageSizeAssumption DEF Offsets, PageOk, Fetching
<1>2. Valid(Page(o)) \subseteq Markets
  BY MissedFinite DEF Valid, Page
<1>3. CASE EndFetch(found \cup Valid(Page(o)))
  <2>1. TypeOK'
    BY <1>1, <1>2, <1>3, MaxRetriesAssumption DEF EndFetch, Forget, listing, DiscoveryInv, TypeOK
  <2>. QED  BY <1>3, <2>1, EndFetchInv DEF EndFetch, Forget
<1>4. CASE /\ found' = found \cup Valid(Page(o))
           /\ offset' = o + PageSize
           /\ attempt' = 0
           /\ UNCHANGED <<pc, known, history>>
  <2>1. TypeOK'
    BY <1>1, <1>2, <1>4, MaxRetriesAssumption DEF listing, history, DiscoveryInv, TypeOK
  <2>2. UNCHANGED <<kind, listed, throughout, closings, pc>>
    BY <1>1, <1>4 DEF listing, history
  <2>3. \A m \in listed : RankIn(listed, m) \in Nat
    BY MissedFinite, RankNatural
  <2>4. \A m \in Valid(throughout) \ found' : RankIn(listed, m) < o + PageSize => RankIn(listed, m) < o
    BY <1>1, <1>4, PageInRange, MissedFinite DEF Valid
  <2>5. Missed' \in SUBSET Missed
    BY <1>1, <1>4, <2>2, <2>4 DEF Missed, Valid
  <2>6. Cardinality(Missed') <= closings'
    BY <2>2, <2>5, MissedShrinks
  <2>. QED  BY <1>1, <2>1, <2>2, <2>6 DEF DiscoveryInv, Fetching
<1>. QED  BY <1>3, <1>4 DEF PageOk

LEMMA UnchangedInv ==
    ASSUME DiscoveryInv, TypeOK', UNCHANGED <<kind, listed, throughout, found, closings>>,
           offset' = offset, ~Fetching' => offset' = 0
    PROVE  DiscoveryInv'
<1>1. Missed' = Missed
  BY DEF Missed, Valid
<1>. QED  BY <1>1 DEF DiscoveryInv

LEMMA OtherStepInv ==
    ASSUME DiscoveryInv, BeginFetch \/ PageClientError \/ RetryOver \/ PageOtherError \/ Stop
    PROVE  DiscoveryInv'
<1>. USE MaxRetriesAssumption DEF DiscoveryInv, TypeOK, listing, history, Forget, EndFetch
<1>1. CASE BeginFetch
  <2>1. TypeOK' /\ offset' = 0 /\ Fetching' /\ closings' = closings
    BY <1>1 DEF BeginFetch, Fetching
  <2>2. \A m : RankIn(listed', m) \in Nat
    BY <2>1, RankNatural, MaxMarketsAssumption DEF Markets
  <2>3. Missed' = {}
    BY <2>1, <2>2 DEF Missed
  <2>. QED  BY <2>1, <2>3, FS_EmptySet
<1>2. CASE PageClientError
  <2>1. CASE attempt < MaxRetries - 1
    <3>1. TypeOK'
      <4>1. attempt' \in 0..(MaxRetries - 1)
        BY <1>2, <2>1 DEF PageClientError
      <4>. QED  BY <1>2, <2>1, <4>1 DEF PageClientError
    <3>2. UNCHANGED <<kind, listed, throughout, found, closings, offset>> /\ Fetching'
      BY <1>2, <2>1 DEF PageClientError, Fetching
    <3>. QED  BY <3>1, <3>2, UnchangedInv
  <2>2. CASE ~(attempt < MaxRetries - 1)
    <3>1. TypeOK' /\ offset' = 0 /\ closings' = 0
      BY <1>2, <2>2 DEF PageClientError
    <3>. QED  BY <3>1, EndFetchInv
  <2>. QED  BY <2>1, <2>2
<1>3. CASE RetryOver
  <2>1. TypeOK' /\ UNCHANGED <<kind, listed, throughout, found, closings, offset>> /\ Fetching'
    BY <1>3 DEF RetryOver, Fetching
  <2>. QED  BY <2>1, UnchangedInv
<1>4. CASE PageOtherError
  <2>1. TypeOK' /\ offset' = 0 /\ closings' = 0
    BY <1>4 DEF PageOtherError
  <2>. QED  BY <2>1, EndFetchInv
<1>5. CASE Stop
  <2>1. TypeOK' /\ offset' = 0 /\ closings' = 0
    BY <1>5 DEF Stop
  <2>. QED  BY <2>1, EndFetchInv
<1>. QED  BY <1>1, <1>2, <1>3, <1>4, <1>5

(* The inductive invariant: see Missed.                                    *)
THEOREM DiscoveryInvariant == Spec => []DiscoveryInv
<1>1. Init => DiscoveryInv
  <2>. SUFFICES ASSUME Init
                PROVE  DiscoveryInv
    OBVIOUS
  <2>1. TypeOK
    BY MaxMarketsAssumption, MaxRetriesAssumption DEF Init, TypeOK
  <2>2. Missed = {}
    BY <2>1, NothingMissedAtStart DEF Init
  <2>. QED  BY <2>1, <2>2, FS_EmptySet DEF Init, DiscoveryInv
<1>2. DiscoveryInv /\ [Next]_vars => DiscoveryInv'
  <2>. SUFFICES ASSUME DiscoveryInv, [Next]_vars
                PROVE  DiscoveryInv'
    OBVIOUS
  <2>1. CASE Next
    BY <2>1, OpenMarketInv, CloseMarketInv, PageOkInv, OtherStepInv DEF Next
  <2>2. CASE UNCHANGED vars
    <3>1. TypeOK' /\ UNCHANGED <<kind, listed, throughout, found, closings, offset, pc>>
      BY <2>2 DEF vars, listing, history, DiscoveryInv, TypeOK
    <3>. QED  BY <3>1, UnchangedInv DEF DiscoveryInv, Fetching
  <2>. QED  BY <2>1, <2>2
<1>. QED  BY <1>1, <1>2, PTL DEF Spec

(* A fetch that succeeds (fetch_active_markets) misses no more of the      *)
(* markets listed all the while than markets were closed meanwhile,        *)
(* unless a full page without a valid market ended it.                     *)
THEOREM NothingSkippedCorrect == Spec => NothingSkipped
<1> DEFINE Step == \A o \in Offsets : PageOk(o) /\ pc' = "sleeping" /\ ~Blank(Page(o)) =>
        Cardinality(Valid(throughout) \ known') <= closings
<1>1. ASSUME DiscoveryInv, NEW o \in Offsets, PageOk(o), pc' = "sleeping", ~Blank(Page(o))
      PROVE  Cardinality(Valid(throughout) \ known') <= closings
  <2>1. o \in Nat /\ offset = o /\ pc = "requesting" /\ PageSize \in Nat
    BY <1>1, MaxMarketsAssumption, PageSizeAssumption DEF Offsets, PageOk
  <2>2. /\ Valid(Page(o)) = {} \/ Cardinality(Page(o)) < PageSize
        /\ known' = known \cup (found \cup Valid(Page(o)))
    BY <1>1, <2>1 DEF PageOk, EndFetch
  <2>3. Cardinality(Page(o)) # PageSize
    <3>1. Page(o) \in SUBSET Markets
      BY <1>1, MissedFinite DEF Page
    <3>2. Cardinality(Page(o)) \in Nat
      BY <3>1, MarketsFinite
    <3>. QED  BY <1>1, <2>1, <2>2, <3>2 DEF Blank
  <2>4. \A m \in listed : RankIn(listed, m) \in Nat /\ RankIn(listed, m) < o + PageSize
    BY <1>1, <2>1, <2>3, MissedFinite, RankNatural, PageFull, RankOfListed
  <2>5. Valid(throughout) \ known' \in SUBSET Missed
    BY <1>1, <2>1, <2>2, <2>4, PageInRange, MissedFinite DEF Missed, Valid
  <2>6. /\ Cardinality(Valid(throughout) \ known') <= Cardinality(Missed)
        /\ Cardinality(Valid(throughout) \ known') \in Nat
    BY <1>1, <2>5, MissedFinite, FS_Subset, FS_CardinalityType
  <2>. QED  BY <1>1, <2>6, MissedFinite DEF DiscoveryInv
<1>2. DiscoveryInv => [Step]_vars
  BY <1>1
<1>. QED  BY DiscoveryInvariant, <1>2, PTL DEF NothingSkipped
=============================================================================

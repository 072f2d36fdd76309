------------------------ MODULE AssetChannel_proofs ------------------------
(***************************************************************************)
(* The channel neither reorders nor repeats messages.                      *)
(***************************************************************************)
EXTENDS AssetChannel, TLAPS

ChannelInv == ChannelTypeOK /\ ChannelOrdered

LEMMA ChannelInvInit == ChannelInit => ChannelInv
BY DEF ChannelInit, ChannelInv, ChannelTypeOK, ChannelOrdered

(* What a step does to one asset's channel, with the others untouched.     *)
LEMMA ChannelInvStep == ChannelInv /\ [ChannelNext]_channelVars => ChannelInv'
<1> SUFFICES ASSUME ChannelInv, [ChannelNext]_channelVars PROVE ChannelInv'
  OBVIOUS
<1> USE DEF ChannelInv, ChannelTypeOK, ChannelOrdered
<1>1. ASSUME NEW a \in Assets, Accept(a) PROVE ChannelInv'
  BY <1>1 DEF Accept
<1>2. ASSUME NEW a \in Assets, Refuse(a) PROVE ChannelInv'
  BY <1>2 DEF Refuse
<1>3. ASSUME NEW a \in Assets, Deliver(a) PROVE ChannelInv'
  <2>1. PICK n \in transit[a] :
            /\ \A k \in transit[a] : n <= k
            /\ seen' = [seen EXCEPT ![a] = n]
            /\ transit' = [transit EXCEPT ![a] = @ \ {n}]
            /\ arrived' = arrived
    BY <1>3 DEF Deliver
  <2>2. \A k \in transit[a] \ {n} : n < k
    BY <2>1
  <2>. QED
    BY <2>1, <2>2
<1>4. ASSUME NEW a \in Assets, Lose(a) PROVE ChannelInv'
  BY <1>4 DEF Lose
<1>5. CASE UNCHANGED channelVars
  BY <1>5 DEF channelVars
<1>. QED
  BY <1>1, <1>2, <1>3, <1>4, <1>5 DEF ChannelNext

(* The numbers under way are all above the last one the book has seen.     *)
THEOREM ChannelKeepsOrder == ChannelSpec => []ChannelOrdered
<1>1. ChannelInv => ChannelOrdered
  BY DEF ChannelInv
<1>. QED
  BY <1>1, ChannelInvInit, ChannelInvStep, PTL DEF ChannelSpec

(* So no order book is given a message twice, or one older than a message  *)
(* it has already been given.                                              *)
THEOREM ChannelNeverGoesBack == ChannelSpec => BooksGoForward
<1>1. ASSUME ChannelInv, [ChannelNext]_channelVars
      PROVE  [\A a \in Assets : seen'[a] # seen[a] => seen[a] < seen'[a]]_channelVars
  <2>1. ASSUME NEW a \in Assets, Deliver(a), NEW b \in Assets, seen'[b] # seen[b]
        PROVE  seen[b] < seen'[b]
    <3>1. PICK n \in transit[a] : seen' = [seen EXCEPT ![a] = n]
      BY <2>1 DEF Deliver
    <3>2. seen[a] < n
      BY <1>1 DEF ChannelInv, ChannelOrdered
    <3>3. b = a /\ seen'[a] = n
      BY <1>1, <2>1, <3>1 DEF ChannelInv, ChannelTypeOK
    <3>. QED
      BY <3>2, <3>3
  <2>2. ASSUME NEW a \in Assets, Accept(a) \/ Refuse(a) \/ Lose(a)
        PROVE  seen' = seen
    BY <2>2 DEF Accept, Refuse, Lose
  <2>. QED
    BY <1>1, <2>1, <2>2 DEF ChannelNext
<1>. QED
  BY <1>1, ChannelInvInit, ChannelInvStep, PTL DEF ChannelSpec, BooksGoForward

=============================================================================

---------------------------- MODULE AssetChannel ----------------------------
(***************************************************************************)
(* What the router and the workers promise to whoever receives messages:   *)
(* for each asset, a channel to its order book that may lose messages but  *)
(* neither reorders nor repeats them.  The messages of an asset are        *)
(* numbered in the order of their arrival.                                 *)
(***************************************************************************)
EXTENDS Naturals

CONSTANTS
    Assets,
    MaxMessages     \* asset -> bound on its messages, for TLC

VARIABLES
    arrived,        \* asset -> the number of its messages so far
    transit,        \* asset -> the numbers of those under way
    seen            \* asset -> the number of the last one its book has seen

channelVars == <<arrived, transit, seen>>

ChannelTypeOK ==
    /\ arrived \in [Assets -> Nat]
    /\ transit \in [Assets -> SUBSET Nat]
    /\ seen \in [Assets -> Nat]

ChannelInit ==
    /\ arrived = [a \in Assets |-> 0]
    /\ transit = [a \in Assets |-> {}]
    /\ seen = [a \in Assets |-> 0]

Accept(a) ==
    /\ arrived[a] < MaxMessages[a]
    /\ arrived' = [arrived EXCEPT ![a] = @ + 1]
    /\ transit' = [transit EXCEPT ![a] = @ \cup {arrived[a] + 1}]
    /\ seen' = seen

Refuse(a) ==
    /\ arrived[a] < MaxMessages[a]
    /\ arrived' = [arrived EXCEPT ![a] = @ + 1]
    /\ UNCHANGED <<transit, seen>>

(* The book is given the first message under way, ...                      *)
Deliver(a) ==
    \E n \in transit[a] :
        /\ \A k \in transit[a] : n <= k
        /\ seen' = [seen EXCEPT ![a] = n]
        /\ transit' = [transit EXCEPT ![a] = @ \ {n}]
        /\ arrived' = arrived

(* ... and any may be lost.                                                *)
Lose(a) ==
    /\ \E n \in transit[a] : transit' = [transit EXCEPT ![a] = @ \ {n}]
    /\ UNCHANGED <<arrived, seen>>

ChannelNext == \E a \in Assets : Accept(a) \/ Refuse(a) \/ Deliver(a) \/ Lose(a)

ChannelSpec == ChannelInit /\ [][ChannelNext]_channelVars

-----------------------------------------------------------------------------
(* A book has seen none of the messages under way, nor any that came after *)
(* one of them.                                                            *)
ChannelOrdered ==
    \A a \in Assets :
        /\ seen[a] <= arrived[a]
        /\ \A n \in transit[a] : seen[a] < n /\ n <= arrived[a]

(* A book never goes back, nor is it given a message twice.                *)
BooksGoForward ==
    [][\A a \in Assets : seen'[a] # seen[a] => seen[a] < seen'[a]]_channelVars

=============================================================================

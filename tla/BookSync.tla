------------------------------ MODULE BookSync ------------------------------
(***************************************************************************)
(* How the local order book of an asset follows the exchange's.            *)
(*                                                                         *)
(* An asset may be subscribed on several connections at once: while it is  *)
(* recycled, on the old one and on the new one, and each brings it every   *)
(* change.  A connection that subscribes first brings a BOOK message, then *)
(* each change as a PRICE_CHANGE; the connections do not keep pace with    *)
(* each other; a connection that closes, or reconnects, takes with it what *)
(* it had not delivered; and the router may drop what is delivered.        *)
(*                                                                         *)
(* The messages of both go through the same queues to the same worker      *)
(* (see RefinesChannel in DataPlane), so here a message that is delivered  *)
(* is applied at once.                                                     *)
(*                                                                         *)
(* The parser scales the exchange's prices to thousandths and its sizes to *)
(* hundredths, and cuts off the rest: prices of a finer tick merge, and a  *)
(* size may scale to 0.                                                    *)
(***************************************************************************)
EXTENDS OrderBook

CONSTANTS
    Ticks,          \* the exchange's prices
    Sizes,          \* the exchange's sizes
    ScalePrice,     \* scale_price: tick -> one of Prices
    ScaleSize,      \* scale_size: size -> scaled size
    AskCeiling,     \* what is reported, scaled, as best ask when there is none
    Feeds,          \* subscriptions of the asset, one per connection
    MaxChanges,     \* bound on the changes at the exchange, for TLC
    MaxOpens        \* bound on the subscriptions, for TLC

ASSUME TicksAssumption == Ticks \subseteq Nat
ASSUME SizesAssumption == Sizes \subseteq Nat \ {0}
ASSUME ScalePriceAssumption ==
    ScalePrice \in [Ticks -> Prices] /\ Prices = {ScalePrice[t] : t \in Ticks}
ASSUME ScaleSizeAssumption ==
    ScaleSize \in [Sizes \cup {0} -> Nat] /\ ScaleSize[0] = 0
ASSUME AskCeilingAssumption == AskCeiling \in Nat

VARIABLES
    market,         \* the exchange's book: [bids, asks]
    now,            \* the exchange's clock
    feed,           \* feed -> what it is yet to deliver, or Closed
    opens,          \* number of subscriptions so far
    book,           \* the worker's book, or NoBook
    tainted,        \* ghost: a message was lost, and no BOOK has made up for it
    inStepWith,     \* ghost: the market as of the last message applied, when
                    \* the same feed has brought all of them since its BOOK
    source          \* ghost: that feed, or NoFeed

vars == <<market, now, feed, opens, book, tainted, inStepWith, source>>

Closed == <<[kind |-> "closed"]>>
NoBook == [kind |-> "none"]
NoFeed == "none"

IsOpen(f) == feed[f] # Closed

RawSide == [Ticks -> Sizes \cup {0}]

RawLevels(raw) == {t \in Ticks : raw[t] > 0}

Market == {m \in [bids : RawSide, asks : RawSide] :
              \A t \in RawLevels(m.bids), u \in RawLevels(m.asks) : t < u}

(* The ticks that merge into a price.                                      *)
AtPrice(p) == {t \in Ticks : ScalePrice[t] = p}

(* The sides that the levels of a BOOK may come to, by the order in which  *)
(* they are listed: the last one of a price counts, and one whose size has *)
(* become 0 is left out.                                                   *)
Scaled(raw) ==
    LET listed(p) == {t \in AtPrice(p) : ScaleSize[raw[t]] > 0}
    IN  {side \in [Prices -> {ScaleSize[s] : s \in Sizes \cup {0}}] :
            \A p \in Prices : IF listed(p) = {}
                              THEN side[p] = 0
                              ELSE \E t \in listed(p) : side[p] = ScaleSize[raw[t]]}

(* A BOOK, parsed (_parse_book_snapshot).  It keeps, as a ghost, the       *)
(* market it was made from.                                                *)
BookMessage(bids, asks, m, t) ==
    [kind |-> "BOOK", bids |-> bids, asks |-> asks, ts |-> t, market |-> m]

(* The best prices a message of the exchange reports, parsed.              *)
ReportedBid(m) == IF RawLevels(m.bids) = {} THEN 0 ELSE ScalePrice[Max(RawLevels(m.bids))]
ReportedAsk(m) ==
    IF RawLevels(m.asks) = {} THEN AskCeiling ELSE ScalePrice[Min(RawLevels(m.asks))]

BookSyncTypeOK ==
    /\ market \in Market
    /\ now \in Nat
    /\ opens \in 0..MaxOpens
    /\ book = NoBook \/ (book \in Book /\ Len(book.history) <= MaxHistory)
    /\ tainted \in BOOLEAN
    /\ source \in Feeds \cup {NoFeed}
    /\ source # NoFeed => inStepWith \in Market

Init ==
    /\ market = [bids |-> [t \in Ticks |-> 0], asks |-> [t \in Ticks |-> 0]]
    /\ now = 0
    /\ feed = [f \in Feeds |-> Closed]
    /\ opens = 0
    /\ book = NoBook
    /\ tainted = FALSE
    /\ inStepWith = market
    /\ source = NoFeed

-----------------------------------------------------------------------------
(* The exchange changes a level and tells every open feed; the message is  *)
(* as _parse_price_change yields it.                                       *)
Change(side, t, s) ==
    LET next == IF side = "BUY" THEN [market EXCEPT !.bids[t] = s] ELSE [market EXCEPT !.asks[t] = s]
        message == [kind |-> "PRICE_CHANGE", side |-> side,
                    price |-> ScalePrice[t], size |-> ScaleSize[s],
                    bestBid |-> ReportedBid(next), bestAsk |-> ReportedAsk(next),
                    ts |-> now + 1, market |-> next]
    IN  /\ now < MaxChanges
        /\ next \in Market \ {market}
        /\ market' = next
        /\ now' = now + 1
        /\ feed' = [f \in Feeds |-> IF IsOpen(f) THEN Append(feed[f], message) ELSE feed[f]]
        /\ UNCHANGED <<opens, book, tainted, inStepWith, source>>

(* A connection subscribes.                                                *)
Open(f) ==
    /\ ~IsOpen(f)
    /\ opens < MaxOpens
    /\ opens' = opens + 1
    /\ \E bids \in Scaled(market.bids), asks \in Scaled(market.asks) :
           feed' = [feed EXCEPT ![f] = <<BookMessage(bids, asks, market, now)>>]
    /\ UNCHANGED <<market, now, book, tainted, inStepWith, source>>

(* It is closed or lost, with whatever it had not delivered.               *)
Close(f) ==
    /\ IsOpen(f)
    /\ feed' = [feed EXCEPT ![f] = Closed]
    /\ tainted' = (tainted \/ feed[f] # <<>>)
    /\ UNCHANGED <<market, now, opens, book, inStepWith, source>>

(* _process_book_snapshot                                                  *)
ProcessBookSnapshot(f) ==
    LET m == Head(feed[f])
    IN  /\ feed[f] # <<>> /\ m.kind = "BOOK"
        /\ feed' = [feed EXCEPT ![f] = Tail(@)]
        /\ book' = ApplySnapshot(IF book = NoBook THEN NewBook ELSE book, m)
        /\ tainted' = FALSE
        /\ inStepWith' = m.market
        /\ source' = f
        /\ UNCHANGED <<market, now, opens>>

(* _process_price_change: skipped as long as there is no book.             *)
ProcessPriceChange(f) ==
    LET m == Head(feed[f])
    IN  /\ feed[f] # <<>> /\ m.kind = "PRICE_CHANGE"
        /\ feed' = [feed EXCEPT ![f] = Tail(@)]
        /\ book' = IF book = NoBook THEN book ELSE ApplyPriceChange(book, m)
        /\ inStepWith' = m.market
        /\ source' = IF source = f THEN f ELSE NoFeed
        /\ UNCHANGED <<market, now, opens, tainted>>

(* The message is dropped on its way, a queue being full.                  *)
Lose(f) ==
    /\ IsOpen(f) /\ feed[f] # <<>>
    /\ feed' = [feed EXCEPT ![f] = Tail(@)]
    /\ tainted' = TRUE
    /\ source' = IF source = f THEN NoFeed ELSE source
    /\ UNCHANGED <<market, now, opens, book, inStepWith>>

Next ==
    \/ \E side \in {"BUY", "SELL"}, t \in Ticks, s \in Sizes \cup {0} : Change(side, t, s)
    \/ \E f \in Feeds :
           Open(f) \/ Close(f) \/ ProcessBookSnapshot(f) \/ ProcessPriceChange(f) \/ Lose(f)

Spec == Init /\ [][Next]_vars

-----------------------------------------------------------------------------
(* What the book can show of a market, its conversion being what it is: at *)
(* each price the size, scaled, of one of the ticks that merge into it     *)
(* (none when that is 0), and as best price that of its own levels or the  *)
(* one that the exchange reports, which names a level of the exchange even *)
(* when its size has become 0 and the book does without it.  When no two   *)
(* ticks merge, the levels are the market's, each one scaled               *)
(* (ShowsEveryTick in BookSync_proofs).                                    *)
Shows(b, m) ==
    /\ \A p \in Prices : \E t \in AtPrice(p) : b.bids[p] = ScaleSize[m.bids[t]]
    /\ \A p \in Prices : \E t \in AtPrice(p) : b.asks[p] = ScaleSize[m.asks[t]]
    /\ Read(b).bestBid \in {Highest(b.bids), ReportedBid(m)}
    /\ Read(b).bestAsk \in {Lowest(b.asks), ReportedAsk(m)}

(* When every subscription has delivered what it had, and no message was   *)
(* lost for which no BOOK has made up, the book shows the exchange's, as   *)
(* far as the conversion lets it, however the messages of an old and a new *)
(* connection were interleaved and repeated.                               *)
Converges ==
    /\ \E f \in Feeds : IsOpen(f)
    /\ \A f \in Feeds : feed[f] \in {Closed, <<>>}
    /\ ~tainted
    => book # NoBook /\ Shows(book, market)

(* As long as one connection brings the messages, none of them lost, the   *)
(* book shows at every step the one the exchange had when it sent the last *)
(* of them.                                                                *)
InStep == source # NoFeed => Shows(book, inStepWith)

(* However late and out of order the messages of two connections come, the *)
(* points of the history are in the order of time, at least the interval   *)
(* apart, and the last one is no more than an interval old.                *)
HistoryPaced ==
    book # NoBook =>
        /\ \A i \in 2..Len(book.history) :
               book.history[i].timestamp - book.history[i-1].timestamp >= Interval
        /\ book.ts - Last(book.history).timestamp < Interval

=============================================================================

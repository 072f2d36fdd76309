----------------------------- MODULE OrderBook -----------------------------
(***************************************************************************)
(* An order book (src/orderbook/orderbook.py) and what a message does to   *)
(* it.  A side is a function from prices to sizes, 0 where there is no     *)
(* level: the code keeps sorted dictionaries, that of the bids keyed by    *)
(* the negated price.                                                      *)
(***************************************************************************)
EXTENDS Integers, SequencesExt, FiniteSetsExt

CONSTANTS
    Prices,         \* scaled prices
    Interval,       \* _history_interval_ms (30000)
    MaxHistory      \* maxlen of _history (100)

ASSUME PricesAssumption == Prices \subseteq Nat
ASSUME HistoryAssumption == Interval \in Nat \ {0} /\ MaxHistory \in Nat \ {0}

None == -1

OptionalPrice == Nat \cup {None}

Side == [Prices -> Nat]

HistoryPoint ==
    [timestamp : Nat, bestBid : OptionalPrice, bestAsk : OptionalPrice,
     spread : Int, bidDepth : Nat, askDepth : Nat]

Book ==
    [bids : Side, asks : Side, bestBid : OptionalPrice, bestAsk : OptionalPrice,
     cacheValid : BOOLEAN, ts : Nat, history : Seq(HistoryPoint)]

NewBook ==
    [bids |-> [p \in Prices |-> 0], asks |-> [p \in Prices |-> 0],
     bestBid |-> None, bestAsk |-> None, cacheValid |-> FALSE,
     ts |-> 0, history |-> <<>>]

-----------------------------------------------------------------------------
Levels(side) == {p \in Prices : side[p] > 0}

Highest(side) == IF Levels(side) = {} THEN None ELSE Max(Levels(side))

Lowest(side) == IF Levels(side) = {} THEN None ELSE Min(Levels(side))

(* _recompute_cache                                                        *)
RecomputeCache(b) ==
    [b EXCEPT !.bestBid = Highest(b.bids), !.bestAsk = Lowest(b.asks), !.cacheValid = TRUE]

(* best_bid and best_ask fill the cache when it is not valid.              *)
Read(b) == IF b.cacheValid THEN b ELSE RecomputeCache(b)

(* The spread, for a book whose cache is valid; it may be negative.        *)
Spread(b) ==
    IF None \in {b.bestBid, b.bestAsk} THEN None ELSE b.bestAsk - b.bestBid

Depth(side) == FoldFunction(+, 0, side)

PointOf(b) ==
    [timestamp |-> b.ts, bestBid |-> b.bestBid, bestAsk |-> b.bestAsk,
     spread |-> Spread(b), bidDepth |-> Depth(b.bids), askDepth |-> Depth(b.asks)]

(* Appending to a deque with a maxlen.                                     *)
Push(history, point) ==
    Append(IF Len(history) = MaxHistory THEN Tail(history) ELSE history, point)

FaultyDue(b) == b.history = <<>> \/ b.ts - Head(b.history).timestamp >= Interval

Due(b) == b.history = <<>> \/ b.ts - Last(b.history).timestamp >= Interval

(* _maybe_capture_snapshot                                                 *)
MaybeCaptureSnapshot(b) ==
    IF Due(b) THEN [Read(b) EXCEPT !.history = Push(@, PointOf(Read(b)))] ELSE b

-----------------------------------------------------------------------------
FaultyApplySnapshot(b, m) ==
    MaybeCaptureSnapshot(
        [b EXCEPT !.bids = [p \in Prices |-> Max({b.bids[p], m.bids[p]})],
                  !.asks = [p \in Prices |-> Max({b.asks[p], m.asks[p]})],
                  !.ts = m.ts,
                  !.bestBid = None, !.bestAsk = None, !.cacheValid = FALSE])

(* apply_snapshot: both sides replaced, the cache invalidated.             *)
ApplySnapshot(b, m) ==
    MaybeCaptureSnapshot(
        [b EXCEPT !.bids = m.bids, !.asks = m.asks, !.ts = m.ts,
                  !.bestBid = None, !.bestAsk = None, !.cacheValid = FALSE])

FaultyApplyPriceChange(b, m) ==
    LET changed == IF m.side = "BUY" THEN [b EXCEPT !.bids[m.price] = m.size]
                                     ELSE [b EXCEPT !.asks[m.price] = m.size]
    IN  MaybeCaptureSnapshot([changed EXCEPT !.ts = m.ts])

(* apply_price_change: one level set, or removed when its size is 0; the   *)
(* best prices are those the message reports.                              *)
ApplyPriceChange(b, m) ==
    LET changed == IF m.side = "BUY" THEN [b EXCEPT !.bids[m.price] = m.size]
                                     ELSE [b EXCEPT !.asks[m.price] = m.size]
    IN  MaybeCaptureSnapshot(
            [changed EXCEPT !.bestBid = m.bestBid, !.bestAsk = m.bestAsk,
                            !.cacheValid = TRUE, !.ts = m.ts])

=============================================================================

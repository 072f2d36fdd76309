-------------------------- MODULE BookSync_proofs --------------------------
(***************************************************************************)
(* Proofs about BookSync: what an order book keeps through the messages of *)
(* several connections, late, repeated and lost ones included.             *)
(***************************************************************************)
EXTENDS BookSync, TLAPS

(* A record with the fields of a book, its sides typed.  Of the other      *)
(* fields nothing is said: neither a best price nor a depth is needed to   *)
(* know which levels there are.                                            *)
IsBook(b) ==
    /\ DOMAIN b = {"bids", "asks", "bestBid", "bestAsk", "cacheValid", "ts", "history"}
    /\ b.bids \in Side /\ b.asks \in Side

LEMMA NewBookIsBook == IsBook(NewBook) /\ NewBook.history = <<>>
BY DEF IsBook, NewBook, Side

LEMMA NoBookIsNoBook ==
    ASSUME NEW b, IsBook(b)
    PROVE  b # NoBook
<1>1. DOMAIN NoBook = {"kind"}
  BY DEF NoBook
<1>. QED
  BY <1>1 DEF IsBook

-----------------------------------------------------------------------------
(* What _maybe_capture_snapshot does to a book: its levels, its time and   *)
(* the best prices it gives are as before, and the history has one more    *)
(* point when one is due.                                                  *)

LEMMA RecomputeCacheEffect ==
    ASSUME NEW b, IsBook(b), NEW r, r = RecomputeCache(b)
    PROVE  /\ IsBook(r)
           /\ r.bids = b.bids /\ r.asks = b.asks /\ r.ts = b.ts /\ r.history = b.history
           /\ r.cacheValid = TRUE /\ r.bestBid = Highest(b.bids) /\ r.bestAsk = Lowest(b.asks)
BY DEF IsBook, RecomputeCache

LEMMA ReadEffect ==
    ASSUME NEW b, IsBook(b), NEW r, r = Read(b)
    PROVE  /\ IsBook(r)
           /\ r.bids = b.bids /\ r.asks = b.asks /\ r.ts = b.ts /\ r.history = b.history
           /\ Read(r) = r
<1>1. CASE b.cacheValid
  BY <1>1 DEF Read
<1>2. CASE ~b.cacheValid
  <2>1. r = RecomputeCache(b)
    BY <1>2 DEF Read
  <2>2. /\ IsBook(r)
        /\ r.bids = b.bids /\ r.asks = b.asks /\ r.ts = b.ts /\ r.history = b.history
        /\ r.cacheValid = TRUE
    BY <2>1, RecomputeCacheEffect
  <2>. QED
    BY <2>2 DEF Read
<1>. QED
  BY <1>1, <1>2

LEMMA HistoryEffect ==
    ASSUME NEW b, IsBook(b), NEW h, NEW r, r = [b EXCEPT !.history = h]
    PROVE  /\ IsBook(r)
           /\ r.bids = b.bids /\ r.asks = b.asks /\ r.ts = b.ts /\ r.history = h
           /\ r.cacheValid = b.cacheValid /\ r.bestBid = b.bestBid /\ r.bestAsk = b.bestAsk
BY DEF IsBook

LEMMA CaptureEffect ==
    ASSUME NEW b, IsBook(b), NEW r, r = MaybeCaptureSnapshot(b)
    PROVE  /\ IsBook(r)
           /\ r.bids = b.bids /\ r.asks = b.asks /\ r.ts = b.ts
           /\ Read(r).bestBid = Read(b).bestBid /\ Read(r).bestAsk = Read(b).bestAsk
           /\ ~Due(b) => r.history = b.history
           /\ Due(b) => \E point : /\ point.timestamp = b.ts
                                   /\ r.history = Push(b.history, point)
<1>1. CASE ~Due(b)
  BY <1>1 DEF MaybeCaptureSnapshot
<1>2. CASE Due(b)
  <2>1. PICK c : c = Read(b)
    OBVIOUS
  <2>2. /\ IsBook(c)
        /\ c.bids = b.bids /\ c.asks = b.asks /\ c.ts = b.ts /\ c.history = b.history
        /\ Read(c) = c
    BY <2>1, ReadEffect
  <2>3. PICK point : point = PointOf(c)
    OBVIOUS
  <2>4. point.timestamp = b.ts
    BY <2>2, <2>3 DEF PointOf
  <2>5. r = [c EXCEPT !.history = Push(b.history, point)]
    BY <1>2, <2>1, <2>2, <2>3 DEF MaybeCaptureSnapshot
  <2>6. /\ IsBook(r)
        /\ r.bids = c.bids /\ r.asks = c.asks /\ r.ts = c.ts /\ r.history = Push(b.history, point)
        /\ r.cacheValid = c.cacheValid /\ r.bestBid = c.bestBid /\ r.bestAsk = c.bestAsk
    BY <2>2, <2>5, HistoryEffect
  <2>7. c.cacheValid
    <3>1. CASE b.cacheValid
      BY <2>1, <3>1 DEF Read
    <3>2. CASE ~b.cacheValid
      BY <2>1, <3>2, RecomputeCacheEffect DEF Read
    <3>. QED
      BY <3>1, <3>2
  <2>8. Read(r) = r
    BY <2>6, <2>7 DEF Read
  <2>. QED
    BY <1>2, <2>1, <2>2, <2>4, <2>6, <2>8
<1>. QED
  BY <1>1, <1>2

-----------------------------------------------------------------------------
(* The history.                                                            *)

(* Points in the order of time, an interval or more apart.                 *)
PacedHistory(h) ==
    /\ \E S : h \in Seq(S)
    /\ \A i \in 1..Len(h) : h[i].timestamp \in Nat
    /\ \A i \in 2..Len(h) : h[i].timestamp - h[i - 1].timestamp >= Interval

LEMMA TailPaces ==
    ASSUME NEW h, h # <<>>, PacedHistory(h)
    PROVE  /\ PacedHistory(Tail(h))
           /\ Tail(h) # <<>> => Last(Tail(h)) = Last(h)
<1> DEFINE t == Tail(h)
<1>1. PICK S : h \in Seq(S)
  BY DEF PacedHistory
<1>2. /\ t \in Seq(S) /\ Len(h) \in Nat \ {0} /\ Len(t) = Len(h) - 1
      /\ \A i \in 1..Len(t) : t[i] = h[i + 1]
  BY <1>1
<1> HIDE DEF t
<1>3. \A i \in 1..Len(t) : i + 1 \in 1..Len(h) /\ t[i].timestamp \in Nat
  BY <1>2 DEF PacedHistory
<1>4. ASSUME NEW i \in 2..Len(t) PROVE t[i].timestamp - t[i - 1].timestamp >= Interval
  <2>1. i + 1 \in 2..Len(h) /\ t[i] = h[i + 1]
    BY <1>2
  <2>2. t[i - 1] = h[(i + 1) - 1]
    BY <1>2
  <2>. QED
    BY <2>1, <2>2 DEF PacedHistory
<1>5. PacedHistory(t)
  BY <1>2, <1>3, <1>4 DEF PacedHistory
<1>6. ASSUME t # <<>> PROVE Last(t) = Last(h)
  <2>1. Len(t) # 0
    BY <1>2, <1>6
  <2>2. Len(t) \in 1..Len(t) /\ Len(t) + 1 = Len(h)
    BY <1>2, <2>1
  <2>. QED
    BY <1>2, <2>2 DEF Last
<1>. QED
  BY <1>5, <1>6 DEF t

LEMMA AppendPaces ==
    ASSUME NEW h, PacedHistory(h), NEW point, point.timestamp \in Nat,
           h # <<>> => point.timestamp - Last(h).timestamp >= Interval
    PROVE  /\ PacedHistory(Append(h, point))
           /\ Append(h, point) # <<>>
           /\ Last(Append(h, point)) = point
<1> DEFINE g == Append(h, point)
<1>1. PICK R : h \in Seq(R)
  BY DEF PacedHistory
<1>2. PICK S : S = R \cup {point}
  OBVIOUS
<1>3. h \in Seq(S) /\ point \in S
  BY <1>1, <1>2
<1>4. /\ g \in Seq(S) /\ Len(h) \in Nat /\ Len(g) = Len(h) + 1
      /\ g[Len(h) + 1] = point
      /\ \A i \in 1..Len(h) : g[i] = h[i]
      /\ g # <<>>
      /\ Len(h) # 0 => h # <<>>
  BY <1>3
<1> HIDE DEF g
<1>5. \A i \in 1..Len(g) : i \in 1..Len(h) \/ i = Len(h) + 1
  BY <1>4
<1>6. \A i \in 1..Len(g) : g[i].timestamp \in Nat
  BY <1>4, <1>5 DEF PacedHistory
<1>7. ASSUME NEW i \in 2..Len(g) PROVE g[i].timestamp - g[i - 1].timestamp >= Interval
  <2>1. i - 1 \in 1..Len(h) /\ g[i - 1] = h[i - 1]
    BY <1>4
  <2>2. CASE i \in 2..Len(h)
    <3>1. g[i] = h[i]
      BY <1>4, <2>2
    <3>. QED
      BY <2>1, <2>2, <3>1 DEF PacedHistory
  <2>3. CASE i = Len(h) + 1
    <3>1. h # <<>> /\ g[i] = point /\ h[i - 1] = Last(h)
      BY <1>4, <2>1, <2>3 DEF Last
    <3>. QED
      BY <2>1, <3>1
  <2>. QED
    BY <1>4, <2>2, <2>3
<1>8. PacedHistory(g)
  BY <1>4, <1>6, <1>7 DEF PacedHistory
<1>9. Last(g) = point
  BY <1>4 DEF Last
<1>. QED
  BY <1>4, <1>8, <1>9 DEF g

LEMMA PushPaces ==
    ASSUME NEW h, PacedHistory(h), NEW point, point.timestamp \in Nat,
           h # <<>> => point.timestamp - Last(h).timestamp >= Interval
    PROVE  /\ PacedHistory(Push(h, point))
           /\ Push(h, point) # <<>>
           /\ Last(Push(h, point)) = point
<1>1. PICK g : g = IF Len(h) = MaxHistory THEN Tail(h) ELSE h
  OBVIOUS
<1>2. PacedHistory(g) /\ (g # <<>> => point.timestamp - Last(g).timestamp >= Interval)
  <2>1. CASE Len(h) = MaxHistory
    <3>1. h # <<>>
      BY <2>1, HistoryAssumption
    <3>2. /\ PacedHistory(Tail(h))
          /\ Tail(h) # <<>> => Last(Tail(h)) = Last(h)
      BY <3>1, TailPaces
    <3>. QED
      BY <1>1, <2>1, <3>1, <3>2
  <2>2. CASE Len(h) # MaxHistory
    BY <1>1, <2>2
  <2>. QED
    BY <2>1, <2>2
<1>3. Push(h, point) = Append(g, point)
  BY <1>1 DEF Push
<1>. QED
  BY <1>2, <1>3, AppendPaces

(* A book, and the last point of its history no more than an interval old. *)
Paced(b) ==
    /\ IsBook(b)
    /\ PacedHistory(b.history) /\ b.history # <<>>
    /\ b.ts \in Nat
    /\ b.ts - Last(b.history).timestamp < Interval

LEMMA CapturePaces ==
    ASSUME NEW b, IsBook(b), b.ts \in Nat, PacedHistory(b.history),
           NEW r, r = MaybeCaptureSnapshot(b)
    PROVE  Paced(r)
<1>1. /\ IsBook(r)
      /\ r.ts = b.ts
      /\ ~Due(b) => r.history = b.history
      /\ Due(b) => \E point : point.timestamp = b.ts /\ r.history = Push(b.history, point)
  BY CaptureEffect
<1>2. b.history # <<>> => Last(b.history).timestamp \in Nat
  <2>1. PICK S : b.history \in Seq(S)
    BY DEF PacedHistory
  <2>2. b.history # <<>> => Len(b.history) \in 1..Len(b.history)
    BY <2>1
  <2>. QED
    BY <2>2 DEF PacedHistory, Last
<1>3. CASE ~Due(b)
  <2>1. b.history # <<>> /\ ~(b.ts - Last(b.history).timestamp >= Interval)
    BY <1>3 DEF Due
  <2>2. b.ts - Last(b.history).timestamp < Interval
    BY <1>2, <2>1, HistoryAssumption
  <2>. QED
    BY <1>1, <1>3, <2>1, <2>2 DEF Paced
<1>4. CASE Due(b)
  <2>1. PICK point : point.timestamp = b.ts /\ r.history = Push(b.history, point)
    BY <1>1, <1>4
  <2>2. /\ PacedHistory(r.history) /\ r.history # <<>> /\ Last(r.history) = point
    BY <1>4, <2>1, PushPaces DEF Due
  <2>3. r.ts - Last(r.history).timestamp < Interval
    BY <1>1, <2>1, <2>2, HistoryAssumption
  <2>. QED
    BY <1>1, <2>2, <2>3 DEF Paced
<1>. QED
  BY <1>3, <1>4

-----------------------------------------------------------------------------
(* The two ways a message changes a book.                                  *)

LEMMA SnapshotEffect ==
    ASSUME NEW b, IsBook(b), PacedHistory(b.history),
           NEW m, m.bids \in Side, m.asks \in Side, m.ts \in Nat,
           NEW r, r = ApplySnapshot(b, m)
    PROVE  /\ Paced(r)
           /\ r.bids = m.bids /\ r.asks = m.asks
           /\ Read(r).bestBid = Highest(m.bids) /\ Read(r).bestAsk = Lowest(m.asks)
<1>1. PICK c : c = [b EXCEPT !.bids = m.bids, !.asks = m.asks, !.ts = m.ts,
                             !.bestBid = None, !.bestAsk = None, !.cacheValid = FALSE]
  OBVIOUS
<1>2. /\ IsBook(c) /\ c.bids = m.bids /\ c.asks = m.asks /\ c.ts = m.ts
      /\ c.history = b.history /\ c.cacheValid = FALSE
  BY <1>1 DEF IsBook
<1>3. r = MaybeCaptureSnapshot(c)
  BY <1>1 DEF ApplySnapshot
<1>4. Read(c).bestBid = Highest(m.bids) /\ Read(c).bestAsk = Lowest(m.asks)
  <2>1. PICK d : d = RecomputeCache(c)
    OBVIOUS
  <2>2. d.bestBid = Highest(c.bids) /\ d.bestAsk = Lowest(c.asks)
    BY <1>2, <2>1, RecomputeCacheEffect
  <2>3. Read(c) = d
    BY <1>2, <2>1 DEF Read
  <2>. QED
    BY <1>2, <2>2, <2>3
<1>5. Paced(r)
  BY <1>2, <1>3, CapturePaces
<1>6. /\ r.bids = c.bids /\ r.asks = c.asks
      /\ Read(r).bestBid = Read(c).bestBid /\ Read(r).bestAsk = Read(c).bestAsk
  BY <1>2, <1>3, CaptureEffect
<1>. QED
  BY <1>2, <1>4, <1>5, <1>6

LEMMA PriceChangeEffect ==
    ASSUME NEW b, IsBook(b), PacedHistory(b.history),
           NEW m, m.side \in {"BUY", "SELL"}, m.price \in Prices, m.size \in Nat, m.ts \in Nat,
           NEW r, r = ApplyPriceChange(b, m)
    PROVE  /\ Paced(r)
           /\ r.bids = IF m.side = "BUY" THEN [b.bids EXCEPT ![m.price] = m.size] ELSE b.bids
           /\ r.asks = IF m.side = "SELL" THEN [b.asks EXCEPT ![m.price] = m.size] ELSE b.asks
           /\ Read(r).bestBid = m.bestBid /\ Read(r).bestAsk = m.bestAsk
<1>1. PICK d : d = IF m.side = "BUY" THEN [b EXCEPT !.bids[m.price] = m.size]
                                     ELSE [b EXCEPT !.asks[m.price] = m.size]
  OBVIOUS
<1>2. /\ d.bids = IF m.side = "BUY" THEN [b.bids EXCEPT ![m.price] = m.size] ELSE b.bids
      /\ d.asks = IF m.side = "SELL" THEN [b.asks EXCEPT ![m.price] = m.size] ELSE b.asks
      /\ DOMAIN d = DOMAIN b /\ d.history = b.history
  BY <1>1 DEF IsBook
<1>3. IsBook(d)
  <2>1. /\ [b.bids EXCEPT ![m.price] = m.size] \in Side
        /\ [b.asks EXCEPT ![m.price] = m.size] \in Side
    BY DEF IsBook, Side
  <2>. QED
    BY <1>2, <2>1 DEF IsBook
<1>4. PICK c : c = [d EXCEPT !.bestBid = m.bestBid, !.bestAsk = m.bestAsk,
                             !.cacheValid = TRUE, !.ts = m.ts]
  OBVIOUS
<1>5. /\ IsBook(c) /\ c.bids = d.bids /\ c.asks = d.asks /\ c.ts = m.ts
      /\ c.history = b.history /\ c.cacheValid = TRUE
      /\ c.bestBid = m.bestBid /\ c.bestAsk = m.bestAsk
  BY <1>2, <1>3, <1>4 DEF IsBook
<1>6. r = MaybeCaptureSnapshot(c)
  BY <1>1, <1>4 DEF ApplyPriceChange
<1>7. Read(c) = c
  BY <1>5 DEF Read
<1>8. Paced(r)
  BY <1>5, <1>6, CapturePaces
<1>9. /\ r.bids = c.bids /\ r.asks = c.asks
      /\ Read(r).bestBid = Read(c).bestBid /\ Read(r).bestAsk = Read(c).bestAsk
  BY <1>5, <1>6, CaptureEffect
<1>. QED
  BY <1>2, <1>5, <1>7, <1>8, <1>9

-----------------------------------------------------------------------------
(* What travels on a connection.                                           *)

(* The size of a book at a price, or of a market at a tick.                *)
Level(b, side, p) == IF side = "BUY" THEN b.bids[p] ELSE b.asks[p]

Sides == {"BUY", "SELL"}

(* What is left of the market at a price once it is converted.             *)
Reflects(b, m, side, p) == \E t \in AtPrice(p) : Level(b, side, p) = ScaleSize[Level(m, side, t)]

Books ==
    {b \in {BookMessage(bids, asks, m, n) :
               bids \in Side, asks \in Side, m \in Market, n \in Nat} :
        \A side \in Sides, p \in Prices : Reflects(b, b.market, side, p)}

PriceChange(side, t, s, m, n) ==
    [kind |-> "PRICE_CHANGE", side |-> side, price |-> ScalePrice[t], size |-> ScaleSize[s],
     bestBid |-> ReportedBid(m), bestAsk |-> ReportedAsk(m), ts |-> n, market |-> m]

PriceChanges ==
    {c \in {PriceChange(side, t, s, m, n) :
               side \in Sides, t \in Ticks, s \in Sizes \cup {0}, m \in Market, n \in Nat} :
        \E t \in AtPrice(c.price) : c.size = ScaleSize[Level(c.market, c.side, t)]}

Messages == Books \cup PriceChanges

LEMMA MarketSides ==
    ASSUME NEW m \in Market
    PROVE  /\ m.bids \in RawSide /\ m.asks \in RawSide
           /\ \A side \in Sides, t \in Ticks : Level(m, side, t) \in Sizes \cup {0}
BY DEF Market, RawSide, Level

LEMMA TickPrice ==
    ASSUME NEW t \in Ticks
    PROVE  ScalePrice[t] \in Prices /\ t \in AtPrice(ScalePrice[t])
BY ScalePriceAssumption DEF AtPrice

(* Whichever the order in which a BOOK lists the levels that merge.        *)
LEMMA ScaledSide ==
    ASSUME NEW raw \in RawSide, NEW side \in Scaled(raw)
    PROVE  /\ side \in Side
           /\ \A p \in Prices : \E t \in AtPrice(p) : side[p] = ScaleSize[raw[t]]
<1> DEFINE listed(p) == {t \in AtPrice(p) : ScaleSize[raw[t]] > 0}
<1>1. /\ side \in [Prices -> {ScaleSize[s] : s \in Sizes \cup {0}}]
      /\ \A p \in Prices : IF listed(p) = {}
                           THEN side[p] = 0
                           ELSE \E t \in listed(p) : side[p] = ScaleSize[raw[t]]
  BY DEF Scaled
<1>2. \A s \in Sizes \cup {0} : ScaleSize[s] \in Nat
  BY ScaleSizeAssumption
<1>3. side \in Side
  BY <1>1, <1>2 DEF Side
<1>4. ASSUME NEW p \in Prices PROVE \E t \in AtPrice(p) : side[p] = ScaleSize[raw[t]]
  <2>1. CASE listed(p) = {}
    <3>1. PICK t \in AtPrice(p) : TRUE
      BY ScalePriceAssumption DEF AtPrice
    <3>2. t \in Ticks /\ ~(ScaleSize[raw[t]] > 0)
      BY <2>1 DEF AtPrice
    <3>3. ScaleSize[raw[t]] \in Nat
      BY <1>2, <3>2 DEF RawSide
    <3>4. ScaleSize[raw[t]] = 0
      BY <3>2, <3>3
    <3>. QED
      BY <1>1, <2>1, <3>4
  <2>2. CASE listed(p) # {}
    BY <1>1, <2>2
  <2>. QED
    BY <2>1, <2>2
<1>. QED
  BY <1>3, <1>4

LEMMA BookFields ==
    ASSUME NEW m \in Books
    PROVE  /\ m.kind = "BOOK" /\ m.market \in Market /\ m.ts \in Nat
           /\ m.bids \in Side /\ m.asks \in Side
           /\ \A side \in Sides, p \in Prices : Reflects(m, m.market, side, p)
<1>1. PICK bids \in Side, asks \in Side, x \in Market, n \in Nat :
         m = BookMessage(bids, asks, x, n)
  BY DEF Books
<1>2. \A side \in Sides, p \in Prices : Reflects(m, m.market, side, p)
  BY DEF Books
<1>. QED
  BY <1>1, <1>2 DEF BookMessage

LEMMA ChangeFields ==
    ASSUME NEW m \in PriceChanges
    PROVE  /\ m.kind = "PRICE_CHANGE" /\ m.market \in Market /\ m.ts \in Nat
           /\ m.side \in Sides /\ m.price \in Prices /\ m.size \in Nat
           /\ \E t \in AtPrice(m.price) : m.size = ScaleSize[Level(m.market, m.side, t)]
           /\ m.bestBid = ReportedBid(m.market) /\ m.bestAsk = ReportedAsk(m.market)
<1>1. PICK side \in Sides, t \in Ticks, s \in Sizes \cup {0}, x \in Market, n \in Nat :
         m = PriceChange(side, t, s, x, n)
  BY DEF PriceChanges
<1>2. \E u \in AtPrice(m.price) : m.size = ScaleSize[Level(m.market, m.side, u)]
  BY DEF PriceChanges
<1>3. ScalePrice[t] \in Prices /\ ScaleSize[s] \in Nat
  BY TickPrice, ScaleSizeAssumption
<1>. QED
  BY <1>1, <1>2, <1>3 DEF PriceChange

LEMMA ByKind ==
    ASSUME NEW m \in Messages
    PROVE  /\ m.kind = "BOOK" => m \in Books
           /\ m.kind = "PRICE_CHANGE" => m \in PriceChanges
           /\ m # [kind |-> "closed"] /\ m.market \in Market
BY BookFields, ChangeFields DEF Messages

(* m tells of the change from a market at a tick.                          *)
Follows(m, before) ==
    /\ m \in PriceChanges
    /\ \E t \in AtPrice(m.price), s \in Sizes \cup {0} :
          /\ m.market.bids = IF m.side = "BUY" THEN [before.bids EXCEPT ![t] = s] ELSE before.bids
          /\ m.market.asks = IF m.side = "SELL" THEN [before.asks EXCEPT ![t] = s] ELSE before.asks

(* m sets the level.                                                       *)
Touches(m, side, p) == m.kind = "BOOK" \/ (m.side = side /\ m.price = p)

(* The messages on their way follow from one another, the last one is the  *)
(* market of today, and a tick that has changed since one of them has its  *)
(* price set by a later one.                                               *)
Chained(s) == \A i \in 2..Len(s) : Follows(s[i], s[i - 1].market)

UpToDate(s, m) == s # <<>> => s[Len(s)].market = m

Corrected(s, m) ==
    \A i \in 1..Len(s), side \in Sides, tick \in Ticks :
        \/ Level(s[i].market, side, tick) = Level(m, side, tick)
        \/ \E j \in 1..Len(s) : i < j /\ Touches(s[j], side, ScalePrice[tick])

(* What does not touch a price changes no tick of it.                      *)
LEMMA UntouchedTick ==
    ASSUME NEW before \in Market, NEW c, Follows(c, before), NEW side \in Sides, NEW tick \in Ticks,
           ~Touches(c, side, ScalePrice[tick])
    PROVE  Level(before, side, tick) = Level(c.market, side, tick)
<1>1. PICK t \in AtPrice(c.price), s \in Sizes \cup {0} :
         /\ c.market.bids = IF c.side = "BUY" THEN [before.bids EXCEPT ![t] = s] ELSE before.bids
         /\ c.market.asks = IF c.side = "SELL" THEN [before.asks EXCEPT ![t] = s] ELSE before.asks
  BY DEF Follows
<1>2. /\ c.side \in Sides
      /\ before.bids \in RawSide /\ before.asks \in RawSide
  BY ChangeFields, MarketSides DEF Follows
<1>3. CASE c.side # side
  BY <1>1, <1>2, <1>3 DEF Level, Sides
<1>4. CASE c.side = side
  <2>1. tick # t
    BY <1>4 DEF Touches, AtPrice
  <2>. QED
    BY <1>1, <1>2, <1>4, <2>1 DEF Level, Sides, RawSide
<1>. QED
  BY <1>3, <1>4

Stream(s, m) == s \in Seq(Messages) /\ Chained(s) /\ UpToDate(s, m) /\ Corrected(s, m)

LEMMA StreamTail ==
    ASSUME NEW s, NEW m, Stream(s, m), s # <<>>
    PROVE  Stream(Tail(s), m)
<1> DEFINE t == Tail(s)
<1>1. /\ t \in Seq(Messages) /\ Len(s) \in Nat \ {0} /\ Len(t) = Len(s) - 1
      /\ \A i \in 1..Len(t) : t[i] = s[i + 1]
      /\ t # <<>> => Len(t) # 0
  BY DEF Stream
<1> HIDE DEF t
<1>2. ASSUME NEW i \in 2..Len(t) PROVE Follows(t[i], t[i - 1].market)
  <2>1. i + 1 \in 2..Len(s) /\ t[i] = s[i + 1] /\ t[i - 1] = s[(i + 1) - 1]
    BY <1>1
  <2>. QED
    BY <2>1 DEF Stream, Chained
<1>3. UpToDate(t, m)
  <2>. SUFFICES ASSUME t # <<>> PROVE t[Len(t)].market = m
    BY DEF UpToDate
  <2>1. s # <<>> /\ t[Len(t)] = s[Len(s)]
    BY <1>1
  <2>. QED
    BY <2>1 DEF Stream, UpToDate
<1>4. ASSUME NEW i \in 1..Len(t), NEW side \in Sides, NEW tick \in Ticks,
             Level(t[i].market, side, tick) # Level(m, side, tick)
      PROVE  \E j \in 1..Len(t) : i < j /\ Touches(t[j], side, ScalePrice[tick])
  <2>1. i + 1 \in 1..Len(s) /\ t[i] = s[i + 1]
    BY <1>1
  <2>2. PICK j \in 1..Len(s) : i + 1 < j /\ Touches(s[j], side, ScalePrice[tick])
    BY <1>4, <2>1 DEF Stream, Corrected
  <2>3. j - 1 \in 1..Len(t) /\ i < j - 1 /\ t[j - 1] = s[(j - 1) + 1] /\ (j - 1) + 1 = j
    BY <1>1, <2>2
  <2>. QED
    BY <2>2, <2>3
<1>. QED
  BY <1>1, <1>2, <1>3, <1>4 DEF Stream, Chained, Corrected, t

(* The exchange changes a level: next is the new market.                   *)
LEMMA StreamAppend ==
    ASSUME NEW s, NEW m \in Market, Stream(s, m),
           NEW c, Follows(c, m), NEW next, c.market = next
    PROVE  Stream(Append(s, c), next) /\ Append(s, c) # <<>>
<1> DEFINE t == Append(s, c)
<1>1. c \in PriceChanges /\ c \in Messages
  BY DEF Follows, Messages
<1>2. /\ t \in Seq(Messages) /\ Len(s) \in Nat /\ Len(t) = Len(s) + 1
      /\ t[Len(s) + 1] = c
      /\ \A i \in 1..Len(s) : t[i] = s[i]
      /\ t # <<>>
      /\ Len(s) # 0 => s # <<>>
  BY <1>1 DEF Stream
<1> HIDE DEF t
<1>3. \A i \in 1..Len(t) : i \in 1..Len(s) \/ i = Len(s) + 1
  BY <1>2
<1>4. ASSUME NEW i \in 2..Len(t) PROVE Follows(t[i], t[i - 1].market)
  <2>1. i - 1 \in 1..Len(s) /\ t[i - 1] = s[i - 1]
    BY <1>2
  <2>2. CASE i \in 2..Len(s)
    <3>1. t[i] = s[i]
      BY <1>2, <2>2
    <3>. QED
      BY <2>1, <2>2, <3>1 DEF Stream, Chained
  <2>3. CASE i = Len(s) + 1
    <3>1. s # <<>> /\ i - 1 = Len(s) /\ t[i] = c
      BY <1>2, <2>1, <2>3
    <3>2. s[Len(s)].market = m
      BY <3>1 DEF Stream, UpToDate
    <3>. QED
      BY <2>1, <3>1, <3>2
  <2>. QED
    BY <1>2, <2>2, <2>3
<1>5. UpToDate(t, next)
  BY <1>2 DEF UpToDate
<1>6. \A side \in Sides, tick \in Ticks :
         \/ Touches(c, side, ScalePrice[tick])
         \/ Level(m, side, tick) = Level(next, side, tick)
  BY UntouchedTick
<1>7. ASSUME NEW i \in 1..Len(t), NEW side \in Sides, NEW tick \in Ticks,
             Level(t[i].market, side, tick) # Level(next, side, tick)
      PROVE  \E j \in 1..Len(t) : i < j /\ Touches(t[j], side, ScalePrice[tick])
  <2>1. i \in 1..Len(s) /\ t[i] = s[i]
    BY <1>2, <1>3, <1>7
  <2>2. CASE Touches(c, side, ScalePrice[tick])
    <3>1. Len(s) + 1 \in 1..Len(t) /\ i < Len(s) + 1
      BY <1>2, <2>1
    <3>. QED
      BY <1>2, <2>2, <3>1
  <2>3. CASE Level(m, side, tick) = Level(next, side, tick)
    <3>1. PICK j \in 1..Len(s) : i < j /\ Touches(s[j], side, ScalePrice[tick])
      BY <1>7, <2>1, <2>3 DEF Stream, Corrected
    <3>2. j \in 1..Len(t) /\ t[j] = s[j]
      BY <1>2
    <3>. QED
      BY <3>1, <3>2
  <2>. QED
    BY <1>6, <2>2, <2>3
<1>8. Stream(t, next)
  BY <1>2, <1>4, <1>5, <1>7 DEF Stream, Chained, Corrected
<1>. QED
  BY <1>2, <1>8 DEF t

LEMMA StreamStarts ==
    ASSUME NEW c \in Books
    PROVE  Stream(<<c>>, c.market)
<1>1. c \in Messages
  BY DEF Messages
<1>2. <<c>> \in Seq(Messages) /\ Len(<<c>>) = 1 /\ <<c>>[1] = c
  BY <1>1
<1>3. Chained(<<c>>) /\ UpToDate(<<c>>, c.market) /\ Corrected(<<c>>, c.market)
  BY <1>2 DEF Chained, UpToDate, Corrected
<1>. QED
  BY <1>2, <1>3 DEF Stream

LEMMA OpenStream ==
    ASSUME NEW s, NEW m, Stream(s, m)
    PROVE  s # Closed
<1>1. \A i \in 1..Len(s) : s[i] # [kind |-> "closed"]
  BY ByKind DEF Stream
<1>2. Len(Closed) = 1 /\ Closed[1] = [kind |-> "closed"]
  BY DEF Closed
<1>. QED
  BY <1>1, <1>2

-----------------------------------------------------------------------------
(* The streams of the open connections, whatever is done with the book.    *)

Streams ==
    /\ market \in Market /\ now \in Nat
    /\ DOMAIN feed = Feeds
    /\ \A f \in Feeds : IsOpen(f) => Stream(feed[f], market)

LEMMA HeadOfStream ==
    ASSUME Streams, NEW f \in Feeds, feed[f] # <<>>, NEW m, m = Head(feed[f]),
           m.kind \in {"BOOK", "PRICE_CHANGE"}
    PROVE  /\ IsOpen(f) /\ m \in Messages /\ m.market \in Market
           /\ feed[f] \in Seq(Messages) /\ m = feed[f][1] /\ Len(feed[f]) \in Nat \ {0}
           /\ Stream(Tail(feed[f]), market)
           /\ Tail(feed[f]) = <<>> => m.market = market
           /\ Tail(feed[f]) # <<>> => Follows(Head(Tail(feed[f])), m.market)
           /\ \A side \in Sides, tick \in Ticks :
                 \/ Level(m.market, side, tick) = Level(market, side, tick)
                 \/ \E j \in 1..Len(Tail(feed[f])) :
                       Touches(Tail(feed[f])[j], side, ScalePrice[tick])
<1>1. PICK s : s = feed[f]
  OBVIOUS
<1>2. IsOpen(f)
  <2>1. Head(Closed).kind = "closed"
    BY DEF Closed
  <2>. QED
    BY <2>1 DEF IsOpen
<1>3. Stream(s, market) /\ s # <<>>
  BY <1>1, <1>2 DEF Streams
<1>4. /\ s \in Seq(Messages) /\ Len(s) \in Nat \ {0} /\ m = s[1] /\ m \in Messages
      /\ Len(Tail(s)) = Len(s) - 1
      /\ \A i \in 1..Len(Tail(s)) : Tail(s)[i] = s[i + 1]
      /\ Tail(s) = <<>> => Len(s) = 1
      /\ Tail(s) # <<>> => Head(Tail(s)) = s[2] /\ 2 \in 2..Len(s)
  <2>1. s \in Seq(Messages) /\ s # <<>> /\ m = Head(s)
    BY <1>1, <1>3 DEF Stream
  <2>2. Len(s) \in Nat \ {0} /\ m = s[1] /\ m \in Messages
    BY <2>1
  <2>3. PICK t : t = Tail(s)
    OBVIOUS
  <2>4. /\ t \in Seq(Messages) /\ Len(t) = Len(s) - 1
        /\ \A i \in 1..Len(t) : t[i] = s[i + 1]
    BY <2>1, <2>3
  <2>5. t = <<>> => Len(s) = 1
    BY <2>2, <2>4
  <2>6. ASSUME t # <<>> PROVE Head(t) = s[2] /\ 2 \in 2..Len(s)
    <3>1. Len(t) # 0 /\ Head(t) = t[1]
      BY <2>4, <2>6
    <3>2. 1 \in 1..Len(t) /\ 2 \in 2..Len(s)
      BY <2>2, <2>4, <3>1
    <3>3. t[1] = s[1 + 1]
      BY <2>4, <3>2
    <3>. QED
      BY <3>1, <3>2, <3>3
  <2>. QED
    BY <2>1, <2>2, <2>3, <2>4, <2>5, <2>6
<1>5. Stream(Tail(s), market)
  BY <1>3, StreamTail
<1>6. Tail(s) = <<>> => m.market = market
  BY <1>3, <1>4 DEF Stream, UpToDate
<1>7. Tail(s) # <<>> => Follows(Head(Tail(s)), m.market)
  <2>. SUFFICES ASSUME Tail(s) # <<>> PROVE Follows(s[2], s[2 - 1].market)
    BY <1>4
  <2>. QED
    BY <1>3, <1>4 DEF Stream, Chained
<1>8. ASSUME NEW side \in Sides, NEW tick \in Ticks,
             Level(m.market, side, tick) # Level(market, side, tick)
      PROVE  \E j \in 1..Len(Tail(s)) : Touches(Tail(s)[j], side, ScalePrice[tick])
  <2>1. PICK j \in 1..Len(s) : 1 < j /\ Touches(s[j], side, ScalePrice[tick])
    <3>1. 1 \in 1..Len(s) /\ s[1].market = m.market
      BY <1>4
    <3>. QED
      BY <1>3, <1>8, <3>1 DEF Stream, Corrected
  <2>2. j - 1 \in 1..Len(Tail(s)) /\ Tail(s)[j - 1] = s[(j - 1) + 1] /\ (j - 1) + 1 = j
    BY <1>4, <2>1
  <2>. QED
    BY <2>1, <2>2
<1>9. m.market \in Market
  BY <1>4, ByKind
<1>. QED
  BY <1>1, <1>2, <1>4, <1>5, <1>6, <1>7, <1>8, <1>9

(* The message of a change, and what it does to the streams.               *)
LEMMA ChangeEffect ==
    ASSUME Streams, NEW side \in Sides, NEW t \in Ticks, NEW s \in Sizes \cup {0},
           Change(side, t, s)
    PROVE  \E c : /\ Follows(c, market) /\ c.market = market' /\ market' \in Market
                  /\ \A f \in Feeds : feed'[f] = IF IsOpen(f) THEN Append(feed[f], c) ELSE feed[f]
<1>1. PICK next : next = IF side = "BUY" THEN [market EXCEPT !.bids[t] = s]
                                         ELSE [market EXCEPT !.asks[t] = s]
  OBVIOUS
<1>2. PICK c : c = PriceChange(side, t, s, next, now + 1)
  OBVIOUS
<1>3. /\ next \in Market /\ market' = next
      /\ feed' = [f \in Feeds |-> IF IsOpen(f) THEN Append(feed[f], c) ELSE feed[f]]
  BY <1>1, <1>2 DEF Change, PriceChange
<1>4. market.bids \in RawSide /\ market.asks \in RawSide
  BY MarketSides DEF Streams
<1>5. /\ next.bids = IF side = "BUY" THEN [market.bids EXCEPT ![t] = s] ELSE market.bids
      /\ next.asks = IF side = "SELL" THEN [market.asks EXCEPT ![t] = s] ELSE market.asks
  BY <1>1 DEF Streams, Market, Sides
<1>6. now + 1 \in Nat
  BY DEF Streams
<1>7. s = Level(next, side, t)
  BY <1>4, <1>5 DEF Level, Sides, RawSide
<1>8. c.size = ScaleSize[s] /\ c.market = next /\ c.side = side /\ c.price = ScalePrice[t]
  BY <1>2 DEF PriceChange
<1>9. t \in AtPrice(c.price)
  BY <1>8, TickPrice
<1>10. c \in PriceChanges
  <2>1. c \in {PriceChange(x, u, n, m, k) :
                  x \in Sides, u \in Ticks, n \in Sizes \cup {0}, m \in Market, k \in Nat}
    BY <1>2, <1>3, <1>6
  <2>2. c.size = ScaleSize[Level(c.market, c.side, t)]
    BY <1>7, <1>8
  <2>. QED
    BY <1>9, <2>1, <2>2 DEF PriceChanges
<1>11. Follows(c, market)
  BY <1>5, <1>8, <1>9, <1>10 DEF Follows
<1>. QED
  BY <1>3, <1>8, <1>11

(* The BOOK a subscription begins with.                                    *)
LEMMA OpenEffect ==
    ASSUME Streams, NEW f \in Feeds, Open(f)
    PROVE  \E b \in Books : /\ b.market = market
                            /\ \A g \in Feeds : feed'[g] = IF g = f THEN <<b>> ELSE feed[g]
                            /\ DOMAIN feed' = Feeds
<1>1. PICK bids \in Scaled(market.bids), asks \in Scaled(market.asks) :
         feed' = [feed EXCEPT ![f] = <<BookMessage(bids, asks, market, now)>>]
  BY DEF Open
<1>2. PICK b : b = BookMessage(bids, asks, market, now)
  OBVIOUS
<1>3. market.bids \in RawSide /\ market.asks \in RawSide
  BY MarketSides DEF Streams
<1>4. /\ bids \in Side /\ \A p \in Prices : \E t \in AtPrice(p) : bids[p] = ScaleSize[market.bids[t]]
      /\ asks \in Side /\ \A p \in Prices : \E t \in AtPrice(p) : asks[p] = ScaleSize[market.asks[t]]
  BY <1>3, ScaledSide
<1>5. b.bids = bids /\ b.asks = asks /\ b.market = market
  BY <1>2 DEF BookMessage
<1>6. \A side \in Sides, p \in Prices : Reflects(b, b.market, side, p)
  BY <1>4, <1>5 DEF Reflects, Level, Sides
<1>7. b \in Books
  <2>1. b \in {BookMessage(x, y, m, n) : x \in Side, y \in Side, m \in Market, n \in Nat}
    BY <1>2, <1>4 DEF Streams
  <2>. QED
    BY <1>6, <2>1 DEF Books
<1>8. /\ \A g \in Feeds : feed'[g] = IF g = f THEN <<b>> ELSE feed[g]
      /\ DOMAIN feed' = Feeds
  BY <1>1, <1>2 DEF Streams
<1>. QED
  BY <1>5, <1>7, <1>8

(* The ways a feed loses its first message.                                *)
LEMMA TakenEffect ==
    ASSUME NEW f \in Feeds, DOMAIN feed = Feeds,
           ProcessBookSnapshot(f) \/ ProcessPriceChange(f) \/ Lose(f)
    PROVE  /\ feed[f] # <<>> /\ market' = market /\ now' = now
           /\ DOMAIN feed' = Feeds
           /\ \A g \in Feeds : feed'[g] = IF g = f THEN Tail(feed[f]) ELSE feed[g]
BY DEF ProcessBookSnapshot, ProcessPriceChange, Lose

LEMMA StreamsInit == Init => Streams
BY DEF Init, Streams, IsOpen, Market, RawSide, RawLevels

LEMMA StreamsStep ==
    ASSUME Streams, [Next]_vars
    PROVE  Streams'
<1>1. ASSUME NEW side \in Sides, NEW t \in Ticks, NEW s \in Sizes \cup {0}, Change(side, t, s)
      PROVE  Streams'
  <2>1. PICK c : /\ Follows(c, market) /\ c.market = market' /\ market' \in Market
                 /\ \A f \in Feeds : feed'[f] = IF IsOpen(f) THEN Append(feed[f], c) ELSE feed[f]
    BY <1>1, ChangeEffect
  <2>2. DOMAIN feed' = Feeds /\ now' \in Nat
    BY <1>1 DEF Change, Streams
  <2>3. ASSUME NEW f \in Feeds, IsOpen(f)' PROVE Stream(feed'[f], market')
    <3>1. CASE IsOpen(f)
      <4>1. Stream(Append(feed[f], c), market')
        BY <2>1, <3>1, StreamAppend DEF Streams
      <4>. QED
        BY <2>1, <3>1, <4>1
    <3>2. CASE ~IsOpen(f)
      BY <2>1, <2>3, <3>2 DEF IsOpen
    <3>. QED
      BY <3>1, <3>2
  <2>. QED
    BY <2>1, <2>2, <2>3 DEF Streams
<1>2. ASSUME NEW f \in Feeds, Open(f) PROVE Streams'
  <2>1. PICK b \in Books : /\ b.market = market
                           /\ \A g \in Feeds : feed'[g] = IF g = f THEN <<b>> ELSE feed[g]
                           /\ DOMAIN feed' = Feeds
    BY <1>2, OpenEffect
  <2>2. Stream(<<b>>, market)
    BY <2>1, StreamStarts
  <2>3. market' = market /\ now' = now
    BY <1>2 DEF Open
  <2>. QED
    BY <2>1, <2>2, <2>3 DEF Streams, IsOpen
<1>3. ASSUME NEW f \in Feeds, Close(f) PROVE Streams'
  BY <1>3 DEF Close, Streams, IsOpen
<1>4. ASSUME NEW f \in Feeds, ProcessBookSnapshot(f) \/ ProcessPriceChange(f) \/ Lose(f)
      PROVE  Streams'
  <2>1. /\ feed[f] # <<>> /\ market' = market /\ now' = now
        /\ DOMAIN feed' = Feeds
        /\ \A g \in Feeds : feed'[g] = IF g = f THEN Tail(feed[f]) ELSE feed[g]
    BY <1>4, TakenEffect DEF Streams
  <2>2. IsOpen(f)
    <3>1. Head(Closed).kind = "closed"
      BY DEF Closed
    <3>. QED
      BY <1>4, <3>1 DEF ProcessBookSnapshot, ProcessPriceChange, Lose, IsOpen
  <2>3. Stream(Tail(feed[f]), market)
    BY <2>1, <2>2, StreamTail DEF Streams
  <2>. QED
    BY <2>1, <2>3 DEF Streams, IsOpen
<1>5. CASE UNCHANGED vars
  BY <1>5 DEF vars, Streams, IsOpen
<1>. QED
  BY <1>1, <1>2, <1>3, <1>4, <1>5 DEF Next, Sides

-----------------------------------------------------------------------------
(* The history, however late and out of order the messages come.           *)

Kept == book # NoBook => Paced(book)

(* What applying the first message of a feed makes of the book.            *)
LEMMA BookProcessed ==
    ASSUME Streams, Kept, NEW f \in Feeds, ProcessBookSnapshot(f), NEW m, m = Head(feed[f])
    PROVE  /\ Paced(book') /\ book' # NoBook
           /\ \A side \in Sides, p \in Prices : Reflects(book', m.market, side, p)
           /\ Read(book').bestBid = Highest(book'.bids)
           /\ Read(book').bestAsk = Lowest(book'.asks)
<1>1. PICK b : b = IF book = NoBook THEN NewBook ELSE book
  OBVIOUS
<1>2. /\ feed[f] # <<>> /\ m.kind = "BOOK"
      /\ book' = ApplySnapshot(b, m)
  BY <1>1 DEF ProcessBookSnapshot
<1>3. m \in Books
  BY <1>2, HeadOfStream, ByKind
<1>4. /\ m.ts \in Nat /\ m.bids \in Side /\ m.asks \in Side
      /\ \A side \in Sides, p \in Prices : Reflects(m, m.market, side, p)
  BY <1>3, BookFields
<1>5. IsBook(b) /\ PacedHistory(b.history)
  <2>1. PacedHistory(<<>>)
    <3>1. <<>> \in Seq(Nat) /\ Len(<<>>) = 0
      OBVIOUS
    <3>. QED
      BY <3>1 DEF PacedHistory
  <2>. QED
    BY <1>1, <2>1, NewBookIsBook DEF Kept, Paced
<1>6. /\ Paced(book')
      /\ book'.bids = m.bids /\ book'.asks = m.asks
      /\ Read(book').bestBid = Highest(m.bids) /\ Read(book').bestAsk = Lowest(m.asks)
  BY <1>2, <1>4, <1>5, SnapshotEffect
<1>7. book' # NoBook
  BY <1>6, NoBookIsNoBook DEF Paced
<1>8. \A side \in Sides, p \in Prices : Reflects(book', m.market, side, p)
  BY <1>4, <1>6 DEF Reflects, Level
<1>. QED
  BY <1>6, <1>7, <1>8

LEMMA ChangeProcessed ==
    ASSUME Streams, Kept, NEW f \in Feeds, ProcessPriceChange(f), book # NoBook,
           NEW m, m = Head(feed[f])
    PROVE  /\ m \in PriceChanges
           /\ Paced(book') /\ book' # NoBook
           /\ book'.bids = IF m.side = "BUY" THEN [book.bids EXCEPT ![m.price] = m.size] ELSE book.bids
           /\ book'.asks = IF m.side = "SELL" THEN [book.asks EXCEPT ![m.price] = m.size] ELSE book.asks
           /\ Read(book').bestBid = ReportedBid(m.market)
           /\ Read(book').bestAsk = ReportedAsk(m.market)
<1>1. /\ feed[f] # <<>> /\ m.kind = "PRICE_CHANGE"
      /\ book' = ApplyPriceChange(book, m)
  BY DEF ProcessPriceChange
<1>2. m \in PriceChanges
  BY <1>1, HeadOfStream, ByKind
<1>3. /\ m.side \in {"BUY", "SELL"} /\ m.price \in Prices /\ m.size \in Nat /\ m.ts \in Nat
      /\ m.bestBid = ReportedBid(m.market) /\ m.bestAsk = ReportedAsk(m.market)
  BY <1>2, ChangeFields DEF Sides
<1>4. IsBook(book) /\ PacedHistory(book.history)
  BY DEF Kept, Paced
<1>5. /\ Paced(book')
      /\ book'.bids = IF m.side = "BUY" THEN [book.bids EXCEPT ![m.price] = m.size] ELSE book.bids
      /\ book'.asks = IF m.side = "SELL" THEN [book.asks EXCEPT ![m.price] = m.size] ELSE book.asks
      /\ Read(book').bestBid = m.bestBid /\ Read(book').bestAsk = m.bestAsk
  <2>1. PICK r : r = ApplyPriceChange(book, m)
    OBVIOUS
  <2>2. /\ Paced(r)
        /\ r.bids = IF m.side = "BUY" THEN [book.bids EXCEPT ![m.price] = m.size] ELSE book.bids
        /\ r.asks = IF m.side = "SELL" THEN [book.asks EXCEPT ![m.price] = m.size] ELSE book.asks
        /\ Read(r).bestBid = m.bestBid /\ Read(r).bestAsk = m.bestAsk
    BY <1>3, <1>4, <2>1, PriceChangeEffect
  <2>. QED
    BY <1>1, <2>1, <2>2
<1>6. book' # NoBook
  BY <1>5, NoBookIsNoBook DEF Paced
<1>. QED
  BY <1>2, <1>3, <1>5, <1>6

LEMMA KeptStep ==
    ASSUME Streams, Kept, [Next]_vars
    PROVE  Kept'
<1>1. ASSUME NEW f \in Feeds, ProcessBookSnapshot(f) PROVE Kept'
  BY <1>1, BookProcessed DEF Kept
<1>2. ASSUME NEW f \in Feeds, ProcessPriceChange(f) PROVE Kept'
  <2>1. CASE book = NoBook
    BY <1>2, <2>1 DEF ProcessPriceChange, Kept
  <2>2. CASE book # NoBook
    BY <1>2, <2>2, ChangeProcessed DEF Kept
  <2>. QED
    BY <2>1, <2>2
<1>3. ASSUME book' = book PROVE Kept'
  BY <1>3 DEF Kept
<1>. QED
  BY <1>1, <1>2, <1>3 DEF Next, Change, Open, Close, Lose, vars

(* The points of the history are in the order of time and an interval or   *)
(* more apart, and the last is less than an interval old, whatever the     *)
(* connections deliver.                                                    *)
THEOREM HistoryAlwaysPaced == Spec => []HistoryPaced
<1>1. Init => Streams /\ Kept
  BY StreamsInit DEF Init, Kept
<1>2. Streams /\ Kept /\ [Next]_vars => (Streams /\ Kept)'
  BY StreamsStep, KeptStep
<1>3. Kept => HistoryPaced
  BY DEF Kept, Paced, PacedHistory, HistoryPaced
<1>. QED
  BY <1>1, <1>2, <1>3, PTL DEF Spec

-----------------------------------------------------------------------------
(* What a book shows, price by price.                                      *)

Priced(b, m) ==
    /\ Read(b).bestBid \in {Highest(b.bids), ReportedBid(m)}
    /\ Read(b).bestAsk \in {Lowest(b.asks), ReportedAsk(m)}

LEMMA ShowsLevels ==
    ASSUME NEW b, NEW m
    PROVE  Shows(b, m) <=> /\ \A side \in Sides, p \in Prices : Reflects(b, m, side, p)
                           /\ Priced(b, m)
<1>1. "BUY" \in Sides /\ "SELL" \in Sides /\ "BUY" # "SELL"
  BY DEF Sides
<1>2. ASSUME NEW p \in Prices
      PROVE  /\ Reflects(b, m, "BUY", p) <=> \E t \in AtPrice(p) : b.bids[p] = ScaleSize[m.bids[t]]
             /\ Reflects(b, m, "SELL", p) <=> \E t \in AtPrice(p) : b.asks[p] = ScaleSize[m.asks[t]]
  BY <1>1 DEF Reflects, Level
<1>3. \A side \in Sides : side = "BUY" \/ side = "SELL"
  BY DEF Sides
<1>. QED
  BY <1>1, <1>2, <1>3 DEF Shows, Priced

(* When no two ticks merge, every level of the market is there, scaled,    *)
(* and no other.                                                           *)
LEMMA ShowsEveryTick ==
    ASSUME \A t, u \in Ticks : ScalePrice[t] = ScalePrice[u] => t = u,
           NEW b, NEW m, Shows(b, m), NEW t \in Ticks
    PROVE  /\ b.bids[ScalePrice[t]] = ScaleSize[m.bids[t]]
           /\ b.asks[ScalePrice[t]] = ScaleSize[m.asks[t]]
<1>1. ScalePrice[t] \in Prices /\ \A u \in AtPrice(ScalePrice[t]) : u = t
  BY TickPrice DEF AtPrice
<1>. QED
  BY <1>1 DEF Shows

(* A change makes of a book that reflects a market at a price one that     *)
(* reflects the next market there.                                         *)
LEMMA ChangeReflects ==
    ASSUME NEW before \in Market, NEW c, Follows(c, before),
           NEW b, b.bids \in Side, b.asks \in Side, NEW r,
           r.bids = IF c.side = "BUY" THEN [b.bids EXCEPT ![c.price] = c.size] ELSE b.bids,
           r.asks = IF c.side = "SELL" THEN [b.asks EXCEPT ![c.price] = c.size] ELSE b.asks,
           NEW side \in Sides, NEW p \in Prices
    PROVE  /\ Touches(c, side, p) => Reflects(r, c.market, side, p)
           /\ ~Touches(c, side, p) => /\ Level(r, side, p) = Level(b, side, p)
                                      /\ Reflects(b, before, side, p) => Reflects(r, c.market, side, p)
<1>1. /\ c.kind = "PRICE_CHANGE" /\ c.side \in Sides /\ c.price \in Prices
      /\ \E t \in AtPrice(c.price) : c.size = ScaleSize[Level(c.market, c.side, t)]
  BY ChangeFields DEF Follows
<1>2. CASE Touches(c, side, p)
  <2>1. c.side = side /\ c.price = p
    BY <1>1, <1>2 DEF Touches
  <2>2. Level(r, side, p) = c.size
    BY <2>1 DEF Level, Sides, Side
  <2>. QED
    BY <1>1, <1>2, <2>1, <2>2 DEF Reflects
<1>3. CASE ~Touches(c, side, p)
  <2>1. c.side # side \/ c.price # p
    BY <1>3 DEF Touches
  <2>2. Level(r, side, p) = Level(b, side, p)
    <3>1. CASE c.side # side
      BY <1>1, <3>1 DEF Level, Sides
    <3>2. CASE c.price # p
      BY <1>1, <3>2 DEF Level, Sides, Side
    <3>. QED
      BY <2>1, <3>1, <3>2
  <2>3. \A t \in AtPrice(p) : Level(before, side, t) = Level(c.market, side, t)
    BY <1>3, UntouchedTick DEF AtPrice
  <2>. QED
    BY <1>3, <2>2, <2>3 DEF Reflects
<1>. QED
  BY <1>2, <1>3

-----------------------------------------------------------------------------
(* One connection alone.  The inductive invariant adds to InStep what the  *)
(* connection will bring next: a change to the market the book shows, or a *)
(* BOOK, or nothing, and then that market is today's.                      *)

Synced ==
    source # NoFeed =>
        /\ source \in Feeds /\ book # NoBook
        /\ inStepWith \in Market /\ Shows(book, inStepWith)
        /\ IsOpen(source) =>
              IF feed[source] = <<>>
              THEN inStepWith = market
              ELSE Head(feed[source]) \in Books \/ Follows(Head(feed[source]), inStepWith)

(* A change comes after all that an open feed is yet to deliver.           *)
LEMMA ChangeOnStream ==
    ASSUME Streams, NEW f \in Feeds, IsOpen(f), NEW c, Follows(c, market),
           NEW s, s = Append(feed[f], c)
    PROVE  /\ s # Closed /\ s # <<>>
           /\ Head(s) = IF feed[f] = <<>> THEN c ELSE Head(feed[f])
           /\ Len(s) = Len(feed[f]) + 1 /\ Len(feed[f]) \in Nat
           /\ s[Len(s)] = c /\ \A j \in 1..Len(feed[f]) : s[j] = feed[f][j]
<1>1. Stream(feed[f], market)
  BY DEF Streams
<1>2. feed[f] \in Seq(Messages) /\ c \in Messages
  BY <1>1 DEF Stream, Follows, Messages
<1>3. Stream(s, c.market)
  BY <1>1, StreamAppend DEF Streams
<1>4. s # Closed
  BY <1>3, OpenStream
<1>5. /\ s # <<>> /\ Len(s) = Len(feed[f]) + 1 /\ Len(feed[f]) \in Nat
      /\ s[Len(s)] = c /\ \A j \in 1..Len(feed[f]) : s[j] = feed[f][j]
      /\ Head(s) = s[1]
  BY <1>2
<1>6. CASE feed[f] = <<>>
  BY <1>4, <1>5, <1>6
<1>7. CASE feed[f] # <<>>
  <2>1. 1 \in 1..Len(feed[f]) /\ Head(feed[f]) = feed[f][1]
    BY <1>2, <1>7
  <2>. QED
    BY <1>4, <1>5, <1>7, <2>1
<1>. QED
  BY <1>6, <1>7

LEMMA SyncedStep ==
    ASSUME Streams, Kept, Synced, [Next]_vars
    PROVE  Synced'
<1>1. ASSUME NEW side \in Sides, NEW t \in Ticks, NEW s \in Sizes \cup {0}, Change(side, t, s)
      PROVE  Synced'
  <2>1. PICK c : /\ Follows(c, market) /\ c.market = market' /\ market' \in Market
                 /\ \A f \in Feeds : feed'[f] = IF IsOpen(f) THEN Append(feed[f], c) ELSE feed[f]
    BY <1>1, ChangeEffect
  <2>2. UNCHANGED <<book, inStepWith, source>>
    BY <1>1 DEF Change
  <2>. SUFFICES ASSUME source # NoFeed, IsOpen(source)'
                PROVE  /\ feed'[source] # <<>>
                       /\ \/ Head(feed'[source]) \in Books
                          \/ Follows(Head(feed'[source]), inStepWith)
    BY <2>2 DEF Synced
  <2>3. source \in Feeds
    BY DEF Synced
  <2>4. IsOpen(source) /\ feed'[source] = Append(feed[source], c)
    BY <2>1, <2>2, <2>3 DEF IsOpen
  <2>5. /\ feed'[source] # <<>>
        /\ Head(feed'[source]) = IF feed[source] = <<>> THEN c ELSE Head(feed[source])
    BY <2>1, <2>3, <2>4, ChangeOnStream
  <2>. QED
    BY <2>1, <2>4, <2>5 DEF Synced
<1>2. ASSUME NEW f \in Feeds, Open(f) PROVE Synced'
  <2>1. PICK b \in Books : /\ b.market = market
                           /\ \A g \in Feeds : feed'[g] = IF g = f THEN <<b>> ELSE feed[g]
    BY <1>2, OpenEffect
  <2>2. UNCHANGED <<market, book, inStepWith, source>>
    BY <1>2 DEF Open
  <2>3. Head(<<b>>) = b /\ <<b>> # <<>>
    OBVIOUS
  <2>. QED
    BY <2>1, <2>2, <2>3 DEF Synced, IsOpen
<1>3. ASSUME NEW f \in Feeds, Close(f) PROVE Synced'
  <2>1. /\ \A g \in Feeds : feed'[g] = IF g = f THEN Closed ELSE feed[g]
        /\ UNCHANGED <<market, book, inStepWith, source>>
    BY <1>3 DEF Close, Streams
  <2>. QED
    BY <2>1 DEF Synced, IsOpen
<1>4. ASSUME NEW f \in Feeds, ProcessBookSnapshot(f) PROVE Synced'
  <2>1. PICK m : m = Head(feed[f])
    OBVIOUS
  <2>2. /\ feed[f] # <<>> /\ m.kind = "BOOK"
        /\ inStepWith' = m.market /\ source' = f
    BY <1>4, <2>1 DEF ProcessBookSnapshot
  <2>3. /\ market' = market
        /\ feed'[f] = Tail(feed[f])
    BY <1>4, TakenEffect DEF Streams
  <2>4. /\ m.market \in Market
        /\ Tail(feed[f]) = <<>> => m.market = market
        /\ Tail(feed[f]) # <<>> => Follows(Head(Tail(feed[f])), m.market)
    BY <2>1, <2>2, HeadOfStream
  <2>5. /\ book' # NoBook
        /\ \A side \in Sides, p \in Prices : Reflects(book', m.market, side, p)
        /\ Read(book').bestBid = Highest(book'.bids)
        /\ Read(book').bestAsk = Lowest(book'.asks)
    BY <1>4, <2>1, BookProcessed
  <2>6. Shows(book', m.market)
    BY <2>5, ShowsLevels DEF Priced
  <2>. QED
    BY <2>2, <2>3, <2>4, <2>5, <2>6 DEF Synced
<1>5. ASSUME NEW f \in Feeds, ProcessPriceChange(f) PROVE Synced'
  <2>. SUFFICES ASSUME source' # NoFeed PROVE Synced'
    BY DEF Synced
  <2>1. PICK m : m = Head(feed[f])
    OBVIOUS
  <2>2. /\ feed[f] # <<>> /\ m.kind = "PRICE_CHANGE"
        /\ inStepWith' = m.market /\ source' = f /\ source = f
    BY <1>5, <2>1 DEF ProcessPriceChange
  <2>3. /\ market' = market
        /\ feed'[f] = Tail(feed[f])
    BY <1>5, TakenEffect DEF Streams
  <2>4. /\ IsOpen(f)
        /\ Tail(feed[f]) = <<>> => m.market = market
        /\ Tail(feed[f]) # <<>> => Follows(Head(Tail(feed[f])), m.market)
    BY <2>1, <2>2, HeadOfStream
  <2>5. book # NoBook /\ Shows(book, inStepWith)
    BY <2>2 DEF Synced
  <2>6. Follows(m, inStepWith)
    <3>1. m \notin Books
      BY <2>2, BookFields
    <3>. QED
      BY <2>1, <2>2, <2>4, <3>1 DEF Synced
  <2>7. /\ book' # NoBook
        /\ book'.bids = IF m.side = "BUY" THEN [book.bids EXCEPT ![m.price] = m.size] ELSE book.bids
        /\ book'.asks = IF m.side = "SELL" THEN [book.asks EXCEPT ![m.price] = m.size] ELSE book.asks
        /\ Read(book').bestBid = ReportedBid(m.market)
        /\ Read(book').bestAsk = ReportedAsk(m.market)
    BY <1>5, <2>1, <2>5, ChangeProcessed
  <2>8. ASSUME NEW side \in Sides, NEW p \in Prices
        PROVE  Reflects(book', m.market, side, p)
    <3>1. /\ inStepWith \in Market /\ Reflects(book, inStepWith, side, p)
          /\ book.bids \in Side /\ book.asks \in Side
      BY <2>2, <2>5, ShowsLevels DEF Synced, Kept, Paced, IsBook
    <3>. QED
      BY <2>6, <2>7, <3>1, ChangeReflects
  <2>9. Shows(book', m.market) /\ m.market \in Market
    BY <2>6, <2>7, <2>8, ShowsLevels, ChangeFields DEF Priced, Follows
  <2>. QED
    BY <2>2, <2>3, <2>4, <2>7, <2>9 DEF Synced
<1>6. ASSUME NEW f \in Feeds, Lose(f) PROVE Synced'
  <2>1. /\ market' = market
        /\ \A g \in Feeds : feed'[g] = IF g = f THEN Tail(feed[f]) ELSE feed[g]
    BY <1>6, TakenEffect DEF Streams
  <2>2. UNCHANGED <<book, inStepWith>> /\ (source' # NoFeed => source' = source /\ source # f)
    BY <1>6 DEF Lose
  <2>. QED
    BY <2>1, <2>2 DEF Synced, IsOpen
<1>7. CASE UNCHANGED vars
  BY <1>7 DEF vars, Synced, IsOpen
<1>. QED
  BY <1>1, <1>2, <1>3, <1>4, <1>5, <1>6, <1>7 DEF Next, Sides

(* As long as one connection alone brings the messages and none of them is *)
(* lost, the book shows the one the exchange had when it sent the last one, *)
(* as far as the conversion of its prices and sizes lets it.               *)
THEOREM AlwaysInStep == Spec => []InStep
<1>1. Init => Streams /\ Kept /\ Synced
  BY StreamsInit DEF Init, Kept, Synced
<1>2. Streams /\ Kept /\ Synced /\ [Next]_vars => (Streams /\ Kept /\ Synced)'
  BY StreamsStep, KeptStep, SyncedStep
<1>3. Synced => InStep
  BY DEF Synced, InStep
<1>. QED
  BY <1>1, <1>2, <1>3, PTL DEF Spec

-----------------------------------------------------------------------------
(* Several connections.  Whatever the interleaving, a level that does not  *)
(* reflect the market is set by a message still on its way, and so are the *)
(* best prices: the inductive invariant under Converges.                   *)

Pending(side, p) ==
    \E f \in Feeds : IsOpen(f) /\ \E j \in 1..Len(feed[f]) : Touches(feed[f][j], side, p)

Unopened == \A f \in Feeds : IsOpen(f) => feed[f] # <<>> /\ Head(feed[f]) \in Books

Levelled ==
    \A side \in Sides, p \in Prices :
        Reflects(book, market, side, p) \/ Pending(side, p)

Repriced == Priced(book, market) \/ \E f \in Feeds : IsOpen(f) /\ feed[f] # <<>>

Converging ==
    ~tainted /\ (\E f \in Feeds : IsOpen(f)) =>
        IF book = NoBook THEN Unopened ELSE Levelled /\ Repriced

LEMMA ConvergingChange ==
    ASSUME Streams, Converging, NEW side \in Sides, NEW t \in Ticks, NEW s \in Sizes \cup {0},
           Change(side, t, s)
    PROVE  Converging'
<1>1. PICK c : /\ Follows(c, market) /\ c.market = market' /\ market' \in Market
               /\ \A f \in Feeds : feed'[f] = IF IsOpen(f) THEN Append(feed[f], c) ELSE feed[f]
  BY ChangeEffect
<1>2. UNCHANGED <<book, tainted>>
  BY DEF Change
<1>3. ASSUME NEW f \in Feeds
      PROVE  /\ IsOpen(f)' <=> IsOpen(f)
             /\ IsOpen(f) => /\ feed'[f] # <<>>
                             /\ feed[f] # <<>> => Head(feed'[f]) = Head(feed[f])
                             /\ Len(feed'[f]) \in 1..Len(feed'[f])
                             /\ feed'[f][Len(feed'[f])] = c
                             /\ \A j \in 1..Len(feed[f]) :
                                   j \in 1..Len(feed'[f]) /\ feed'[f][j] = feed[f][j]
  <2>1. CASE IsOpen(f)
    <3>1. feed'[f] = Append(feed[f], c)
      BY <1>1, <2>1
    <3>2. /\ feed'[f] # Closed /\ feed'[f] # <<>>
          /\ Head(feed'[f]) = IF feed[f] = <<>> THEN c ELSE Head(feed[f])
          /\ Len(feed'[f]) = Len(feed[f]) + 1 /\ Len(feed[f]) \in Nat
          /\ feed'[f][Len(feed'[f])] = c
          /\ \A j \in 1..Len(feed[f]) : feed'[f][j] = feed[f][j]
      <4>1. PICK stream : stream = Append(feed[f], c)
        OBVIOUS
      <4>2. /\ stream # Closed /\ stream # <<>>
            /\ Head(stream) = IF feed[f] = <<>> THEN c ELSE Head(feed[f])
            /\ Len(stream) = Len(feed[f]) + 1 /\ Len(feed[f]) \in Nat
            /\ stream[Len(stream)] = c
            /\ \A j \in 1..Len(feed[f]) : stream[j] = feed[f][j]
        BY <1>1, <2>1, <4>1, ChangeOnStream
      <4>. QED
        BY <3>1, <4>1, <4>2
    <3>. QED
      BY <2>1, <3>2 DEF IsOpen
  <2>2. CASE ~IsOpen(f)
    BY <1>1, <2>2 DEF IsOpen
  <2>. QED
    BY <2>1, <2>2
<1>. SUFFICES ASSUME ~tainted, NEW g \in Feeds, IsOpen(g)
              PROVE  IF book = NoBook THEN Unopened' ELSE Levelled' /\ Repriced'
  BY <1>2, <1>3 DEF Converging
<1>4. CASE book = NoBook
  <2>1. Unopened
    BY <1>4 DEF Converging
  <2>2. Unopened'
    BY <1>3, <2>1 DEF Unopened
  <2>. QED
    BY <1>4, <2>2
<1>5. CASE book # NoBook
  <2>1. Repriced'
    BY <1>3 DEF Repriced
  <2>2. ASSUME NEW x \in Sides, NEW q \in Prices
        PROVE  Reflects(book', market', x, q) \/ Pending(x, q)'
    <3>1. CASE Touches(c, x, q)
      BY <1>3, <3>1 DEF Pending
    <3>2. CASE ~Touches(c, x, q)
      <4>1. \A u \in AtPrice(q) : Level(market, x, u) = Level(market', x, u)
        BY <1>1, <3>2, UntouchedTick DEF AtPrice, Streams
      <4>2. CASE Pending(x, q)
        BY <1>3, <4>2 DEF Pending
      <4>3. CASE Reflects(book, market, x, q)
        BY <1>2, <4>1, <4>3 DEF Reflects
      <4>. QED
        BY <1>5, <4>2, <4>3 DEF Converging, Levelled
    <3>. QED
      BY <3>1, <3>2
  <2>. QED
    BY <1>5, <2>1, <2>2 DEF Levelled
<1>. QED
  BY <1>4, <1>5

LEMMA ConvergingOpen ==
    ASSUME Streams, Converging, NEW f \in Feeds, Open(f)
    PROVE  Converging'
<1>1. PICK b \in Books : /\ b.market = market
                         /\ \A g \in Feeds : feed'[g] = IF g = f THEN <<b>> ELSE feed[g]
  BY OpenEffect
<1>2. b.kind = "BOOK"
  BY BookFields
<1>3. /\ ~IsOpen(f)
      /\ \A g \in Feeds : feed'[g] = IF g = f THEN <<b>> ELSE feed[g]
      /\ UNCHANGED <<market, book, tainted>>
  BY <1>1 DEF Open
<1>4. /\ Head(<<b>>) = b /\ <<b>> # <<>> /\ 1 \in 1..Len(<<b>>) /\ <<b>>[1] = b
      /\ <<b>> # Closed
  <2>1. b # [kind |-> "closed"]
    BY <1>2
  <2>. QED
    BY <2>1 DEF Closed
<1>5. IsOpen(f)' /\ feed'[f] = <<b>>
  BY <1>3, <1>4 DEF IsOpen
<1>6. Repriced'
  BY <1>4, <1>5 DEF Repriced
<1>7. Levelled'
  <2>1. \A side \in Sides, p \in Prices : Touches(b, side, p)
    BY <1>2 DEF Touches
  <2>. QED
    BY <1>4, <1>5, <2>1 DEF Levelled, Pending
<1>8. ASSUME ~tainted, book = NoBook PROVE Unopened'
  <2>1. \A g \in Feeds \ {f} : IsOpen(g) => feed[g] # <<>> /\ Head(feed[g]) \in Books
    BY <1>8 DEF Converging, Unopened
  <2>. QED
    BY <1>2, <1>3, <1>4, <1>5, <2>1 DEF Unopened, IsOpen
<1>. QED
  BY <1>3, <1>6, <1>7, <1>8 DEF Converging

LEMMA ConvergingClose ==
    ASSUME Streams, Converging, NEW f \in Feeds, Close(f)
    PROVE  Converging'
<1>1. /\ \A g \in Feeds : feed'[g] = IF g = f THEN Closed ELSE feed[g]
      /\ UNCHANGED <<market, book>>
      /\ tainted' = (tainted \/ feed[f] # <<>>)
  BY DEF Close, Streams
<1>2. \A g \in Feeds : IsOpen(g)' => g # f /\ IsOpen(g) /\ feed'[g] = feed[g]
  BY <1>1 DEF IsOpen
<1>. SUFFICES ASSUME ~tainted', NEW g \in Feeds, IsOpen(g)'
              PROVE  IF book = NoBook THEN Unopened' ELSE Levelled' /\ Repriced'
  BY <1>1 DEF Converging
<1>3. ~tainted /\ feed[f] = <<>> /\ IsOpen(g)
  BY <1>1, <1>2
<1>4. \A h \in Feeds : IsOpen(h) /\ h # f => IsOpen(h)' /\ feed'[h] = feed[h]
  BY <1>1 DEF IsOpen
<1>5. CASE book = NoBook
  <2>1. Unopened
    BY <1>3, <1>5 DEF Converging
  <2>. QED
    BY <1>2, <1>5, <2>1 DEF Unopened
<1>6. CASE book # NoBook
  <2>1. Levelled /\ Repriced
    BY <1>3, <1>6 DEF Converging
  <2>2. Repriced'
    BY <1>1, <1>3, <1>4, <2>1 DEF Repriced
  <2>3. ASSUME NEW x \in Sides, NEW q \in Prices, Pending(x, q)
        PROVE  Pending(x, q)'
    <3>1. PICK h \in Feeds : IsOpen(h) /\ \E j \in 1..Len(feed[h]) : Touches(feed[h][j], x, q)
      BY <2>3 DEF Pending
    <3>2. h # f
      BY <1>3, <3>1
    <3>. QED
      BY <1>4, <3>1, <3>2 DEF Pending
  <2>4. Levelled'
    BY <1>1, <2>1, <2>3 DEF Levelled
  <2>. QED
    BY <1>6, <2>2, <2>4
<1>. QED
  BY <1>5, <1>6

LEMMA ConvergingBook ==
    ASSUME Streams, Kept, Converging, NEW f \in Feeds, ProcessBookSnapshot(f)
    PROVE  Converging'
<1>1. PICK m : m = Head(feed[f])
  OBVIOUS
<1>2. feed[f] # <<>> /\ m.kind = "BOOK"
  BY <1>1 DEF ProcessBookSnapshot
<1>3. market' = market /\ feed'[f] = Tail(feed[f])
  BY TakenEffect DEF Streams
<1>4. /\ Stream(Tail(feed[f]), market)
      /\ Tail(feed[f]) = <<>> => m.market = market
      /\ \A side \in Sides, tick \in Ticks :
            \/ Level(m.market, side, tick) = Level(market, side, tick)
            \/ \E j \in 1..Len(Tail(feed[f])) :
                  Touches(Tail(feed[f])[j], side, ScalePrice[tick])
  BY <1>1, <1>2, HeadOfStream
<1>5. /\ book' # NoBook
      /\ \A side \in Sides, p \in Prices : Reflects(book', m.market, side, p)
      /\ Read(book').bestBid = Highest(book'.bids)
      /\ Read(book').bestAsk = Lowest(book'.asks)
  BY <1>1, BookProcessed
<1>6. IsOpen(f)'
  BY <1>3, <1>4, OpenStream DEF IsOpen
<1>7. ASSUME NEW side \in Sides, NEW p \in Prices
      PROVE  Reflects(book', market, side, p) \/ Pending(side, p)'
  <2>1. PICK t \in AtPrice(p) : Level(book', side, p) = ScaleSize[Level(m.market, side, t)]
    BY <1>5 DEF Reflects
  <2>2. t \in Ticks /\ ScalePrice[t] = p
    BY DEF AtPrice
  <2>. QED
    BY <1>3, <1>4, <1>6, <2>1, <2>2 DEF Reflects, Pending
<1>8. Levelled'
  BY <1>3, <1>7 DEF Levelled
<1>9. Repriced'
  <2>1. CASE Tail(feed[f]) = <<>>
    BY <1>3, <1>4, <1>5, <2>1 DEF Repriced, Priced
  <2>2. CASE Tail(feed[f]) # <<>>
    BY <1>3, <1>6, <2>2 DEF Repriced
  <2>. QED
    BY <2>1, <2>2
<1>. QED
  BY <1>5, <1>8, <1>9 DEF Converging

LEMMA ConvergingPriceChange ==
    ASSUME Streams, Kept, Converging, NEW f \in Feeds, ProcessPriceChange(f)
    PROVE  Converging'
<1>1. PICK m : m = Head(feed[f])
  OBVIOUS
<1>2. feed[f] # <<>> /\ m.kind = "PRICE_CHANGE" /\ tainted' = tainted
  BY <1>1 DEF ProcessPriceChange
<1>3. /\ market' = market
      /\ \A g \in Feeds : feed'[g] = IF g = f THEN Tail(feed[f]) ELSE feed[g]
  BY TakenEffect DEF Streams
<1>4. /\ IsOpen(f) /\ m = feed[f][1] /\ feed[f] \in Seq(Messages) /\ Len(feed[f]) \in Nat \ {0}
      /\ Stream(Tail(feed[f]), market)
      /\ Tail(feed[f]) = <<>> => m.market = market
      /\ \A side \in Sides, tick \in Ticks :
            \/ Level(m.market, side, tick) = Level(market, side, tick)
            \/ \E j \in 1..Len(Tail(feed[f])) :
                  Touches(Tail(feed[f])[j], side, ScalePrice[tick])
  BY <1>1, <1>2, HeadOfStream
<1>5. IsOpen(f)' /\ \A g \in Feeds \ {f} : IsOpen(g)' <=> IsOpen(g)
  BY <1>3, <1>4, OpenStream DEF IsOpen
<1>. SUFFICES ASSUME ~tainted
              PROVE  book' # NoBook /\ Levelled' /\ Repriced'
  BY <1>2 DEF Converging
<1>6. book # NoBook
  <2>1. m \notin Books
    BY <1>2, BookFields
  <2>. QED
    BY <1>1, <1>4, <2>1 DEF Converging, Unopened
<1>7. Levelled
  BY <1>4, <1>6 DEF Converging
<1>8. /\ m \in PriceChanges
      /\ Paced(book') /\ book' # NoBook
      /\ book'.bids = IF m.side = "BUY" THEN [book.bids EXCEPT ![m.price] = m.size] ELSE book.bids
      /\ book'.asks = IF m.side = "SELL" THEN [book.asks EXCEPT ![m.price] = m.size] ELSE book.asks
      /\ Read(book').bestBid = ReportedBid(m.market)
      /\ Read(book').bestAsk = ReportedAsk(m.market)
  BY <1>1, <1>6, ChangeProcessed
<1>9. Repriced'
  <2>1. CASE Tail(feed[f]) = <<>>
    BY <1>3, <1>4, <1>8, <2>1 DEF Repriced, Priced
  <2>2. CASE Tail(feed[f]) # <<>>
    BY <1>3, <1>5, <2>2 DEF Repriced
  <2>. QED
    BY <2>1, <2>2
<1>10. ASSUME NEW side \in Sides, NEW p \in Prices
       PROVE  Reflects(book', market, side, p) \/ Pending(side, p)'
  <2>1. /\ m.side \in Sides /\ m.price \in Prices
        /\ \E t \in AtPrice(m.price) : m.size = ScaleSize[Level(m.market, m.side, t)]
        /\ book.bids \in Side /\ book.asks \in Side
    BY <1>6, <1>8, ChangeFields DEF Kept, Paced, IsBook
  <2>2. CASE m.side = side /\ m.price = p
    <3>1. PICK t \in AtPrice(p) : m.size = ScaleSize[Level(m.market, side, t)]
      BY <2>1, <2>2
    <3>2. t \in Ticks /\ ScalePrice[t] = p
      BY DEF AtPrice
    <3>3. Level(book', side, p) = m.size
      BY <1>8, <2>1, <2>2 DEF Level, Sides, Side
    <3>4. CASE Level(m.market, side, t) = Level(market, side, t)
      BY <3>1, <3>3, <3>4 DEF Reflects
    <3>5. CASE \E j \in 1..Len(Tail(feed[f])) : Touches(Tail(feed[f])[j], side, p)
      BY <1>3, <1>5, <3>5 DEF Pending
    <3>. QED
      BY <1>4, <3>2, <3>4, <3>5
  <2>3. CASE ~(m.side = side /\ m.price = p)
    <3>1. Level(book', side, p) = Level(book, side, p)
      BY <1>8, <2>1, <2>3 DEF Level, Sides, Side
    <3>2. ASSUME NEW g \in Feeds, IsOpen(g), NEW j \in 1..Len(feed[g]), Touches(feed[g][j], side, p)
          PROVE  Pending(side, p)'
      <4>1. CASE g # f
        BY <1>3, <1>5, <3>2, <4>1 DEF Pending
      <4>2. CASE g = f
        <5>1. j # 1
          BY <1>2, <1>4, <2>3, <3>2, <4>2 DEF Touches
        <5>2. PICK t : t = Tail(feed[f])
          OBVIOUS
        <5>3. /\ Len(t) = Len(feed[f]) - 1
              /\ \A i \in 1..Len(t) : t[i] = feed[f][i + 1]
          BY <1>2, <1>4, <5>2
        <5>4. j - 1 \in 1..Len(t) /\ t[j - 1] = feed[f][j]
          BY <1>4, <3>2, <4>2, <5>1, <5>3
        <5>. QED
          BY <1>3, <1>5, <3>2, <4>2, <5>2, <5>4 DEF Pending
      <4>. QED
        BY <4>1, <4>2
    <3>. QED
      BY <1>7, <3>1, <3>2 DEF Levelled, Pending, Reflects
  <2>. QED
    BY <2>2, <2>3
<1>11. Levelled'
  BY <1>3, <1>10 DEF Levelled
<1>. QED
  BY <1>8, <1>9, <1>11

LEMMA ConvergingStep ==
    ASSUME Streams, Kept, Converging, [Next]_vars
    PROVE  Converging'
<1>1. ASSUME NEW f \in Feeds, Lose(f) PROVE Converging'
  BY <1>1 DEF Lose, Converging
<1>2. CASE UNCHANGED vars
  BY <1>2 DEF vars, Converging, Unopened, Levelled, Repriced, Pending, IsOpen
<1>. QED
  BY <1>1, <1>2, ConvergingChange, ConvergingOpen, ConvergingClose, ConvergingBook,
     ConvergingPriceChange DEF Next, Sides

(* When every open connection has delivered what it had, and a BOOK has    *)
(* made up for any message lost, the book shows the exchange's, as far as  *)
(* the conversion of its prices and sizes lets it, however the messages of *)
(* any number of connections were interleaved and repeated.                *)
THEOREM BooksConverge == Spec => []Converges
<1>1. Init => Streams /\ Kept /\ Converging
  BY StreamsInit DEF Init, Kept, Converging, IsOpen
<1>2. Streams /\ Kept /\ Converging /\ [Next]_vars => (Streams /\ Kept /\ Converging)'
  BY StreamsStep, KeptStep, ConvergingStep
<1>3. ASSUME Streams, Kept, Converging,
             NEW f \in Feeds, IsOpen(f), \A g \in Feeds : feed[g] \in {Closed, <<>>}, ~tainted
      PROVE  book # NoBook /\ Shows(book, market)
  <2>1. \A g \in Feeds : IsOpen(g) => feed[g] = <<>>
    BY <1>3 DEF IsOpen
  <2>2. book # NoBook
    BY <1>3, <2>1 DEF Converging, Unopened
  <2>3. Levelled /\ Repriced
    BY <1>3, <2>2 DEF Converging
  <2>4. \A side \in Sides, p \in Prices : ~Pending(side, p)
    BY <2>1 DEF Pending
  <2>5. Priced(book, market)
    BY <2>1, <2>3 DEF Repriced
  <2>. QED
    BY <2>2, <2>3, <2>4, <2>5, ShowsLevels DEF Levelled
<1>4. Streams /\ Kept /\ Converging => Converges
  BY <1>3 DEF Converges
<1>. QED
  BY <1>1, <1>2, <1>4, PTL DEF Spec

=============================================================================

--------------------------- MODULE SignalsProofs ---------------------------
(***************************************************************************)
(* Theorems about Signals, for every session, every scale of prices and    *)
(* every parameter of the strategies.  First what one strategy makes of    *)
(* one bar, kind by kind: a lemma on each operator of RangeStrategies and  *)
(* SignalStrategies that says what becomes of range, open, limit order and *)
(* watch, and for which price an order is.  Then what the steps keep:      *)
(* between the strategy, which is not shown every bar, the market's window *)
(* of the day and the slot that is busy.                                   *)
(***************************************************************************)
EXTENDS Signals, TLAPS

-----------------------------------------------------------------------------
(* Types                                                                   *)

Directions == {"none", "BUY", "SELL"}

Limits == [direction : Directions, price : Nat, expires : Int]
Watches == [side : {"none", "up", "down"}, since : Int]
Levelled == [high : Nat, low : Nat]

RangeStates ==
    [day : Nat, high : Nat, low : Nat, complete : BOOLEAN, inRange : BOOLEAN,
     limit : Limits, watch : Watches]

SignalStates ==
    [day : Nat, limit : Limits, watch : Watches, left : Nat,
     high : Nat, low : Nat, complete : BOOLEAN, inRange : BOOLEAN,
     history : Seq(Levelled), closes : Seq(Nat), seen : Nat, bars : Nat,
     entered : BOOLEAN, compressed : BOOLEAN,
     open : Nat, lastClose : Nat, prevClose : Nat, prevHigh : Nat, prevLow : Nat,
     side : Directions, above : Nat, below : Nat, ready : SUBSET {"BUY", "SELL"}]

\* A bar that the market makes.
IsBar(b) ==
    /\ b.time \in Nat /\ b.day = DayOf(b.time) /\ b.minute = MinuteOf(b.time)
    /\ b.open \in Prices /\ b.high \in Prices /\ b.low \in Prices /\ b.close \in Prices
    /\ b.low <= b.open /\ b.open <= b.high /\ b.low <= b.close /\ b.close <= b.high
    /\ b.vwap \in Nat
    /\ b.coin = NoOrder \/ b.coin \in [direction : {"BUY", "SELL"}, price : Prices]

TypeInv ==
    /\ opts \in Options
    /\ strategy \in IF opts.entry \in RangeKinds THEN RangeStates ELSE SignalStates
    /\ bar = NoBar \/ IsBar(bar)
    /\ order \in [direction : Directions, price : Nat]
    /\ busy \in BOOLEAN
    /\ window \in [open : Nat, high : Nat, low : Nat]
    /\ window.high = 0 => window.low = 0
    /\ outside \in Watches

-----------------------------------------------------------------------------
(* What the steps keep                                                     *)

\* Those that keep a range or an open of the day, and begin each day anew.
RangeTraders == RangeKinds \cup {"vwap"}
OpenTraders == {"daytrend", "late"}

\* The strategy has seen the day's bars, but for those that come too late to act on.
KeepsTheDay ==
    opts.entry \in RangeTraders \cup OpenTraders =>
        /\ strategy.day <= bar.day
        /\ strategy.day = bar.day \/ bar.minute >= Last
        /\ busy => strategy.day = bar.day

KeepsTheRange ==
    opts.entry \in RangeTraders =>
        /\ strategy.day = bar.day => strategy.high = window.high /\ strategy.low = window.low
        /\ strategy.day = bar.day /\ strategy.complete => bar.minute >= RangeEnd
        /\ busy => strategy.complete

KeepsTheOpen ==
    opts.entry \in OpenTraders =>
        /\ strategy.day = bar.day =>
              \/ strategy.open = window.open
              \/ strategy.open = 0 /\ bar.minute >= Last
        /\ busy => strategy.open > 0

\* Only these have an open range, a limit order or a watch.
KeepsToItsKind ==
    /\ opts.entry \notin RangeTraders => ~strategy.complete
    /\ strategy.limit # NoLimit =>
          /\ opts.entry \in {"retest", "random"}
          /\ strategy.limit.direction \in {"BUY", "SELL"}
          /\ opts.entry = "retest" => strategy.complete
    /\ strategy.watch # NoWatch => opts.entry = "fade" /\ strategy.complete

FadesTheLast ==
    strategy.watch # NoWatch => outside = strategy.watch

FollowsTheFirst ==
    opts.entry = "vwap" /\ strategy.day = bar.day =>
        \/ outside = NoWatch /\ strategy.side = "none"
        \/ outside.side = "up" /\ strategy.side = "BUY"
        \/ outside.side = "down" /\ strategy.side = "SELL"

SignalInv ==
    /\ TypeInv
    /\ KeepsTheDay /\ KeepsTheRange /\ KeepsTheOpen
    /\ KeepsToItsKind /\ FadesTheLast /\ FollowsTheFirst
    /\ NothingPendingWhileBusy /\ OrderIsTradable

-----------------------------------------------------------------------------
(* Time and bars                                                           *)

\* A day has its bars, and its range ends before its last.
LEMMA DayLengthIs == DayLength \in Nat \ {0} /\ Last \in Nat /\ Early \in Nat
                     /\ DayLength = Last + Early + 1 /\ RangeEnd \in Nat \ {0} /\ RangeEnd <= Last
BY SignalsAssumption, RangeStrategiesAssumption DEF DayLength

\* Division with remainder.
LEMMA DivMod ==
    ASSUME NEW n \in Int, NEW m \in Nat \ {0}
    PROVE  n \div m \in Int /\ n % m \in 0..(m - 1) /\ n = m * (n \div m) + (n % m)
OBVIOUS

\* Days and minutes of later times are no earlier.
LEMMA TimeGoesOn ==
    ASSUME NEW t \in Nat, NEW u \in Nat, t < u
    PROVE  /\ DayOf(t) \in Nat \ {0} /\ DayOf(u) \in Nat \ {0} /\ DayOf(t) <= DayOf(u)
           /\ MinuteOf(t) \in Int /\ MinuteOf(u) \in Int
           /\ MinuteOf(t) <= Last /\ MinuteOf(u) <= Last
           /\ DayOf(t) = DayOf(u) => MinuteOf(t) < MinuteOf(u)
<1>. DEFINE m == DayLength
<1>1. m \in Nat \ {0} /\ m = Last + Early + 1 /\ Last \in Nat /\ Early \in Nat
  BY DayLengthIs
<1>. HIDE DEF m
<1>. DEFINE qt == t \div m
            rt == t % m
            qu == u \div m
            ru == u % m
<1>0. t \in Int /\ u \in Int /\ m \in Nat \ {0}
  BY <1>1
<1>2. qt \in Int /\ rt \in 0..(m - 1) /\ t = m * qt + rt
  BY <1>0, DivMod, Zenon
<1>3. qu \in Int /\ ru \in 0..(m - 1) /\ u = m * qu + ru
  BY <1>0, DivMod, Zenon
<1>4. /\ DayOf(t) = qt + 1 /\ MinuteOf(t) = rt - Early
      /\ DayOf(u) = qu + 1 /\ MinuteOf(u) = ru - Early
  BY DEF DayOf, MinuteOf, m
<1>. HIDE DEF qt, rt, qu, ru
<1>5. qt >= 0 /\ qu >= 0
  <2>1. \A q \in Int : q < 0 => m * q <= -m
    BY <1>1
  <2>. QED
    BY <1>1, <1>2, <1>3, <2>1
<1>6. qt <= qu
  <2>1. CASE qt - qu >= 1
    <3>1. m * (qt - qu) >= m
      BY <1>1, <1>2, <1>3, <2>1
    <3>2. m * (qt - qu) = m * qt - m * qu
      BY <1>1, <1>2, <1>3
    <3>. QED
      BY <1>1, <1>2, <1>3, <3>1, <3>2
  <2>. QED
    BY <1>2, <1>3, <2>1
<1>7. qt = qu => rt < ru
  BY <1>1, <1>2, <1>3
<1>. QED
  BY <1>1, <1>2, <1>3, <1>4, <1>5, <1>6, <1>7

\* What the market may make of a bar is one.
LEMMA BarsAreBars ==
    ASSUME NEW time \in Nat, NEW entry, NEW b \in BarsAt(time, entry)
    PROVE  IsBar(b) /\ b.time = time
<1>. DEFINE Averages(e) == IF e = "vwap" THEN 2..(MaxPrice - 1) ELSE {0}
<1>. DEFINE Made(x) ==
        {[day |-> DayOf(time), minute |-> MinuteOf(time), time |-> time,
          open |-> x.open, high |-> x.high, low |-> x.low, close |-> x.close,
          stop |-> ~noStop, stopBefore |-> stopBefore,
          vwap |-> vwap, quiet |-> quiet, coin |-> coin] :
             noStop \in Free(entry, RangeKinds \cup {"vwap", "midday", "late", "gap"}),
             stopBefore \in Free(entry, {"retest", "random"}),
             vwap \in Averages(entry),
             quiet \in Free(entry, {"midday"}),
             coin \in Coins(entry, x.close)}
<1>0. BarsAt(time, entry) = UNION {Made(x) : x \in CandlesFor(entry)}
  BY DEF BarsAt
<1>1. PICK x \in CandlesFor(entry) : b \in Made(x)
  <2>. HIDE DEF Made
  <2>. QED
    BY <1>0
<1>. HIDE DEF Averages
<1>2. PICK noStop \in Free(entry, RangeKinds \cup {"vwap", "midday", "late", "gap"}),
           stopBefore \in Free(entry, {"retest", "random"}),
           vwap \in Averages(entry), quiet \in Free(entry, {"midday"}),
           coin \in Coins(entry, x.close) :
              b = [day |-> DayOf(time), minute |-> MinuteOf(time), time |-> time,
                   open |-> x.open, high |-> x.high, low |-> x.low, close |-> x.close,
                   stop |-> ~noStop, stopBefore |-> stopBefore,
                   vwap |-> vwap, quiet |-> quiet, coin |-> coin]
  BY <1>1, SMTT(20)
<1>6. /\ b.time = time /\ b.day = DayOf(time) /\ b.minute = MinuteOf(time)
      /\ b.open = x.open /\ b.high = x.high /\ b.low = x.low /\ b.close = x.close
      /\ b.coin \in Coins(entry, x.close) /\ b.vwap \in Averages(entry)
  BY <1>2
<1>3. /\ x.open \in Prices /\ x.high \in Prices /\ x.low \in Prices /\ x.close \in Prices
      /\ x.low <= x.open /\ x.open <= x.high /\ x.low <= x.close /\ x.close <= x.high
  BY DEF CandlesFor, Candles
<1>4. b.coin = NoOrder \/ b.coin \in [direction : {"BUY", "SELL"}, price : Prices]
  <2>1. Highest(entry) \in Int /\ Highest(entry) <= MaxPrice
    BY SignalsAssumption DEF Highest
  <2>. QED
    BY <1>6, <2>1, SignalsAssumption DEF Coins, OrderAt, Prices
<1>5. b.vwap \in Nat
  BY <1>6, SignalsAssumption DEF Averages
<1>. QED
  BY <1>3, <1>4, <1>5, <1>6 DEF IsBar

\* The bar that comes next, after bar a.
Follows(a, b) ==
    /\ IsBar(b) /\ b.day \in Nat \ {0} /\ b.minute \in Int /\ b.minute <= Last
    /\ a.day \in Nat /\ a.minute \in Int /\ a.day <= b.day
    /\ a.day = b.day => a.minute < b.minute

\* A later bar follows.
LEMMA NextFollows ==
    ASSUME NEW a, a = NoBar \/ IsBar(a),
           NEW b, IsBar(b), b.time > a.time
    PROVE  Follows(a, b)
<1>1. CASE a = NoBar
  <2>1. a.day = 0 /\ a.minute = 0
    BY <1>1 DEF NoBar
  <2>2. b.time \in Nat /\ b.time < b.time + 1
    BY DEF IsBar
  <2>3. /\ DayOf(b.time) \in Nat \ {0} /\ MinuteOf(b.time) \in Int
        /\ MinuteOf(b.time) <= Last
    BY <2>2, TimeGoesOn
  <2>. QED
    BY <2>1, <2>3 DEF Follows, IsBar
<1>2. CASE IsBar(a)
  BY <1>2, TimeGoesOn DEF Follows, IsBar
<1>. QED
  BY <1>1, <1>2

-----------------------------------------------------------------------------
(* The strategies that trade a range                                       *)

Orders == [direction : Directions, price : Nat]

\* A state of one with such options: a limit order or a watch needs a range.
RangeState(o, s) ==
    /\ s \in RangeStates
    /\ s.limit # NoLimit => o.entry = "retest" /\ s.complete /\ s.limit.direction \in {"BUY", "SELL"}
    /\ s.watch # NoWatch => o.entry = "fade" /\ s.complete

\* The range forms on b.
Forms(o, s, b) == ~s.complete /\ InWindow(o, b)

\* What bar b of its day may make of state s.
RangeGoesOn(o, s, b, t) ==
    /\ RangeState(o, t)
    /\ t.day = s.day
    /\ Forms(o, s, b) => ~t.complete /\ t.high = Widen(s, b).high /\ t.low = Widen(s, b).low
    /\ ~Forms(o, s, b) => t.high = s.high /\ t.low = s.low
    /\ t.complete => s.complete \/ b.minute >= RangeEnd

\* A fade's watch is the one it had, or of this bar.
WatchGoesOn(s, b, t) ==
    \/ t.watch = s.watch /\ ~(t.high > t.low /\ Breakout(t, b) # "none")
    \/ /\ Breakout(t, b) # "none" /\ t.high > t.low
       /\ t.watch = [side |-> Breakout(t, b), since |-> b.time]

\* What a fade answers to.
FadesWatch(s, b, d) ==
    /\ s.watch # NoWatch /\ b.time < s.watch.since + FadeWindow
    /\ d.direction = IF s.watch.side = "up" THEN "SELL" ELSE "BUY"

\* An order follows an earlier range, is for a price of the bar and leaves
\* nothing pending.
RangeAnswer(o, s, b, t, d) ==
    /\ RangeGoesOn(o, s, b, t)
    /\ d \in Orders
    /\ o.entry = "fade" => /\ d = NoOrder /\ t.watch # NoWatch => WatchGoesOn(s, b, t)
                           /\ d # NoOrder => FadesWatch(s, b, d)
    /\ d # NoOrder =>
          /\ t.complete /\ t.limit = NoLimit /\ t.watch = NoWatch
          /\ b.low <= d.price /\ d.price <= b.high

\* The sides of a breakout.
LEMMA BreakoutIs ==
    \A s, b : Breakout(s, b) \in {"none", "up", "down"}
BY DEF Breakout

\* Nothing is an order, a limit and a watch of its own.
LEMMA NothingIs ==
    /\ NoOrder \in Orders /\ NoLimit \in Limits /\ NoWatch \in Watches
    /\ NoOrder.direction = "none" /\ NoLimit.direction = "none" /\ NoWatch.side = "none"
BY DEF NoOrder, NoLimit, NoWatch, Orders, Limits, Watches, Directions, NoTime

\* The numbers of a bar.
LEMMA BarIs ==
    ASSUME NEW b, IsBar(b)
    PROVE  /\ b.time \in Nat /\ b.vwap \in Nat
           /\ b.open \in Nat \ {0} /\ b.high \in Nat \ {0} /\ b.low \in Nat \ {0} /\ b.close \in Nat \ {0}
           /\ b.low <= b.open /\ b.open <= b.high /\ b.low <= b.close /\ b.close <= b.high
           /\ b.coin = NoOrder \/ b.coin \in [direction : {"BUY", "SELL"}, price : Nat]
BY SignalsAssumption DEF IsBar, Prices

\* The range widens.
LEMMA WidenIs ==
    ASSUME NEW o, NEW s, RangeState(o, s), NEW b, IsBar(b), Forms(o, s, b)
    PROVE  RangeAnswer(o, s, b, Widen(s, b), NoOrder)
<1>. DEFINE t == Widen(s, b)
<1>1. b.high \in Nat /\ b.low \in Nat /\ b.minute = b.minute
  BY BarIs
<1>2. /\ t \in RangeStates /\ t.day = s.day /\ t.complete = s.complete
      /\ t.limit = s.limit /\ t.watch = s.watch
  BY <1>1 DEF RangeState, RangeStates, Widen, Higher, Lower
<1>3. t.watch = NoWatch /\ t.limit = NoLimit /\ ~t.complete
  BY <1>2 DEF RangeState, Forms
<1>. QED
  BY <1>2, <1>3, NothingIs DEF RangeAnswer, RangeGoesOn, RangeState

\* The range is complete or not.
LEMMA CompletedIs ==
    ASSUME NEW o, NEW s, RangeState(o, s), NEW b
    PROVE  LET t == Completed(s, b) IN
           /\ RangeState(o, t)
           /\ t.day = s.day /\ t.high = s.high /\ t.low = s.low
           /\ t.limit = s.limit /\ t.watch = s.watch
           /\ t.complete => s.complete \/ b.minute >= RangeEnd
BY DEF RangeState, RangeStates, Completed

\* An entry on the close.
LEMMA EnterAtCloseIs ==
    ASSUME NEW o, o.entry = "close", NEW s, RangeState(o, s), s.complete, NEW b, IsBar(b)
    PROVE  RangeAnswer(o, s, b, EnterAtClose(s, b).strategy, EnterAtClose(s, b).order)
<1>. DEFINE a == EnterAtClose(s, b)
<1>1. a.strategy = s
  BY DEF EnterAtClose, Answer
<1>2. s.watch = NoWatch /\ s.limit = NoLimit
  BY DEF RangeState
<1>3. a.order = NoOrder \/ (a.order \in Orders /\ a.order.price = b.close)
  BY BarIs DEF EnterAtClose, Answer, OrderAt, Orders, Directions
<1>. HIDE DEF a
<1>4. a.order \in Orders /\ (a.order # NoOrder => b.low <= a.order.price /\ a.order.price <= b.high)
  BY <1>3, BarIs, NothingIs
<1>5. RangeGoesOn(o, s, b, s)
  BY DEF RangeGoesOn, Forms
<1>. QED
  BY <1>1, <1>2, <1>4, <1>5 DEF RangeAnswer, a

\* A limit order at the edge of the range.
LEMMA PlaceLimitIs ==
    ASSUME NEW o, o.entry = "retest", NEW s, RangeState(o, s), s.complete, s.limit = NoLimit,
           NEW b, IsBar(b)
    PROVE  /\ RangeAnswer(o, s, b, PlaceLimit(s, b).strategy, PlaceLimit(s, b).order)
           /\ PlaceLimit(s, b).order = NoOrder
<1>. DEFINE a == PlaceLimit(s, b)
            l == [direction |-> IF Breakout(s, b) = "up" THEN "BUY" ELSE "SELL",
                  price     |-> IF Breakout(s, b) = "up" THEN s.high ELSE s.low,
                  expires   |-> HourEnd(b.time)]
<1>1. l \in Limits /\ l.direction \in {"BUY", "SELL"}
  <2>1. HourEnd(b.time) \in Int
    BY BarIs, RangeStrategiesAssumption DEF HourEnd
  <2>. QED
    BY <2>1 DEF RangeState, RangeStates, Limits, Directions
<1>2. a.order = NoOrder /\ (a.strategy = s \/ a.strategy = [s EXCEPT !.limit = l])
  BY DEF PlaceLimit, Answer
<1>. HIDE DEF a, l
<1>3. /\ RangeState(o, a.strategy)
      /\ a.strategy.day = s.day /\ a.strategy.complete
      /\ a.strategy.high = s.high /\ a.strategy.low = s.low
  BY <1>1, <1>2 DEF RangeState, RangeStates
<1>4. RangeGoesOn(o, s, b, a.strategy)
  BY <1>3 DEF RangeGoesOn, Forms
<1>. QED
  BY <1>2, <1>4, NothingIs DEF RangeAnswer, a

\* The watch of a fade is cleared, kept or begun anew.
LEMMA RewatchIs ==
    ASSUME NEW o, o.entry = "fade", NEW s, RangeState(o, s), s.complete, s.high > s.low,
           NEW w, RangeState(o, w), w.complete, w.day = s.day, w.high = s.high, w.low = s.low,
           w.watch \in {NoWatch, s.watch}, NEW b, IsBar(b)
    PROVE  LET t == Rewatch(w, b) IN
           /\ RangeState(o, t) /\ t.complete
           /\ t.day = s.day /\ t.high = s.high /\ t.low = s.low
           /\ t.watch # NoWatch => WatchGoesOn(s, b, t)
<1>. DEFINE t == Rewatch(w, b)
            x == [side |-> Breakout(w, b), since |-> b.time]
<1>1. Breakout(w, b) \in {"none", "up", "down"} /\ b.time \in Int
  BY BreakoutIs, BarIs
<1>2. x \in Watches /\ x.side = Breakout(w, b)
  BY <1>1 DEF Watches
<1>3. \/ Breakout(w, b) = "none" /\ t = w
      \/ Breakout(w, b) # "none" /\ t = [w EXCEPT !.watch = x]
  BY DEF Rewatch
<1>. HIDE DEF t, x
<1>4. /\ RangeState(o, t) /\ t.complete
      /\ t.day = s.day /\ t.high = s.high /\ t.low = s.low
      /\ t = w \/ t.watch = x
  BY <1>2, <1>3 DEF RangeState, RangeStates
<1>5. Breakout(t, b) = Breakout(w, b)
  BY <1>4 DEF Breakout
<1>6. t.watch # NoWatch => WatchGoesOn(s, b, t)
  <2>1. CASE Breakout(w, b) = "none" /\ t = w
    BY <1>5, <2>1 DEF WatchGoesOn
  <2>2. CASE Breakout(w, b) # "none" /\ t = [w EXCEPT !.watch = x]
    <3>1. t.watch = x
      BY <2>2 DEF RangeState, RangeStates
    <3>2. t.high > t.low
      BY <1>4
    <3>. QED
      BY <1>5, <2>2, <3>1, <3>2 DEF WatchGoesOn, x
  <2>. QED
    BY <1>3, <2>1, <2>2
<1>. QED
  BY <1>4, <1>6 DEF t

\* A fade enters against a breakout that has come back, on the bar's close.
LEMMA TryFadeIs ==
    ASSUME NEW o, o.entry = "fade", NEW s, RangeState(o, s), s.complete, s.high > s.low,
           NEW b, IsBar(b)
    PROVE  RangeAnswer(o, s, b, TryFade(o, s, b).strategy, TryFade(o, s, b).order)
<1>. DEFINE a == TryFade(o, s, b)
            w == LiveWatch(s, b)
            c == [w EXCEPT !.watch = NoWatch]
            d == OrderAt(IF w.watch.side = "up" THEN "SELL" ELSE "BUY", b.close)
<1>1. /\ RangeState(o, w) /\ w.complete
      /\ w.day = s.day /\ w.high = s.high /\ w.low = s.low
      /\ w.watch \in {NoWatch, s.watch}
      /\ w.watch # NoWatch => w.watch = s.watch /\ ~Expired(s.watch, b)
  BY NothingIs DEF LiveWatch, RangeState, RangeStates
<1>2. \/ a = Answer(Rewatch(w, b), NoOrder)
      \/ a = Answer(Rewatch(c, b), NoOrder)
      \/ w.watch # NoWatch /\ a = Answer(c, d)
  BY DEF TryFade
<1>. HIDE DEF w, a
<1>3. /\ RangeState(o, c) /\ c.complete
      /\ c.day = s.day /\ c.high = s.high /\ c.low = s.low
      /\ c.watch = NoWatch
  BY <1>1, NothingIs DEF RangeState, RangeStates
<1>4. d \in Orders /\ d.price = b.close /\ d.direction = IF w.watch.side = "up" THEN "SELL" ELSE "BUY"
  BY BarIs DEF Orders, OrderAt, Directions
<1>. HIDE DEF c, d
<1>5. ASSUME NEW t, RangeState(o, t), t.complete, t.day = s.day, t.high = s.high, t.low = s.low
      PROVE  RangeGoesOn(o, s, b, t)
  BY <1>5 DEF RangeGoesOn, Forms
<1>6. ASSUME NEW t, t = Rewatch(w, b) \/ t = Rewatch(c, b), a = Answer(t, NoOrder)
      PROVE  RangeAnswer(o, s, b, a.strategy, a.order)
  <2>1. /\ RangeState(o, t) /\ t.complete
        /\ t.day = s.day /\ t.high = s.high /\ t.low = s.low
        /\ t.watch # NoWatch => WatchGoesOn(s, b, t)
    BY <1>1, <1>3, <1>6, RewatchIs
  <2>2. a.strategy = t /\ a.order = NoOrder
    BY <1>6 DEF Answer
  <2>. QED
    BY <1>5, <2>1, <2>2, NothingIs DEF RangeAnswer
<1>7. ASSUME w.watch # NoWatch, a = Answer(c, d)
      PROVE  RangeAnswer(o, s, b, a.strategy, a.order)
  <2>1. a.strategy = c /\ a.order = d
    BY <1>7 DEF Answer
  <2>2. FadesWatch(s, b, d)
    <3>1. w.watch = s.watch /\ ~(b.time >= s.watch.since + FadeWindow)
      BY <1>1, <1>7 DEF Expired
    <3>2. b.time \in Int /\ s.watch.since \in Int /\ FadeWindow \in Int
      BY BarIs, RangeStrategiesAssumption DEF RangeState, RangeStates, Watches
    <3>. QED
      BY <1>4, <1>7, <3>1, <3>2 DEF FadesWatch
  <2>3. b.low <= d.price /\ d.price <= b.high
    BY <1>4, BarIs
  <2>4. c.limit = NoLimit
    BY <1>3 DEF RangeState
  <2>. QED
    BY <1>3, <1>4, <1>5, <2>1, <2>2, <2>3, <2>4 DEF RangeAnswer
<1>. QED
  BY <1>2, <1>6, <1>7 DEF a

\* Late in the day a fade gives up, before that it tries.
LEMMA FadeIs ==
    ASSUME NEW o, o.entry = "fade", NEW s, RangeState(o, s), s.complete, s.high > s.low,
           NEW b, IsBar(b)
    PROVE  RangeAnswer(o, s, b, Fade(o, s, b).strategy, Fade(o, s, b).order)
<1>. DEFINE c == [s EXCEPT !.watch = NoWatch]
<1>1. CASE Fade(o, s, b) = Answer(c, NoOrder)
  <2>1. Fade(o, s, b).strategy = c /\ Fade(o, s, b).order = NoOrder
    BY <1>1 DEF Answer
  <2>2. /\ RangeState(o, c) /\ c.complete /\ c.watch = NoWatch
        /\ c.day = s.day /\ c.high = s.high /\ c.low = s.low
    BY NothingIs DEF RangeState, RangeStates
  <2>. HIDE DEF c
  <2>3. RangeGoesOn(o, s, b, c)
    BY <2>2 DEF RangeGoesOn, Forms
  <2>. QED
    BY <2>1, <2>2, <2>3, NothingIs DEF RangeAnswer
<1>2. CASE Fade(o, s, b) = TryFade(o, s, b)
  BY <1>2, TryFadeIs
<1>. QED
  BY <1>1, <1>2 DEF Fade

\* A state that is left alone.
LEMMA StayIs ==
    ASSUME NEW o, NEW s, RangeState(o, s), NEW b, ~Forms(o, s, b),
           ~(s.high > s.low /\ s.complete)
    PROVE  RangeAnswer(o, s, b, s, NoOrder)
<1>1. RangeGoesOn(o, s, b, s)
  BY DEF RangeGoesOn
<1>2. s.watch # NoWatch => WatchGoesOn(s, b, s)
  BY DEF WatchGoesOn, RangeState
<1>. QED
  BY <1>1, <1>2, NothingIs DEF RangeAnswer

\* After the range: what each kind decides.
LEMMA DecideIs ==
    ASSUME NEW o, o.entry \in RangeKinds, NEW s, RangeState(o, s), s.limit = NoLimit,
           NEW b, IsBar(b), ~Forms(o, s, b)
    PROVE  /\ RangeAnswer(o, s, b, Decide(o, s, b).strategy, Decide(o, s, b).order)
           /\ o.entry = "retest" => Decide(o, s, b).order = NoOrder
<1>1. CASE ~s.complete \/ s.high <= s.low
  <2>1. Decide(o, s, b).strategy = s /\ Decide(o, s, b).order = NoOrder
    BY <1>1 DEF Decide, Answer
  <2>2. s.high \in Nat /\ s.low \in Nat
    BY DEF RangeState, RangeStates
  <2>. QED
    BY <1>1, <2>1, <2>2, StayIs
<1>2. CASE s.complete /\ ~(s.high <= s.low)
  <2>1. s.high > s.low
    BY <1>2 DEF RangeState, RangeStates
  <2>2. CASE o.entry = "close"
    <3>1. Decide(o, s, b) = EnterAtClose(s, b)
      BY <1>2, <2>2 DEF Decide
    <3>. QED
      BY <1>2, <2>2, <3>1, EnterAtCloseIs
  <2>3. CASE o.entry = "retest"
    <3>1. Decide(o, s, b) = PlaceLimit(s, b)
      BY <1>2, <2>3 DEF Decide
    <3>. QED
      BY <1>2, <2>3, <3>1, PlaceLimitIs
  <2>4. CASE o.entry = "fade"
    <3>1. Decide(o, s, b) = Fade(o, s, b)
      BY <1>2, <2>4 DEF Decide
    <3>. QED
      BY <1>2, <2>1, <2>4, <3>1, FadeIs
  <2>. QED
    BY <2>2, <2>3, <2>4 DEF RangeKinds
<1>. QED
  BY <1>1, <1>2

\* No limit order stands.
LEMMA AfterLimitIs ==
    ASSUME NEW o, o.entry \in RangeKinds, NEW s, RangeState(o, s), s.limit = NoLimit,
           NEW b, IsBar(b)
    PROVE  /\ RangeAnswer(o, s, b, AfterLimit(o, s, b).strategy, AfterLimit(o, s, b).order)
           /\ o.entry = "retest" => AfterLimit(o, s, b).order = NoOrder
<1>1. CASE Forms(o, s, b)
  <2>1. AfterLimit(o, s, b).strategy = Widen(s, b) /\ AfterLimit(o, s, b).order = NoOrder
    BY <1>1 DEF AfterLimit, Answer, Forms
  <2>. QED
    BY <1>1, <2>1, WidenIs
<1>2. CASE ~Forms(o, s, b)
  <2>. DEFINE c == Completed(s, b)
              t == Decide(o, c, b).strategy
              d == Decide(o, c, b).order
  <2>1. AfterLimit(o, s, b) = Decide(o, c, b)
    BY <1>2 DEF AfterLimit, Forms
  <2>2. /\ RangeState(o, c)
        /\ c.day = s.day /\ c.high = s.high /\ c.low = s.low
        /\ c.limit = s.limit /\ c.watch = s.watch
        /\ c.complete => s.complete \/ b.minute >= RangeEnd
    BY CompletedIs
  <2>3. s.complete => c.complete
    BY DEF Completed, RangeState, RangeStates
  <2>. HIDE DEF c
  <2>4. ~Forms(o, c, b)
    BY <1>2, <2>3 DEF Forms
  <2>5. /\ RangeAnswer(o, c, b, t, d)
        /\ o.entry = "retest" => d = NoOrder
    BY <2>2, <2>4, DecideIs
  <2>. HIDE DEF t, d
  <2>6. RangeGoesOn(o, s, b, t)
    BY <1>2, <2>2, <2>4, <2>5 DEF RangeAnswer, RangeGoesOn
  <2>7. /\ WatchGoesOn(c, b, t) => WatchGoesOn(s, b, t)
        /\ FadesWatch(c, b, d) => FadesWatch(s, b, d)
    BY <2>2 DEF WatchGoesOn, FadesWatch
  <2>8. RangeAnswer(o, s, b, t, d)
    BY <2>5, <2>6, <2>7 DEF RangeAnswer
  <2>. QED
    BY <2>1, <2>5, <2>8 DEF t, d
<1>. QED
  BY <1>1, <1>2

\* A limit order of the range is for a price of the bar that reaches it.
LEMMA FillPriceIs ==
    ASSUME NEW l \in Limits, NEW b, IsBar(b), Reached(l, b)
    PROVE  /\ FillPrice(l, b) \in Nat
           /\ b.low <= FillPrice(l, b) /\ FillPrice(l, b) <= b.high
BY BarIs DEF Limits, Reached, FillPrice, Lower, Higher

\* The limit order in hand ends by being filled, or is as before.
LimitAnswer(s, b, t, d) ==
    IF Stands(s.limit, b)
    THEN /\ t.limit # s.limit => Reached(s.limit, b)
         /\ Reached(s.limit, b) /\ b.stopBefore => d # NoOrder
    ELSE d = NoOrder

\* The session is open.
LEMMA InSessionIs ==
    ASSUME NEW o, o.entry \in RangeKinds, NEW s, RangeState(o, s), NEW b, IsBar(b)
    PROVE  LET a == InSession(o, s, b) IN
           /\ RangeAnswer(o, s, b, a.strategy, a.order)
           /\ o.entry = "retest" => LimitAnswer(s, b, a.strategy, a.order)
<1>. DEFINE a == InSession(o, s, b)
<1>1. CASE Stands(s.limit, b) /\ ~Reached(s.limit, b)
  <2>1. a.strategy = s /\ a.order = NoOrder
    BY <1>1 DEF InSession, Answer
  <2>2. s.complete /\ s.watch = NoWatch
    BY <1>1 DEF Stands, RangeState
  <2>. HIDE DEF a
  <2>3. RangeGoesOn(o, s, b, s)
    BY <2>2 DEF RangeGoesOn, Forms
  <2>4. RangeAnswer(o, s, b, s, NoOrder)
    BY <2>2, <2>3, NothingIs DEF RangeAnswer
  <2>. QED
    BY <1>1, <2>1, <2>4 DEF LimitAnswer, a
<1>2. CASE Stands(s.limit, b) /\ Reached(s.limit, b) /\ b.stopBefore
  <2>. DEFINE c == [s EXCEPT !.limit = NoLimit]
              d == OrderAt(s.limit.direction, FillPrice(s.limit, b))
  <2>1. a.strategy = c /\ a.order = d
    BY <1>2 DEF InSession, FillLimit, Answer
  <2>2. s.complete /\ s.watch = NoWatch /\ o.entry = "retest"
        /\ s.limit.direction \in {"BUY", "SELL"} /\ s.limit \in Limits
    BY <1>2 DEF Stands, RangeState, RangeStates
  <2>3. d \in Orders /\ d # NoOrder /\ b.low <= d.price /\ d.price <= b.high
    BY <1>2, <2>2, FillPriceIs, NothingIs DEF Orders, OrderAt, Directions
  <2>4. /\ RangeState(o, c) /\ c.complete /\ c.watch = NoWatch /\ c.limit = NoLimit
        /\ c.day = s.day /\ c.high = s.high /\ c.low = s.low
    BY <2>2, NothingIs DEF RangeState, RangeStates
  <2>. HIDE DEF c, d, a
  <2>5. RangeGoesOn(o, s, b, c)
    BY <2>2, <2>4 DEF RangeGoesOn, Forms
  <2>6. RangeAnswer(o, s, b, c, d)
    BY <2>2, <2>3, <2>4, <2>5 DEF RangeAnswer
  <2>. QED
    BY <1>2, <2>1, <2>3, <2>6 DEF LimitAnswer, a
<1>3. CASE ~Stands(s.limit, b) \/ (Reached(s.limit, b) /\ ~b.stopBefore)
  <2>. DEFINE c == [s EXCEPT !.limit = NoLimit]
              t == AfterLimit(o, c, b).strategy
              d == AfterLimit(o, c, b).order
  <2>1. a = AfterLimit(o, c, b)
    BY <1>3 DEF InSession
  <2>2. /\ RangeState(o, c) /\ c.limit = NoLimit /\ c.watch = s.watch
        /\ c.day = s.day /\ c.high = s.high /\ c.low = s.low /\ c.complete = s.complete
    BY NothingIs DEF RangeState, RangeStates
  <2>. HIDE DEF c
  <2>3. /\ RangeAnswer(o, c, b, t, d)
        /\ o.entry = "retest" => d = NoOrder
    BY <2>2, AfterLimitIs
  <2>. HIDE DEF t, d, a
  <2>4. Forms(o, c, b) = Forms(o, s, b)
    BY <2>2 DEF Forms
  <2>5. Widen(c, b).high = Widen(s, b).high /\ Widen(c, b).low = Widen(s, b).low
    BY <2>2 DEF Widen, RangeState, RangeStates
  <2>6. RangeGoesOn(o, s, b, t)
    BY <2>2, <2>3, <2>4, <2>5 DEF RangeAnswer, RangeGoesOn
  <2>7. /\ WatchGoesOn(c, b, t) => WatchGoesOn(s, b, t)
        /\ FadesWatch(c, b, d) => FadesWatch(s, b, d)
    BY <2>2 DEF WatchGoesOn, FadesWatch
  <2>8. RangeAnswer(o, s, b, t, d)
    BY <2>3, <2>6, <2>7 DEF RangeAnswer
  <2>9. o.entry = "retest" => LimitAnswer(s, b, t, d)
    BY <1>3, <2>3 DEF LimitAnswer
  <2>. QED
    BY <2>1, <2>8, <2>9 DEF t, d, a
<1>. QED
  BY <1>1, <1>2, <1>3

-----------------------------------------------------------------------------
(* The other strategies                                                    *)

\* The state of one that keeps no range, limit order or watch, and what it
\* makes of it: those stay as they are.
Plain(s, t) ==
    /\ t \in SignalStates
    /\ t.limit = s.limit /\ t.watch = s.watch /\ t.complete = s.complete

\* Its order is for the close of the bar.
ClosePrice(b, d) == d = NoOrder \/ (d \in Orders /\ d.price = b.close)

\* Nothing is left out of a state, and bars are whole numbers.
LEMMA PlainAgain ==
    ASSUME NEW s, NEW t, NEW u, Plain(s, t), Plain(t, u)
    PROVE  Plain(s, u)
BY DEF Plain

\* The parameters that count bars.
LEMMA SignalConstants ==
    /\ Lookback \in Nat \ {0, 1} /\ TrendBars \in Nat /\ EntryFrom \in Nat
    /\ MinRanges \in Nat /\ ReadyBars \in Nat \ {0} /\ LimitBars \in Nat \ {0}
BY SignalStrategiesAssumption

\* The candle buffer takes the bar.
LEMMA RememberIs ==
    ASSUME NEW s \in SignalStates, NEW b, IsBar(b)
    PROVE  /\ Plain(s, Remember(s, b))
           /\ Remember(s, b).day = s.day /\ Remember(s, b).open = s.open
<1>. DEFINE longer == Append(s.history, [high |-> b.high, low |-> b.low])
            h == IF Len(longer) > Lookback THEN Tail(longer) ELSE longer
            n == Lower(s.seen + 1, Lookback + 1)
<1>1. h \in Seq(Levelled)
  <2>1. [high |-> b.high, low |-> b.low] \in Levelled
    BY BarIs DEF Levelled
  <2>2. s.history \in Seq(Levelled)
    BY DEF SignalStates
  <2>3. longer \in Seq(Levelled) /\ longer # <<>>
    BY <2>1, <2>2
  <2>. HIDE DEF longer
  <2>. QED
    BY <2>3 DEF h
<1>2. n \in Nat
  BY SignalConstants, SMTT(20) DEF SignalStates, Lower
<1>3. Remember(s, b) = [s EXCEPT !.history = h, !.seen = n]
  BY DEF Remember, SignalStates
<1>. HIDE DEF h, n
<1>. QED
  BY <1>1, <1>2, <1>3, ZenonT(40) DEF Plain, SignalStates

\* So do the closes.
LEMMA RememberCloseIs ==
    ASSUME NEW s \in SignalStates, NEW b, IsBar(b)
    PROVE  Plain(s, RememberClose(s, b))
<1>. DEFINE longer == Append(s.closes, b.close)
            h == IF Len(longer) > Lookback THEN Tail(longer) ELSE longer
<1>1. h \in Seq(Nat)
  <2>1. b.close \in Nat
    BY BarIs
  <2>2. s.closes \in Seq(Nat)
    BY DEF SignalStates
  <2>3. longer \in Seq(Nat) /\ longer # <<>>
    BY <2>1, <2>2
  <2>. HIDE DEF longer
  <2>. QED
    BY <2>3 DEF h
<1>2. RememberClose(s, b) = [s EXCEPT !.closes = h]
  BY DEF RememberClose, SignalStates
<1>. HIDE DEF h
<1>. QED
  BY <1>1, <1>2 DEF Plain, SignalStates

\* An entry, once a day or not.
LEMMA EnterIs ==
    ASSUME NEW s \in SignalStates, NEW side \in Directions, NEW b, IsBar(b)
    PROVE  /\ Enter(s, side, b).strategy = s /\ ClosePrice(b, Enter(s, side, b).order)
           /\ Plain(s, EnterOnce(s, side, b).strategy)
           /\ EnterOnce(s, side, b).strategy.day = s.day
           /\ EnterOnce(s, side, b).strategy.open = s.open
           /\ ClosePrice(b, EnterOnce(s, side, b).order)
<1>. DEFINE d == Enter(s, side, b).order
            c == [s EXCEPT !.entered = (d # NoOrder)]
<1>1. Enter(s, side, b).strategy = s /\ ClosePrice(b, d)
  BY BarIs DEF Enter, Answer, ClosePrice, Orders, OrderAt, Directions
<1>2. EnterOnce(s, side, b).strategy = c /\ EnterOnce(s, side, b).order = d
  BY DEF EnterOnce, Answer
<1>. HIDE DEF d
<1>3. Plain(s, c) /\ c.day = s.day /\ c.open = s.open
  BY DEF Plain, SignalStates
<1>. HIDE DEF c
<1>. QED
  BY <1>1, <1>2, <1>3 DEF d

\* Levels, filters and trends give a direction or none.
LEMMA SidesAre ==
    \A b, l, o, closes :
       /\ SideOf(b, l) \in Directions
       /\ \A side \in Directions :
             LongOnly(o, side) \in Directions /\ WithTrend(side, b, closes) \in Directions
BY DEF SideOf, LongOnly, WithTrend, Directions

\* Answers of the plain kinds.
PlainAnswer(s, b, a) == Plain(s, a.strategy) /\ ClosePrice(b, a.order)

\* No order is given.
LEMMA NoEntryIs ==
    ASSUME NEW s, NEW t, Plain(s, t), NEW b
    PROVE  PlainAnswer(s, b, Answer(t, NoOrder))
BY DEF PlainAnswer, ClosePrice, Answer

\* An entry on the close is one.
LEMMA EntryIs ==
    ASSUME NEW s, NEW t, Plain(s, t), NEW side \in Directions, NEW b, IsBar(b)
    PROVE  PlainAnswer(s, b, Enter(t, side, b)) /\ PlainAnswer(s, b, EnterOnce(t, side, b))
<1>1. t \in SignalStates
  BY DEF Plain
<1>. QED
  BY <1>1, EnterIs, PlainAgain DEF PlainAnswer

\* Momentum enters on the close.
LEMMA MomentumIs ==
    ASSUME NEW s \in SignalStates, NEW b, IsBar(b)
    PROVE  PlainAnswer(s, b, Momentum(s, b))
<1>. DEFINE t == Remember(s, b)
            side == SideOf(b, Levels(t.history))
<1>1. Plain(s, t) /\ side \in Directions
  BY RememberIs, SidesAre
<1>2. Momentum(s, b) = Answer(t, NoOrder) \/ Momentum(s, b) = Enter(t, side, b)
  BY DEF Momentum
<1>. HIDE DEF t, side
<1>. QED
  BY <1>1, <1>2, NoEntryIs, EntryIs

\* With a trend filter.
LEMMA MomentumFilteredIs ==
    ASSUME NEW o, NEW s \in SignalStates, NEW b, IsBar(b)
    PROVE  PlainAnswer(s, b, MomentumFiltered(o, s, b))
<1>. DEFINE r == Remember(s, b)
            t == RememberClose(r, b)
            side == WithTrend(LongOnly(o, SideOf(b, Levels(t.history))), b, t.closes)
<1>1. Plain(s, r) /\ r \in SignalStates
  BY RememberIs DEF Plain
<1>. HIDE DEF r
<1>2. Plain(s, t) /\ side \in Directions
  BY <1>1, RememberCloseIs, PlainAgain, SidesAre
<1>3. \/ MomentumFiltered(o, s, b) = Answer(t, NoOrder)
      \/ MomentumFiltered(o, s, b) = Enter(t, side, b)
  BY DEF MomentumFiltered, r
<1>. HIDE DEF t, side
<1>. QED
  BY <1>2, <1>3, NoEntryIs, EntryIs

\* Against the average.
LEMMA MeanReversionIs ==
    ASSUME NEW s \in SignalStates, NEW b, IsBar(b)
    PROVE  PlainAnswer(s, b, MeanReversion(s, b))
<1>. DEFINE t == RememberClose(s, b)
            average == SumOfCloses(t.closes, Lookback)
            side == IF Above(Lookback * b.close, average) THEN "SELL"
                    ELSE IF Below(Lookback * b.close, average) THEN "BUY"
                    ELSE "none"
<1>1. Plain(s, t)
  BY RememberCloseIs
<1>2. MeanReversion(s, b) = Answer(t, NoOrder) \/ MeanReversion(s, b) = Enter(t, side, b)
  BY DEF MeanReversion
<1>. HIDE DEF t, average
<1>3. side \in Directions
  BY DEF Directions
<1>. HIDE DEF side
<1>. QED
  BY <1>1, <1>2, <1>3, NoEntryIs, EntryIs

\* A range that widens is one.
LEMMA WidenTyped ==
    ASSUME NEW s \in SignalStates, NEW b, IsBar(b)
    PROVE  /\ Widen(s, b) \in SignalStates /\ Plain(s, Widen(s, b))
           /\ Widen(s, b).day = s.day /\ Widen(s, b).side = s.side
<1>. DEFINE h == IF s.high = 0 /\ s.low = 0 THEN b.high ELSE Higher(s.high, b.high)
            l == IF s.high = 0 /\ s.low = 0 THEN b.low ELSE Lower(s.low, b.low)
<1>1. h \in Nat /\ l \in Nat
  BY BarIs DEF Higher, Lower, SignalStates
<1>2. Widen(s, b) = [s EXCEPT !.inRange = TRUE, !.high = h, !.low = l]
  BY DEF Widen, SignalStates
<1>. HIDE DEF h, l
<1>. QED
  BY <1>1, <1>2, ZenonT(40) DEF Plain, SignalStates

\* Beyond the levels of the previous day.
LEMMA PrevDayIs ==
    ASSUME NEW s \in SignalStates, NEW b, IsBar(b), b.day \in Nat
    PROVE  PlainAnswer(s, b, PrevDayLevelBreakout(s, b))
<1>. DEFINE r == LevelsToday(s, b)
            t == DayRange(r, b)
            side == SideOf(b, [high |-> t.prevHigh, low |-> t.prevLow])
<1>1. Plain(s, r) /\ r \in SignalStates
  BY DEF LevelsToday, Plain, SignalStates
<1>. HIDE DEF r
<1>2. Plain(r, t)
  <2>1. Widen(r, b) \in SignalStates /\ Plain(r, Widen(r, b))
    BY <1>1, WidenTyped
  <2>. QED
    BY <2>1 DEF DayRange, Plain, SignalStates
<1>3. Plain(s, t) /\ side \in Directions
  BY <1>1, <1>2, PlainAgain, SidesAre
<1>4. \/ PrevDayLevelBreakout(s, b) = Answer(r, NoOrder)
      \/ PrevDayLevelBreakout(s, b) = Answer(t, NoOrder)
      \/ PrevDayLevelBreakout(s, b) = Enter(t, side, b)
  BY DEF PrevDayLevelBreakout, r
<1>. HIDE DEF t, side
<1>. QED
  BY <1>1, <1>3, <1>4, NoEntryIs, EntryIs

\* Out of a quiet noon.
LEMMA MiddayIs ==
    ASSUME NEW s \in SignalStates, NEW b, IsBar(b), b.day \in Nat
    PROVE  PlainAnswer(s, b, MiddayCompression(s, b))
<1>. DEFINE q == MiddayToday(s, b)
            r == Remember(q, b)
            c == CountRange(r)
            t == MarkCompression(c, b)
            side == SideOf(b, Levels(t.history))
<1>1. Plain(s, q) /\ q \in SignalStates
  BY DEF MiddayToday, Plain, SignalStates
<1>. HIDE DEF q
<1>2. Plain(s, r) /\ r \in SignalStates
  BY <1>1, RememberIs, PlainAgain DEF Plain
<1>. HIDE DEF r
<1>3. Plain(s, c) /\ c \in SignalStates
  <2>1. Plain(r, c)
    <3>. DEFINE n == Lower(r.bars + 1, MinRanges)
    <3>1. n \in Nat
      <4>1. r.bars \in Nat
        BY <1>2 DEF SignalStates
      <4>. QED
        BY <4>1, SignalConstants DEF Lower
    <3>2. c = r \/ c = [r EXCEPT !.bars = n]
      BY <1>2 DEF CountRange, SignalStates
    <3>. HIDE DEF n, c
    <3>. QED
      BY <1>2, <3>1, <3>2, ZenonT(40) DEF Plain, SignalStates
  <2>. QED
    BY <1>2, <2>1, PlainAgain DEF Plain
<1>. HIDE DEF c
<1>4. Plain(s, t)
  <2>1. Plain(c, t)
    BY <1>3 DEF MarkCompression, Plain, SignalStates
  <2>. QED
    BY <1>3, <2>1, PlainAgain
<1>5. side \in Directions
  BY SidesAre
<1>6. \/ MiddayCompression(s, b) = Answer(r, NoOrder)
      \/ MiddayCompression(s, b) = Answer(t, NoOrder)
      \/ MiddayCompression(s, b) = EnterOnce(t, side, b)
  BY DEF MiddayCompression, q, r, c
<1>. HIDE DEF t, side
<1>. QED
  BY <1>2, <1>4, <1>5, <1>6, NoEntryIs, EntryIs

\* In the direction of the opening gap.
LEMMA GapIs ==
    ASSUME NEW o, NEW s \in SignalStates, NEW b, IsBar(b), b.day \in Nat
    PROVE  PlainAnswer(s, b, SessionGapDrive(o, s, b))
<1>. DEFINE t == GapToday(s, b)
            gap == 100 * (b.close - t.prevClose)
            side == IF gap >= Threshold * t.prevClose THEN "BUY"
                    ELSE IF gap <= -Threshold * t.prevClose THEN LongOnly(o, "SELL")
                    ELSE "none"
<1>1. Plain(s, t)
  <2>. DEFINE before == IF b.day # s.day /\ s.lastClose > 0 THEN s.lastClose ELSE s.prevClose
              entered == b.day = s.day /\ s.entered
  <2>1. before \in Nat /\ entered \in BOOLEAN /\ b.close \in Nat
    BY BarIs DEF SignalStates
  <2>2. t = [s EXCEPT !.day = b.day, !.lastClose = b.close,
                      !.entered = entered, !.prevClose = before]
    BY DEF GapToday, SignalStates
  <2>. HIDE DEF before, entered, t
  <2>. QED
    BY <2>1, <2>2 DEF Plain, SignalStates
<1>2. \/ SessionGapDrive(o, s, b) = Answer(t, NoOrder)
      \/ SessionGapDrive(o, s, b) = EnterOnce(t, side, b)
  BY DEF SessionGapDrive
<1>. HIDE DEF t, gap
<1>3. side \in Directions
  BY DEF Directions, LongOnly
<1>. HIDE DEF side
<1>. QED
  BY <1>1, <1>2, <1>3, NoEntryIs, EntryIs

-----------------------------------------------------------------------------
(* Those that keep the open of the day                                     *)

\* The open of the day as far as bar b.
OpenAfter(s, b) ==
    LET before == IF b.day = s.day THEN s.open ELSE 0 IN
    IF b.minute >= 0 /\ before = 0 THEN b.open ELSE before

OpenAnswer(s, b, a) ==
    /\ PlainAnswer(s, b, a)
    /\ a.strategy.day = b.day /\ a.strategy.open = OpenAfter(s, b)
    /\ a.order # NoOrder => a.strategy.open > 0

\* With the day's trend, which begins with the session's first bar.
LEMMA DaytrendIs ==
    ASSUME NEW o, NEW s \in SignalStates, NEW b, IsBar(b), b.day \in Nat, b.minute \in Int
    PROVE  OpenAnswer(s, b, MomentumSberDaytrend(o, s, b))
<1>. DEFINE q == TrendToday(s, b)
            r == WithDayTrend(q, b)
            c == Remember(r, b)
            t == [c EXCEPT !.lastClose = b.close]
            side == LongOnly(o, SideOf(b, Levels(t.history)))
<1>1. /\ Plain(s, q) /\ q \in SignalStates
      /\ q.day = b.day /\ q.open = IF b.day = s.day THEN s.open ELSE 0
  <2>. DEFINE before == IF s.lastClose > 0 THEN s.lastClose ELSE s.prevClose
  <2>1. before \in Nat
    BY DEF SignalStates
  <2>2. \/ b.day = s.day /\ q = s
        \/ b.day # s.day /\ q = [s EXCEPT !.day = b.day, !.open = 0, !.side = "none",
                                          !.prevClose = before]
    BY DEF TrendToday, SignalStates
  <2>. HIDE DEF before, q
  <2>3. CASE b.day = s.day /\ q = s
    BY <2>3 DEF Plain
  <2>4. CASE b.day # s.day /\ q = [s EXCEPT !.day = b.day, !.open = 0, !.side = "none",
                                            !.prevClose = before]
    <3>1. "none" \in Directions
      BY DEF Directions
    <3>2. q \in SignalStates
      BY <2>1, <2>4, <3>1 DEF SignalStates
    <3>3. /\ q.day = b.day /\ q.open = 0
          /\ q.limit = s.limit /\ q.watch = s.watch /\ q.complete = s.complete
      BY <2>4 DEF SignalStates
    <3>. QED
      BY <2>4, <3>2, <3>3 DEF Plain
  <2>. QED
    BY <2>2, <2>3, <2>4
<1>. HIDE DEF q
<1>2. Plain(s, r) /\ r \in SignalStates /\ r.day = b.day /\ r.open = OpenAfter(s, b)
  <2>. DEFINE way == IF q.prevClose = 0 THEN "none"
                     ELSE IF b.open > q.prevClose THEN "BUY"
                     ELSE IF b.open < q.prevClose THEN "SELL"
                     ELSE "none"
  <2>1. way \in Directions /\ b.open \in Nat
    BY BarIs DEF Directions
  <2>2. \/ (b.minute < 0 \/ q.open > 0) /\ r = q
        \/ ~(b.minute < 0 \/ q.open > 0) /\ r = [q EXCEPT !.open = b.open, !.side = way]
    BY DEF WithDayTrend
  <2>. HIDE DEF way, r
  <2>3. Plain(q, r) /\ r.day = b.day
    BY <1>1, <2>1, <2>2, ZenonT(40) DEF Plain, SignalStates
  <2>4. q.open \in Nat
    BY <1>1 DEF SignalStates
  <2>5. r.open = OpenAfter(s, b)
    <3>1. CASE b.minute < 0 \/ q.open > 0
      BY <1>1, <2>2, <2>4, <3>1 DEF OpenAfter
    <3>2. CASE ~(b.minute < 0 \/ q.open > 0)
      <4>1. r.open = b.open
        BY <1>1, <2>2, <3>2 DEF SignalStates
      <4>. QED
        BY <1>1, <2>4, <3>2, <4>1 DEF OpenAfter
    <3>. QED
      BY <3>1, <3>2
  <2>. QED
    BY <1>1, <2>3, <2>5, PlainAgain DEF Plain
<1>. HIDE DEF r
<1>3. Plain(s, c) /\ c \in SignalStates /\ c.day = b.day /\ c.open = OpenAfter(s, b)
  BY <1>2, RememberIs, PlainAgain DEF Plain
<1>. HIDE DEF c
<1>4. Plain(s, t) /\ t \in SignalStates /\ t.day = b.day /\ t.open = OpenAfter(s, b)
  BY <1>3, BarIs DEF Plain, SignalStates
<1>5. side \in Directions
  BY SidesAre
<1>. DEFINE a == MomentumSberDaytrend(o, s, b)
<1>6. \/ a = Answer(t, NoOrder)
      \/ b.minute >= EntryFrom /\ a = Enter(t, side, b)
  BY SignalConstants DEF MomentumSberDaytrend, q, r, c
<1>. HIDE DEF t, side, a
<1>7. PlainAnswer(s, b, a) /\ a.strategy = t
  BY <1>4, <1>5, <1>6, NoEntryIs, EntryIs, EnterIs DEF Answer
<1>8. a.order # NoOrder => t.open > 0
  <2>1. a.order # NoOrder => b.minute >= 0
    BY <1>6, SignalConstants DEF Answer
  <2>2. s.open \in Nat /\ b.open \in Nat \ {0}
    BY BarIs DEF SignalStates
  <2>3. b.minute >= 0 => OpenAfter(s, b) > 0
    BY <2>2 DEF OpenAfter
  <2>. QED
    BY <1>4, <2>1, <2>3
<1>. QED
  BY <1>4, <1>7, <1>8 DEF OpenAnswer, a

\* With the day's imbalance, measured from its open.
LEMMA LateIs ==
    ASSUME NEW s \in SignalStates, NEW b, IsBar(b), b.day \in Nat, b.minute \in Int
    PROVE  OpenAnswer(s, b, LateSessionImbalance(s, b))
<1>. DEFINE q == LateToday(s, b)
            open == IF q.open = 0 THEN b.open ELSE q.open
            n == Lower(q.bars + 1, 2)
            t == [q EXCEPT !.open = open, !.bars = n]
            side == IF b.close > t.open THEN "BUY" ELSE IF b.close < t.open THEN "SELL" ELSE "none"
            a == LateSessionImbalance(s, b)
<1>1. /\ Plain(s, q) /\ q \in SignalStates
      /\ q.day = b.day /\ q.open = IF b.day = s.day THEN s.open ELSE 0
  BY DEF LateToday, Plain, SignalStates
<1>2. t = [q EXCEPT !.open = IF @ = 0 THEN b.open ELSE @, !.bars = Lower(@ + 1, 2)]
  BY <1>1 DEF SignalStates
<1>3. \/ b.minute < 0 /\ a = Answer(q, NoOrder)
      \/ b.minute >= 0 /\ a = Answer(t, NoOrder)
      \/ b.minute >= 0 /\ a = EnterOnce(t, side, b)
  BY <1>2 DEF LateSessionImbalance
<1>4. open \in Nat \ {0} /\ n \in Nat /\ q.open \in Nat
  <2>1. q.open \in Nat /\ q.bars \in Nat /\ b.open \in Nat \ {0}
    BY <1>1, BarIs DEF SignalStates
  <2>. QED
    BY <2>1 DEF Lower
<1>5. side \in Directions
  BY DEF Directions
<1>6. b.minute >= 0 => open = OpenAfter(s, b)
  BY <1>1 DEF OpenAfter
<1>7. b.minute < 0 => q.open = OpenAfter(s, b)
  BY <1>1 DEF OpenAfter
<1>. HIDE DEF q, open, n, side, a
<1>8. Plain(s, t) /\ t \in SignalStates /\ t.day = b.day /\ t.open = open
  <2>1. Plain(q, t) /\ t \in SignalStates /\ t.day = b.day /\ t.open = open
    BY <1>1, <1>4 DEF Plain, SignalStates
  <2>. QED
    BY <1>1, <2>1, PlainAgain
<1>. HIDE DEF t
<1>9. CASE b.minute < 0 /\ a = Answer(q, NoOrder)
  <2>1. a.strategy = q /\ a.order = NoOrder
    BY <1>9 DEF Answer
  <2>. QED
    BY <1>1, <1>7, <1>9, <2>1, NoEntryIs DEF OpenAnswer, a
<1>10. CASE b.minute >= 0 /\ (a = Answer(t, NoOrder) \/ a = EnterOnce(t, side, b))
  <2>1. PlainAnswer(s, b, a)
    BY <1>5, <1>8, <1>10, NoEntryIs, EntryIs
  <2>2. a.strategy.day = b.day /\ a.strategy.open = open
    BY <1>5, <1>8, <1>10, EnterIs DEF Answer
  <2>3. open > 0
    BY <1>4
  <2>. QED
    BY <1>6, <1>10, <2>1, <2>2, <2>3 DEF OpenAnswer, a
<1>. QED
  BY <1>3, <1>9, <1>10

-----------------------------------------------------------------------------
(* Random entries                                                          *)

\* A state with a limit order, perhaps.
Pends(s) == s \in SignalStates /\ (s.limit # NoLimit => s.limit.direction \in {"BUY", "SELL"})

\* What becomes of the limit order in hand.
RandomLimit(s, b, t, d) ==
    s.limit # NoLimit =>
        IF b.day = s.day /\ s.left > 0
        THEN /\ t.limit # s.limit => Reached(s.limit, b)
             /\ Reached(s.limit, b) /\ b.stopBefore => d # NoOrder
        ELSE d = NoOrder

RandomAnswer(s, b, t, d) ==
    /\ Pends(t) /\ t.watch = s.watch /\ t.complete = s.complete
    /\ d \in Orders
    /\ d # NoOrder => t.limit = NoLimit /\ b.low <= d.price /\ d.price <= b.high
    /\ RandomLimit(s, b, t, d)

\* A coin decides; its limit order lives for some bars of its day.
LEMMA RandomIs ==
    ASSUME NEW o, NEW s, Pends(s), NEW b, IsBar(b), b.day \in Nat
    PROVE  RandomAnswer(s, b, RandomEntry(o, s, b).strategy, RandomEntry(o, s, b).order)
<1>. DEFINE a == RandomEntry(o, s, b)
            n == Lower(s.seen + 1, Lookback)
            t == [s EXCEPT !.seen = n]
<1>1. n \in Nat /\ s \in SignalStates
  <2>1. s \in SignalStates /\ s.seen \in Nat
    BY DEF Pends, SignalStates
  <2>. QED
    BY <2>1, SignalConstants DEF Lower
<1>2. t = [s EXCEPT !.seen = Lower(@ + 1, Lookback)]
  BY <1>1 DEF SignalStates
<1>. HIDE DEF n
<1>3. /\ Pends(t) /\ t.watch = s.watch /\ t.complete = s.complete
      /\ t.limit = s.limit /\ t.left = s.left /\ t.day = s.day /\ t.left \in Nat
  BY <1>1 DEF Pends, SignalStates
<1>4. CASE s.limit # NoLimit
  <2>1. a = RandomFill(t, b)
    BY <1>2, <1>4 DEF RandomEntry
  <2>. HIDE DEF t, a
  <2>. DEFINE c == [t EXCEPT !.limit = NoLimit, !.left = 0]
              e == [t EXCEPT !.left = t.left - 1]
              f == [t EXCEPT !.left = 0]
              g == [f EXCEPT !.limit = NoLimit]
              d == OrderAt(t.limit.direction, FillPrice(t.limit, b))
  <2>2. /\ Pends(c) /\ c.watch = s.watch /\ c.complete = s.complete /\ c.limit = NoLimit
    BY <1>3, NothingIs DEF Pends, SignalStates
  <2>3. f \in SignalStates /\ f.watch = s.watch /\ f.complete = s.complete /\ f.limit = t.limit
    BY <1>3 DEF Pends, SignalStates
  <2>4. e = [t EXCEPT !.left = @ - 1]
    BY <1>3 DEF Pends, SignalStates
  <2>5. CASE b.day # t.day \/ t.left = 0
    <3>1. a.strategy = c /\ a.order = NoOrder
      BY <2>1, <2>5 DEF RandomFill, Answer
    <3>2. ~(b.day = s.day /\ s.left > 0)
      BY <1>3, <2>5
    <3>. HIDE DEF c
    <3>. QED
      BY <2>2, <3>1, <3>2, NothingIs DEF RandomAnswer, RandomLimit, a
  <2>6. CASE ~(b.day # t.day \/ t.left = 0) /\ ~Reached(t.limit, b)
    <3>1. a.strategy = e /\ a.order = NoOrder
      BY <2>1, <2>4, <2>6 DEF RandomFill, Answer
    <3>2. t.left - 1 \in Nat
      BY <1>3, <2>6
    <3>3. Pends(e) /\ e.watch = s.watch /\ e.complete = s.complete /\ e.limit = s.limit
      <4>. DEFINE m == t.left - 1
      <4>. HIDE DEF m
      <4>1. m \in Nat /\ e = [t EXCEPT !.left = m]
        BY <3>2 DEF m
      <4>. QED
        BY <1>3, <4>1 DEF Pends, SignalStates
    <3>. HIDE DEF e
    <3>. QED
      BY <1>3, <1>4, <2>6, <3>1, <3>3, NothingIs DEF RandomAnswer, RandomLimit, a
  <2>7. CASE ~(b.day # t.day \/ t.left = 0) /\ Reached(t.limit, b) /\ b.stopBefore
    <3>1. a.strategy = g /\ a.order = d
      BY <2>1, <2>3, <2>7 DEF RandomFill, FillLimit, Answer
    <3>2. /\ Pends(g) /\ g.watch = s.watch /\ g.complete = s.complete /\ g.limit = NoLimit
      BY <2>3, NothingIs DEF Pends, SignalStates
    <3>3. t.limit \in Limits /\ t.limit.direction \in {"BUY", "SELL"}
      BY <1>3, <1>4 DEF Pends, SignalStates
    <3>4. d \in Orders /\ d # NoOrder /\ b.low <= d.price /\ d.price <= b.high
      BY <2>7, <3>3, FillPriceIs, NothingIs DEF Orders, OrderAt, Directions
    <3>. HIDE DEF g, d
    <3>. QED
      BY <1>3, <2>7, <3>1, <3>2, <3>4 DEF RandomAnswer, RandomLimit, a
  <2>8. CASE ~(b.day # t.day \/ t.left = 0) /\ Reached(t.limit, b) /\ ~b.stopBefore
    <3>1. a.strategy = c /\ a.order = NoOrder
      BY <2>1, <2>8 DEF RandomFill, Answer
    <3>. HIDE DEF c
    <3>. QED
      BY <1>3, <2>2, <2>8, <3>1, NothingIs DEF RandomAnswer, RandomLimit, a
  <2>. QED
    BY <2>5, <2>6, <2>7, <2>8
<1>5. CASE s.limit = NoLimit
  <2>. DEFINE l == [direction |-> b.coin.direction, price |-> b.coin.price, expires |-> NoTime]
              p == [t EXCEPT !.day = b.day, !.left = LimitBars, !.limit = l]
  <2>1. \/ a = Answer(t, NoOrder)
        \/ b.coin # NoOrder /\ a = Answer(p, NoOrder)
        \/ b.coin # NoOrder /\ a = Enter(t, b.coin.direction, b)
    BY <1>2, <1>5 DEF RandomEntry
  <2>. HIDE DEF t, a
  <2>2. CASE a = Answer(t, NoOrder)
    <3>1. a.strategy = t /\ a.order = NoOrder
      BY <2>2 DEF Answer
    <3>. QED
      BY <1>3, <1>5, <3>1, NothingIs DEF RandomAnswer, RandomLimit, a
  <2>3. b.coin # NoOrder => b.coin.direction \in {"BUY", "SELL"} /\ b.coin.price \in Nat
    BY BarIs
  <2>4. CASE b.coin # NoOrder /\ a = Answer(p, NoOrder)
    <3>1. a.strategy = p /\ a.order = NoOrder
      BY <2>4 DEF Answer
    <3>2. l \in Limits /\ l.direction \in {"BUY", "SELL"}
      BY <2>3, <2>4 DEF Limits, Directions, NoTime
    <3>. HIDE DEF l
    <3>3. Pends(p) /\ p.watch = s.watch /\ p.complete = s.complete
      BY <1>3, <3>2, SignalConstants DEF Pends, SignalStates
    <3>. HIDE DEF p
    <3>. QED
      BY <1>5, <3>1, <3>3, NothingIs DEF RandomAnswer, RandomLimit, a
  <2>5. CASE b.coin # NoOrder /\ a = Enter(t, b.coin.direction, b)
    <3>1. b.coin.direction \in Directions /\ t \in SignalStates
      BY <1>3, <2>3, <2>5 DEF Directions, Pends
    <3>2. a.strategy = t /\ ClosePrice(b, a.order)
      BY <2>5, <3>1, EnterIs
    <3>3. a.order \in Orders /\ (a.order # NoOrder => b.low <= a.order.price /\ a.order.price <= b.high)
      BY <3>2, BarIs, NothingIs DEF ClosePrice
    <3>. QED
      BY <1>3, <1>5, <3>2, <3>3 DEF RandomAnswer, RandomLimit, a
  <2>. QED
    BY <2>1, <2>2, <2>4, <2>5
<1>. QED
  BY <1>4, <1>5

-----------------------------------------------------------------------------
(* The pullback to the VWAP                                                *)

\* The direction that a breakout gives the day.
Way(side) == CASE side = "up" -> "BUY" [] side = "down" -> "SELL" [] OTHER -> "none"

\* Bar b has left the range of t.
Leaves(t, b) == t.complete /\ t.high > t.low /\ b.vwap > 0 /\ Breakout(t, b) # "none"

\* A state of its own day, before bar b.
Pulls(s, b) ==
    /\ s \in SignalStates /\ s.day = b.day
    /\ s.limit = NoLimit /\ s.watch = NoWatch
    /\ s.complete => b.minute >= RangeEnd

\* All but the range and the direction of the day.
Follow(s, t) ==
    /\ t \in SignalStates /\ t.day = s.day /\ t.limit = s.limit /\ t.watch = s.watch
    /\ t.high = s.high /\ t.low = s.low

PullAnswer(o, s, b, t, d) ==
    /\ t \in SignalStates /\ t.day = s.day /\ t.limit = NoLimit /\ t.watch = NoWatch
    /\ Forms(o, s, b) => ~t.complete /\ t.high = Widen(s, b).high /\ t.low = Widen(s, b).low
    /\ ~Forms(o, s, b) => t.high = s.high /\ t.low = s.low
    /\ t.complete => b.minute >= RangeEnd
    /\ s.side # "none" => t.side = s.side
    /\ s.side = "none" => t.side = IF Leaves(t, b) THEN Way(Breakout(t, b)) ELSE "none"
    /\ d \in Orders
    /\ d # NoOrder => /\ t.complete /\ s.side # "none" /\ d.direction = s.side
                      /\ b.low <= d.price /\ d.price <= b.high

\* Counting the bars above and below the VWAP leaves the rest alone.
LEMMA TrackSideIs ==
    ASSUME NEW s \in SignalStates, NEW b
    PROVE  LET t == TrackSide(s, b) IN
           Follow(s, t) /\ t.complete = s.complete /\ t.side = s.side
<1>. DEFINE x == IF b.close > b.vwap THEN Lower(s.above + 1, ReadyBars) ELSE 0
            y == IF b.close < b.vwap THEN Lower(s.below + 1, ReadyBars) ELSE 0
            more == s.ready \cup (IF x = ReadyBars THEN {"BUY"} ELSE {})
                            \cup (IF y = ReadyBars THEN {"SELL"} ELSE {})
<1>1. x \in Nat /\ y \in Nat
  <2>1. s.above \in Nat /\ s.below \in Nat
    BY DEF SignalStates
  <2>. QED
    BY <2>1, SignalConstants DEF Lower
<1>2. TrackSide(s, b) = [s EXCEPT !.above = x, !.below = y, !.ready = more]
  BY DEF TrackSide, SignalStates
<1>. HIDE DEF x, y
<1>3. more \in SUBSET {"BUY", "SELL"}
  <2>1. s.ready \in SUBSET {"BUY", "SELL"}
    BY DEF SignalStates
  <2>. QED
    BY <2>1
<1>. HIDE DEF more
<1>. DEFINE t == TrackSide(s, b)
<1>. HIDE DEF t
<1>4. t = [s EXCEPT !.above = x, !.below = y, !.ready = more]
  BY <1>2 DEF t
<1>5. t \in SignalStates
  BY <1>1, <1>3, <1>4 DEF SignalStates
<1>6. /\ t.day = s.day /\ t.limit = s.limit /\ t.watch = s.watch
      /\ t.high = s.high /\ t.low = s.low /\ t.complete = s.complete /\ t.side = s.side
  BY <1>4 DEF SignalStates
<1>. QED
  BY <1>5, <1>6 DEF Follow, t

\* What a breakout and a pullback do.
LEMMA TryContinueIs ==
    ASSUME NEW o, NEW b, IsBar(b), b.vwap > 0,
           NEW s, Pulls(s, b), s.complete, s.high > s.low
    PROVE  PullAnswer(o, s, b, TryContinue(s, b).strategy, TryContinue(s, b).order)
<1>. DEFINE a == TryContinue(s, b)
            w == [s EXCEPT !.side = Way(Breakout(s, b))]
            c == [s EXCEPT !.ready = {}, !.above = 0, !.below = 0]
<1>0. s \in SignalStates /\ ~Forms(o, s, b) /\ b.minute >= RangeEnd
  BY DEF Pulls, Forms
<1>1. \/ s.side = "none" /\ a = Answer(w, NoOrder)
      \/ s.side # "none" /\ a = Answer(s, NoOrder)
      \/ s.side # "none" /\ a = Enter(c, s.side, b)
  BY DEF TryContinue, DetectBreakout, Way
<1>2. Way(Breakout(s, b)) \in Directions
  BY DEF Way, Directions
<1>3. Follow(s, w) /\ w.complete /\ w.side = Way(Breakout(s, b))
  BY <1>0, <1>2 DEF Follow, SignalStates
<1>4. Follow(s, c) /\ c.complete /\ c.side = s.side
  BY <1>0 DEF Follow, SignalStates
<1>. HIDE DEF a, w, c
<1>5. CASE s.side = "none" /\ a = Answer(w, NoOrder)
  <2>1. a.strategy = w /\ a.order = NoOrder
    BY <1>5 DEF Answer
  <2>2. Breakout(w, b) = Breakout(s, b)
    BY <1>3 DEF Follow, Breakout
  <2>3. w.side = IF Leaves(w, b) THEN Way(Breakout(w, b)) ELSE "none"
    <3>1. CASE Breakout(s, b) = "none"
      BY <1>3, <2>2, <3>1 DEF Leaves, Way
    <3>2. CASE Breakout(s, b) # "none"
      BY <1>3, <2>2, <3>2 DEF Leaves, Follow
    <3>. QED
      BY <3>1, <3>2
  <2>. QED
    BY <1>0, <1>3, <1>5, <2>1, <2>3, NothingIs DEF PullAnswer, Pulls, Follow, a
<1>6. CASE s.side # "none" /\ a = Answer(s, NoOrder)
  <2>1. a.strategy = s /\ a.order = NoOrder
    BY <1>6 DEF Answer
  <2>. QED
    BY <1>0, <1>6, <2>1, NothingIs DEF PullAnswer, Pulls, a
<1>7. CASE s.side # "none" /\ a = Enter(c, s.side, b)
  <2>1. s.side \in Directions /\ c \in SignalStates
    BY <1>0, <1>4 DEF SignalStates, Follow
  <2>2. a.strategy = c /\ ClosePrice(b, a.order)
    BY <1>7, <2>1, EnterIs
  <2>3. a.order \in Orders /\ (a.order # NoOrder => b.low <= a.order.price /\ a.order.price <= b.high)
    BY <2>2, BarIs, NothingIs DEF ClosePrice
  <2>4. a.order # NoOrder => a.order.direction = s.side
    BY <1>7 DEF Enter, Answer, OrderAt
  <2>. QED
    BY <1>0, <1>4, <1>7, <2>2, <2>3, <2>4 DEF PullAnswer, Pulls, Follow, a
<1>. QED
  BY <1>1, <1>5, <1>6, <1>7

\* The range forms, is broken out of, and the pullback is traded.
LEMMA PullbackIs ==
    ASSUME NEW o, o.start = 0, NEW b, IsBar(b), b.minute \in Int, NEW s, Pulls(s, b)
    PROVE  PullAnswer(o, s, b, VWAPPullback(s, b).strategy, VWAPPullback(s, b).order)
<1>. DEFINE a == VWAPPullback(s, b)
            c == Completed(s, b)
            k == TrackSide(c, b)
<1>0. /\ s \in SignalStates /\ s.day = b.day /\ s.high \in Nat /\ s.low \in Nat
      /\ s.complete \in BOOLEAN /\ b.vwap \in Nat /\ RangeEnd \in Nat
  BY BarIs, RangeStrategiesAssumption DEF Pulls, SignalStates
<1>1. /\ Follow(s, c) /\ c.side = s.side
      /\ s.complete => c.complete
      /\ c.complete => b.minute >= RangeEnd
  BY <1>0 DEF Completed, Follow, SignalStates, Pulls
<1>2. \/ b.minute < 0 /\ a = Answer(s, NoOrder)
      \/ Forms(o, s, b) /\ a = Answer(Widen(s, b), NoOrder)
      \/ ~Forms(o, s, b) /\ (~c.complete \/ c.high <= c.low \/ b.vwap = 0) /\ a = Answer(c, NoOrder)
      \/ /\ ~Forms(o, s, b) /\ c.complete /\ ~(c.high <= c.low) /\ b.vwap # 0
         /\ a = TryContinue(k, b)
  BY <1>0 DEF VWAPPullback, SignalsToday, Forms, InWindow
<1>. HIDE DEF a, c
<1>3. CASE b.minute < 0 /\ a = Answer(s, NoOrder)
  <2>1. a.strategy = s /\ a.order = NoOrder
    BY <1>3 DEF Answer
  <2>2. ~s.complete /\ ~Forms(o, s, b)
    BY <1>0, <1>3 DEF Pulls, Forms, InWindow
  <2>. QED
    BY <1>0, <2>1, <2>2, NothingIs DEF PullAnswer, Pulls, Leaves, a
<1>4. CASE Forms(o, s, b) /\ a = Answer(Widen(s, b), NoOrder)
  <2>1. a.strategy = Widen(s, b) /\ a.order = NoOrder
    BY <1>4 DEF Answer
  <2>2. /\ Widen(s, b) \in SignalStates /\ Plain(s, Widen(s, b))
        /\ Widen(s, b).day = s.day /\ Widen(s, b).side = s.side
    BY <1>0, WidenTyped
  <2>3. ~s.complete
    BY <1>4 DEF Forms
  <2>. QED
    BY <1>4, <2>1, <2>2, <2>3, NothingIs DEF PullAnswer, Pulls, Plain, Leaves, a
<1>5. CASE ~Forms(o, s, b) /\ (~c.complete \/ c.high <= c.low \/ b.vwap = 0) /\ a = Answer(c, NoOrder)
  <2>1. a.strategy = c /\ a.order = NoOrder
    BY <1>5 DEF Answer
  <2>2. ~Leaves(c, b)
    BY <1>0, <1>1, <1>5 DEF Leaves, Follow
  <2>. QED
    BY <1>1, <1>5, <2>1, <2>2, NothingIs DEF PullAnswer, Pulls, Follow, a
<1>6. CASE /\ ~Forms(o, s, b) /\ c.complete /\ ~(c.high <= c.low) /\ b.vwap # 0
           /\ a = TryContinue(k, b)
  <2>1. Follow(s, k) /\ k.complete /\ k.side = s.side
    <3>1. c \in SignalStates
      BY <1>1 DEF Follow
    <3>2. Follow(c, k) /\ k.complete = c.complete /\ k.side = c.side
      BY <3>1, TrackSideIs
    <3>. QED
      BY <1>1, <1>6, <3>2 DEF Follow
  <2>. HIDE DEF k
  <2>2. Pulls(k, b) /\ k.high > k.low /\ b.vwap > 0 /\ ~Forms(o, k, b)
    BY <1>0, <1>1, <1>6, <2>1 DEF Pulls, Follow, Forms
  <2>3. PullAnswer(o, k, b, a.strategy, a.order)
    BY <1>6, <2>1, <2>2, TryContinueIs
  <2>. QED
    BY <1>6, <2>1, <2>2, <2>3 DEF PullAnswer, Follow, a
<1>. QED
  BY <1>2, <1>3, <1>4, <1>5, <1>6

-----------------------------------------------------------------------------
(* A bar in the invariant                                                  *)

\* One strategy runs, with a range that begins where the day does but for one kind.
LEMMA OptionsAre ==
    ASSUME NEW o \in Options
    PROVE  /\ o.entry \in RangeKinds \cup SignalKinds /\ o.start \in Nat
           /\ o.entry # "fade" => o.start = 0
<1>1. o.entry \in Entries /\ o.start \in Starts /\ (o.entry # "fade" => o.start = 0)
  BY DEF Options
<1>2. Starts \subseteq 0..(RangeEnd - 1) /\ Entries \subseteq RangeKinds \cup SignalKinds
  BY SignalsAssumption
<1>3. RangeEnd \in Nat
  BY DayLengthIs
<1>4. o.start \in 0..(RangeEnd - 1) /\ o.entry \in RangeKinds \cup SignalKinds
  BY <1>1, <1>2, Zenon
<1>5. o.start \in Nat
  BY <1>3, <1>4
<1>. QED
  BY <1>1, <1>4, <1>5, Zenon

\* What the market has shown of b's day.
Before(b) == IF b.day = bar.day THEN window ELSE NoWindow

\* What the market has shown after the bar.
LEMMA WindowIs ==
    ASSUME TypeInv, NEW b, IsBar(b)
    PROVE  LET w == WindowAfter(b)
               v == Before(b) IN
           /\ v \in [open : Nat, high : Nat, low : Nat] /\ (v.high = 0 => v.low = 0)
           /\ w \in [open : Nat, high : Nat, low : Nat] /\ (w.high = 0 => w.low = 0)
           /\ ~InWindow(opts, b) => w.high = v.high /\ w.low = v.low
           /\ InWindow(opts, b) /\ v.high = 0 => w.high = b.high /\ w.low = b.low
           /\ InWindow(opts, b) /\ v.high # 0 =>
                 w.high = Higher(v.high, b.high) /\ w.low = Lower(v.low, b.low)
           /\ w.open = IF b.minute >= 0 /\ v.open = 0 THEN b.open ELSE v.open
<1>. DEFINE w == WindowAfter(b)
            v == Before(b)
            u == IF b.minute >= 0 /\ v.open = 0 THEN [v EXCEPT !.open = b.open] ELSE v
            T == [open : Nat, high : Nat, low : Nat]
<1>1. v \in T /\ (v.high = 0 => v.low = 0)
  BY DEF Before, NoWindow, TypeInv
<1>2. b.open \in Nat /\ b.high \in Nat \ {0} /\ b.low \in Nat
  BY BarIs
<1>3. w = IF ~InWindow(opts, b) THEN u
          ELSE IF u.high = 0 THEN [u EXCEPT !.high = b.high, !.low = b.low]
          ELSE [u EXCEPT !.high = Higher(@, b.high), !.low = Lower(@, b.low)]
  BY DEF WindowAfter, Before
<1>. HIDE DEF v, w
<1>4. /\ u \in T /\ u.high = v.high /\ u.low = v.low
      /\ u.open = IF b.minute >= 0 /\ v.open = 0 THEN b.open ELSE v.open
  BY <1>1, <1>2
<1>. HIDE DEF u
<1>5. Higher(u.high, b.high) \in Nat \ {0} /\ Lower(u.low, b.low) \in Nat
  BY <1>2, <1>4 DEF Higher, Lower
<1>6. w \in T /\ (w.high = 0 => w.low = 0) /\ w.open = u.open
  <2>1. CASE ~InWindow(opts, b)
    BY <1>1, <1>3, <1>4, <2>1
  <2>2. CASE InWindow(opts, b) /\ u.high = 0
    <3>1. w = [u EXCEPT !.high = b.high, !.low = b.low]
      BY <1>3, <2>2
    <3>. QED
      BY <1>2, <1>4, <3>1
  <2>3. CASE InWindow(opts, b) /\ u.high # 0
    <3>. DEFINE h == Higher(u.high, b.high)
                l == Lower(u.low, b.low)
    <3>1. w = [u EXCEPT !.high = h, !.low = l]
      BY <1>3, <1>4, <2>3
    <3>2. h \in Nat \ {0} /\ l \in Nat
      BY <1>5
    <3>. HIDE DEF h, l
    <3>. QED
      BY <1>4, <3>1, <3>2
  <2>. QED
    BY <2>1, <2>2, <2>3
<1>7. /\ ~InWindow(opts, b) => w.high = v.high /\ w.low = v.low
      /\ InWindow(opts, b) /\ v.high = 0 => w.high = b.high /\ w.low = b.low
      /\ InWindow(opts, b) /\ v.high # 0 =>
            w.high = Higher(v.high, b.high) /\ w.low = Lower(v.low, b.low)
  BY <1>3, <1>4
<1>. QED
  BY <1>1, <1>4, <1>6, <1>7 DEF v, w

\* A strategy begins its day with the market's, or is not asked any more.
LEMMA DayBegins ==
    ASSUME SignalInv, opts.entry \in RangeTraders \cup OpenTraders,
           NEW b, Follows(bar, b), Shown(b)
    PROVE  (b.day = strategy.day) <=> (b.day = bar.day)
<1>1. strategy.day \in Nat
  BY DEF SignalInv, TypeInv, RangeStates, SignalStates
<1>2. /\ strategy.day <= bar.day
      /\ strategy.day = bar.day \/ bar.minute >= Last
  BY DEF SignalInv, KeepsTheDay
<1>. QED
  BY <1>1, <1>2, DayLengthIs DEF Follows, Shown

\* A bar that the strategy is not shown.
PassStep(b) ==
    /\ ~Shown(b) \/ (busy /\ b.day = bar.day)
    /\ Pass(b) /\ bar' = b /\ window' = WindowAfter(b) /\ opts' = opts

\* A bar that is not shown changes nothing that matters.
LEMMA PassKeeps ==
    ASSUME SignalInv, NEW b, Follows(bar, b), PassStep(b)
    PROVE  SignalInv'
<1>0. /\ TypeInv /\ KeepsTheDay /\ KeepsTheRange /\ KeepsTheOpen
      /\ KeepsToItsKind /\ FadesTheLast /\ FollowsTheFirst /\ NothingPendingWhileBusy
  BY DEF SignalInv
<1>1. /\ opts' = opts /\ strategy' = strategy /\ outside' = outside /\ order' = NoOrder
      /\ bar' = b /\ window' = WindowAfter(b)
      /\ busy' \in BOOLEAN /\ (busy' => busy /\ b.day = bar.day)
  BY <1>0 DEF PassStep, Pass, TypeInv
<1>2. /\ b.minute \in Int /\ b.day \in Nat /\ bar.day \in Nat /\ bar.minute \in Int
      /\ bar.day <= b.day /\ (bar.day = b.day => bar.minute < b.minute)
      /\ strategy.day \in Nat /\ Last \in Nat /\ RangeEnd \in Nat /\ RangeEnd <= Last
      /\ IsBar(b)
  BY <1>0, DayLengthIs DEF Follows, TypeInv, RangeStates, SignalStates
<1>3. b.minute >= Last \/ (busy /\ b.day = bar.day)
  BY <1>2 DEF PassStep, Shown
<1>4. TypeInv'
  <2>1. /\ WindowAfter(b) \in [open : Nat, high : Nat, low : Nat]
        /\ WindowAfter(b).high = 0 => WindowAfter(b).low = 0
    BY <1>0, <1>2, WindowIs
  <2>. QED
    BY <1>0, <1>1, <1>2, <2>1, NothingIs DEF TypeInv, Orders
<1>5. KeepsTheDay'
  <2>1. SUFFICES ASSUME opts.entry \in RangeTraders \cup OpenTraders
                 PROVE  /\ strategy.day <= b.day
                        /\ strategy.day = b.day \/ b.minute >= Last
                        /\ busy' => strategy.day = b.day
    BY <1>1 DEF KeepsTheDay
  <2>. QED
    BY <1>0, <1>1, <1>2, <1>3, <2>1 DEF KeepsTheDay
<1>6. KeepsTheRange'
  <2>1. SUFFICES ASSUME opts.entry \in RangeTraders
                 PROVE  /\ strategy.day = b.day => /\ strategy.high = WindowAfter(b).high
                                                   /\ strategy.low = WindowAfter(b).low
                        /\ strategy.day = b.day /\ strategy.complete => b.minute >= RangeEnd
                        /\ busy' => strategy.complete
    BY <1>1 DEF KeepsTheRange
  <2>2. /\ strategy.day = bar.day => strategy.high = window.high /\ strategy.low = window.low
        /\ strategy.day = bar.day /\ strategy.complete => bar.minute >= RangeEnd
        /\ busy => strategy.complete
        /\ strategy.day <= bar.day
        /\ busy => strategy.day = bar.day
    BY <1>0, <2>1 DEF KeepsTheDay, KeepsTheRange
  <2>3. b.minute >= RangeEnd
    BY <1>2, <1>3, <2>2
  <2>4. ~InWindow(opts, b)
    BY <1>2, <2>3 DEF InWindow
  <2>5. strategy.day = b.day => strategy.day = bar.day /\ Before(b) = window
    BY <1>2, <2>2 DEF Before
  <2>6. WindowAfter(b).high = Before(b).high /\ WindowAfter(b).low = Before(b).low
    BY <1>0, <1>2, <2>4, WindowIs
  <2>. QED
    BY <1>1, <2>2, <2>3, <2>5, <2>6
<1>7. KeepsTheOpen'
  <2>1. SUFFICES ASSUME opts.entry \in OpenTraders
                 PROVE  /\ strategy.day = b.day =>
                              \/ strategy.open = WindowAfter(b).open
                              \/ strategy.open = 0 /\ b.minute >= Last
                        /\ busy' => strategy.open > 0
    BY <1>1 DEF KeepsTheOpen
  <2>2. /\ strategy.day = bar.day =>
              strategy.open = window.open \/ (strategy.open = 0 /\ bar.minute >= Last)
        /\ busy => strategy.open > 0
        /\ strategy.day <= bar.day
    BY <1>0, <2>1 DEF KeepsTheDay, KeepsTheOpen
  <2>3. strategy.open \in Nat
    <3>1. opts.entry \notin RangeKinds
      BY <2>1 DEF OpenTraders, RangeKinds
    <3>. QED
      BY <1>0, <3>1 DEF TypeInv, SignalStates
  <2>4. strategy.day = b.day => strategy.day = bar.day /\ Before(b) = window
    BY <1>2, <2>2 DEF Before
  <2>5. WindowAfter(b).open = IF b.minute >= 0 /\ Before(b).open = 0 THEN b.open ELSE Before(b).open
    BY <1>0, <1>2, WindowIs
  <2>. QED
    BY <1>1, <1>2, <1>3, <2>2, <2>3, <2>4, <2>5
<1>8. KeepsToItsKind' /\ FadesTheLast'
  BY <1>0, <1>1 DEF KeepsToItsKind, FadesTheLast
<1>9. FollowsTheFirst'
  <2>1. SUFFICES ASSUME opts.entry = "vwap", strategy.day = b.day
                 PROVE  \/ outside = NoWatch /\ strategy.side = "none"
                        \/ outside.side = "up" /\ strategy.side = "BUY"
                        \/ outside.side = "down" /\ strategy.side = "SELL"
    BY <1>1 DEF FollowsTheFirst
  <2>2. strategy.day <= bar.day
    BY <1>0, <2>1 DEF KeepsTheDay, RangeTraders
  <2>3. strategy.day = bar.day
    BY <1>2, <2>1, <2>2
  <2>. QED
    BY <1>0, <2>1, <2>3 DEF FollowsTheFirst
<1>10. NothingPendingWhileBusy' /\ OrderIsTradable'
  BY <1>0, <1>1 DEF NothingPendingWhileBusy, OrderIsTradable
<1>. QED
  BY <1>4, <1>5, <1>6, <1>7, <1>8, <1>9, <1>10 DEF SignalInv

-----------------------------------------------------------------------------
(* A bar that a strategy is shown                                          *)

ShowStep(b) ==
    /\ Shown(b) /\ (~busy \/ b.day # bar.day)
    /\ Show(b) /\ bar' = b /\ window' = WindowAfter(b) /\ opts' = opts

\* What the action properties say of a step on which bar b comes.
LimitStep ==
    strategy.limit # NoLimit /\ bar' # bar /\ Shown(bar')
       => LET crossed == IF strategy.limit.direction = "BUY"
                         THEN bar'.low <= strategy.limit.price
                         ELSE bar'.high >= strategy.limit.price
          IN IF LimitLives(bar')
             THEN /\ strategy'.limit # strategy.limit => crossed
                  /\ crossed /\ bar'.stopBefore => order' # NoOrder
             ELSE order' = NoOrder

FadeStep ==
    opts.entry = "fade" /\ order' # NoOrder /\ bar' # bar
       => /\ outside # NoWatch /\ bar'.day = bar.day
          /\ bar'.time < outside.since + FadeWindow
          /\ order'.direction = (IF outside.side = "up" THEN "SELL" ELSE "BUY")

PullStep ==
    opts.entry = "vwap" /\ order' # NoOrder /\ bar' # bar
       => /\ outside # NoWatch /\ bar'.day = bar.day
          /\ order'.direction = (IF outside.side = "up" THEN "BUY" ELSE "SELL")

Steps == LimitStep /\ FadeStep /\ PullStep

\* The state of a range strategy as bar b finds it, and its answer.
LEMMA RangeShownIs ==
    ASSUME SignalInv, opts.entry \in RangeKinds,
           NEW b, Follows(bar, b), Shown(b)
    PROVE  LET s == Today(strategy, b)
               a == OnCandle(opts, strategy, b) IN
           /\ RangeState(opts, s) /\ s.day = b.day
           /\ b.day = bar.day => s = strategy
           /\ b.day # bar.day => s.limit = NoLimit /\ s.watch = NoWatch
           /\ s.high = Before(b).high /\ s.low = Before(b).low
           /\ s.complete => b.minute >= RangeEnd
           /\ RangeAnswer(opts, s, b, a.strategy, a.order)
           /\ opts.entry = "retest" => LimitAnswer(s, b, a.strategy, a.order)
<1>. DEFINE s == Today(strategy, b)
            a == OnCandle(opts, strategy, b)
<1>0. /\ TypeInv /\ KeepsTheRange /\ KeepsToItsKind
      /\ opts.entry \in RangeTraders
  BY DEF SignalInv, RangeTraders
<1>1. /\ b.minute \in Int /\ b.day \in Nat /\ bar.day \in Nat /\ bar.minute \in Int
      /\ (bar.day = b.day => bar.minute < b.minute)
      /\ RangeEnd \in Nat \ {0} /\ IsBar(b)
      /\ strategy \in RangeStates /\ window \in [open : Nat, high : Nat, low : Nat]
  BY <1>0, DayLengthIs DEF Follows, TypeInv
<1>2. (b.day = strategy.day) <=> (b.day = bar.day)
  BY <1>0, DayBegins
<1>3. RangeState(opts, strategy)
  BY <1>0, <1>1 DEF KeepsToItsKind, RangeState, RangeKinds
<1>4. /\ RangeState(opts, s) /\ s.day = b.day
      /\ b.day = bar.day => s = strategy
      /\ b.day # bar.day => s.limit = NoLimit /\ s.watch = NoWatch
      /\ s.high = Before(b).high /\ s.low = Before(b).low
      /\ s.complete => b.minute >= RangeEnd
  <2>1. CASE b.day = bar.day
    <3>1. s = strategy /\ Before(b) = window /\ strategy.day = bar.day
      BY <1>2, <2>1 DEF Today, Before
    <3>2. /\ strategy.high = window.high /\ strategy.low = window.low
          /\ strategy.complete => bar.minute >= RangeEnd
      BY <1>0, <3>1 DEF KeepsTheRange
    <3>. QED
      BY <1>1, <1>3, <2>1, <3>1, <3>2
  <2>2. CASE b.day # bar.day
    <3>1. s = [NewStrategy EXCEPT !.day = b.day] /\ Before(b) = NoWindow
      BY <1>2, <2>2 DEF Today, Before
    <3>2. /\ s \in RangeStates /\ s.day = b.day /\ s.limit = NoLimit /\ s.watch = NoWatch
          /\ s.high = 0 /\ s.low = 0 /\ ~s.complete
      <4>1. NewStrategy \in RangeStates
        BY NothingIs DEF NewStrategy, RangeStates
      <4>2. /\ NewStrategy.limit = NoLimit /\ NewStrategy.watch = NoWatch
            /\ NewStrategy.high = 0 /\ NewStrategy.low = 0 /\ ~NewStrategy.complete
        BY DEF NewStrategy
      <4>. QED
        BY <1>1, <3>1, <4>1, <4>2 DEF RangeStates
    <3>3. NoWindow.high = 0 /\ NoWindow.low = 0
      BY DEF NoWindow
    <3>. QED
      BY <2>2, <3>1, <3>2, <3>3 DEF RangeState
  <2>. QED
    BY <2>1, <2>2
<1>. HIDE DEF s
<1>5. CASE b.minute < 0
  <2>1. a.strategy = s /\ a.order = NoOrder
    BY <1>5 DEF OnCandle, Answer, s
  <2>2. ~s.complete
    BY <1>1, <1>4, <1>5
  <2>3. opts.start \in Nat
    BY <1>0, OptionsAre DEF TypeInv
  <2>4. ~Forms(opts, s, b)
    BY <1>1, <1>5, <2>3 DEF Forms, InWindow
  <2>5. s.limit = NoLimit
    BY <1>4, <2>2 DEF RangeState
  <2>6. RangeAnswer(opts, s, b, s, NoOrder)
    BY <1>4, <2>2, <2>4, StayIs
  <2>. QED
    BY <1>4, <2>1, <2>5, <2>6 DEF LimitAnswer, Stands, s
<1>6. CASE ~(b.minute < 0)
  <2>1. a = InSession(opts, s, b)
    BY <1>6 DEF OnCandle, s
  <2>. HIDE DEF a
  <2>. QED
    BY <1>1, <1>4, <2>1, InSessionIs DEF s, a
<1>. QED
  BY <1>5, <1>6

\* The range of the state after the bar is that of the window after it.
LEMMA RangeFollowsWindow ==
    ASSUME TypeInv, NEW b, IsBar(b), b.minute \in Int,
           NEW s, s.high = Before(b).high, s.low = Before(b).low,
           s.complete => b.minute >= RangeEnd,
           s \in RangeStates \/ s \in SignalStates,
           NEW t,
           Forms(opts, s, b) => t.high = Widen(s, b).high /\ t.low = Widen(s, b).low,
           ~Forms(opts, s, b) => t.high = s.high /\ t.low = s.low
    PROVE  t.high = WindowAfter(b).high /\ t.low = WindowAfter(b).low
<1>. DEFINE w == WindowAfter(b)
            v == Before(b)
<1>1. /\ v \in [open : Nat, high : Nat, low : Nat] /\ (v.high = 0 => v.low = 0)
      /\ ~InWindow(opts, b) => w.high = v.high /\ w.low = v.low
      /\ InWindow(opts, b) /\ v.high = 0 => w.high = b.high /\ w.low = b.low
      /\ InWindow(opts, b) /\ v.high # 0 =>
            w.high = Higher(v.high, b.high) /\ w.low = Lower(v.low, b.low)
  BY WindowIs
<1>. HIDE DEF v, w
<1>2. s.high = v.high /\ s.low = v.low
  BY DEF v
<1>3. CASE Forms(opts, s, b)
  <2>1. InWindow(opts, b)
    BY <1>3 DEF Forms
  <2>2. v.high = 0 => Widen(s, b).high = b.high /\ Widen(s, b).low = b.low
    BY <1>1, <1>2 DEF Widen, RangeStates, SignalStates
  <2>3. v.high # 0 => /\ Widen(s, b).high = Higher(v.high, b.high)
                      /\ Widen(s, b).low = Lower(v.low, b.low)
    BY <1>1, <1>2 DEF Widen, RangeStates, SignalStates
  <2>. QED
    BY <1>1, <1>3, <2>1, <2>2, <2>3 DEF w
<1>4. CASE ~Forms(opts, s, b)
  <2>1. ~InWindow(opts, b)
    BY <1>4, DayLengthIs DEF Forms, InWindow
  <2>. QED
    BY <1>1, <1>2, <1>4, <2>1 DEF w
<1>. QED
  BY <1>3, <1>4

\* The outside watch that a fade's is compared with.
LEMMA FadeFollows ==
    ASSUME opts.entry = "fade", NEW b, NEW s, NEW a,
           a.order = NoOrder /\ a.strategy.watch # NoWatch => WatchGoesOn(s, b, a.strategy),
           a.order # NoOrder => a.strategy.watch = NoWatch,
           s.watch # NoWatch => b.day = bar.day /\ outside = s.watch,
           a.strategy.watch # NoWatch => a.strategy.complete
    PROVE  a.strategy.watch # NoWatch => OutsideAfter(b, a) = a.strategy.watch
<1>. SUFFICES ASSUME a.strategy.watch # NoWatch
              PROVE  OutsideAfter(b, a) = a.strategy.watch
  OBVIOUS
<1>. DEFINE t == a.strategy
            left == t.complete /\ t.high > t.low /\ Breakout(t, b) # "none"
<1>1. a.order = NoOrder /\ WatchGoesOn(s, b, t) /\ t.complete
  OBVIOUS
<1>2. OutsideAfter(b, a) = IF left THEN [side |-> Breakout(t, b), since |-> b.time]
                           ELSE IF b.day = bar.day THEN outside ELSE NoWatch
  BY <1>1 DEF OutsideAfter
<1>3. CASE left
  <2>1. t.watch = [side |-> Breakout(t, b), since |-> b.time]
    BY <1>1, <1>3 DEF WatchGoesOn
  <2>. QED
    BY <1>2, <1>3, <2>1
<1>4. CASE ~left
  <2>1. t.watch = s.watch
    BY <1>1, <1>4 DEF WatchGoesOn
  <2>. QED
    BY <1>2, <1>4, <2>1
<1>. QED
  BY <1>3, <1>4

\* What is compared with the strategies is a watch.
LEMMA OutsideIs ==
    ASSUME outside \in Watches, NEW b, IsBar(b), NEW a
    PROVE  OutsideAfter(b, a) \in Watches
<1>1. b.time \in Int /\ Breakout(a.strategy, b) \in {"none", "up", "down"}
  BY BarIs, BreakoutIs
<1>2. [side |-> Breakout(a.strategy, b), since |-> b.time] \in Watches
  BY <1>1 DEF Watches
<1>. QED
  BY <1>2, NothingIs DEF OutsideAfter

\* A range strategy is shown a bar.
LEMMA RangeShown ==
    ASSUME SignalInv, opts.entry \in RangeKinds,
           NEW b, Follows(bar, b), ShowStep(b)
    PROVE  SignalInv' /\ Steps
<1>. DEFINE s == Today(strategy, b)
            a == OnCandle(opts, strategy, b)
            t == a.strategy
            d == a.order
<1>0. /\ TypeInv /\ KeepsTheDay /\ KeepsTheRange
      /\ KeepsToItsKind /\ FadesTheLast /\ NothingPendingWhileBusy
  BY DEF SignalInv
<1>1. /\ RangeState(opts, s) /\ s.day = b.day
      /\ b.day = bar.day => s = strategy
      /\ b.day # bar.day => s.limit = NoLimit /\ s.watch = NoWatch
      /\ s.high = Before(b).high /\ s.low = Before(b).low
      /\ s.complete => b.minute >= RangeEnd
      /\ RangeAnswer(opts, s, b, t, d)
      /\ opts.entry = "retest" => LimitAnswer(s, b, t, d)
  BY RangeShownIs DEF ShowStep
<1>2. /\ Shown(b) /\ (~busy \/ b.day # bar.day)
      /\ opts' = opts /\ strategy' = t /\ order' = d
      /\ bar' = b /\ window' = WindowAfter(b)
      /\ busy' \in {FALSE, d # NoOrder} /\ outside' = OutsideAfter(b, a)
  BY DEF ShowStep, Show, OnCandleOf
<1>3. (b.day = strategy.day) <=> (b.day = bar.day)
  BY <1>2, DayBegins DEF RangeTraders
<1>. HIDE DEF s, a
<1>4. /\ b.minute \in Int /\ b.day \in Nat /\ bar.day \in Nat /\ bar.minute \in Int
      /\ bar.day <= b.day
      /\ RangeEnd \in Nat \ {0} /\ IsBar(b)
      /\ opts.entry \in RangeTraders /\ opts.entry \notin OpenTraders
      /\ opts.entry \notin {"vwap", "random"}
  BY <1>0, DayLengthIs DEF Follows, RangeTraders, OpenTraders, RangeKinds
<1>5. /\ RangeGoesOn(opts, s, b, t) /\ RangeState(opts, t) /\ d \in Orders
      /\ t \in RangeStates /\ t.day = b.day
      /\ t.complete => b.minute >= RangeEnd
      /\ busy' \in BOOLEAN /\ (busy' => d # NoOrder)
      /\ d # NoOrder =>
            /\ t.complete /\ t.limit = NoLimit /\ t.watch = NoWatch
            /\ b.low <= d.price /\ d.price <= b.high
  BY <1>1, <1>2 DEF RangeAnswer, RangeGoesOn, RangeState
<1>6. TypeInv'
  <2>1. /\ WindowAfter(b) \in [open : Nat, high : Nat, low : Nat]
        /\ WindowAfter(b).high = 0 => WindowAfter(b).low = 0
    BY <1>0, <1>4, WindowIs
  <2>2. OutsideAfter(b, a) \in Watches
    BY <1>0, <1>4, OutsideIs DEF TypeInv
  <2>. QED
    BY <1>0, <1>2, <1>4, <1>5, <2>1, <2>2 DEF TypeInv, Orders
<1>7. KeepsTheDay' /\ KeepsTheOpen'
  BY <1>2, <1>4, <1>5 DEF KeepsTheDay, KeepsTheOpen
<1>8. KeepsTheRange'
  <2>1. s \in RangeStates
    BY <1>1 DEF RangeState
  <2>2. t.high = WindowAfter(b).high /\ t.low = WindowAfter(b).low
    BY <1>0, <1>1, <1>4, <1>5, <2>1, RangeFollowsWindow DEF RangeGoesOn
  <2>. QED
    BY <1>2, <1>5, <2>2 DEF KeepsTheRange
<1>9. KeepsToItsKind'
  BY <1>2, <1>4, <1>5 DEF KeepsToItsKind, RangeState
<1>10. FadesTheLast'
  <2>1. CASE opts.entry = "fade"
    <3>1. d = NoOrder /\ t.watch # NoWatch => WatchGoesOn(s, b, t)
      BY <1>1, <2>1 DEF RangeAnswer
    <3>2. s.watch # NoWatch => b.day = bar.day /\ outside = s.watch
      BY <1>0, <1>1 DEF FadesTheLast
    <3>3. t.watch # NoWatch => t.complete
      BY <1>5 DEF RangeState
    <3>4. t.watch # NoWatch => OutsideAfter(b, a) = t.watch
      BY <1>5, <2>1, <3>1, <3>2, <3>3, FadeFollows
    <3>. QED
      BY <1>2, <3>4 DEF FadesTheLast
  <2>2. CASE opts.entry # "fade"
    BY <1>2, <1>5, <2>2 DEF FadesTheLast, RangeState
  <2>. QED
    BY <2>1, <2>2
<1>11. FollowsTheFirst' /\ NothingPendingWhileBusy' /\ OrderIsTradable'
  BY <1>2, <1>4, <1>5 DEF FollowsTheFirst, NothingPendingWhileBusy, OrderIsTradable
<1>12. LimitStep
  <2>1. SUFFICES ASSUME strategy.limit # NoLimit
                 PROVE  IF LimitLives(b)
                        THEN /\ t.limit # strategy.limit => Reached(strategy.limit, b)
                             /\ Reached(strategy.limit, b) /\ b.stopBefore => d # NoOrder
                        ELSE d = NoOrder
    BY <1>2 DEF LimitStep, Reached
  <2>2. opts.entry = "retest"
    BY <1>0, <1>4, <2>1 DEF KeepsToItsKind
  <2>3. LimitLives(b) <=> b.day = strategy.day /\ b.time < strategy.limit.expires
    BY <2>1, <2>2 DEF LimitLives
  <2>4. CASE b.day = bar.day
    <3>1. s = strategy /\ b.day = strategy.day
      BY <1>1, <1>3, <2>4
    <3>2. Stands(s.limit, b) <=> LimitLives(b)
      BY <2>1, <2>3, <3>1 DEF Stands
    <3>. QED
      BY <1>1, <2>2, <3>1, <3>2 DEF LimitAnswer
  <2>5. CASE b.day # bar.day
    <3>1. ~LimitLives(b) /\ ~Stands(s.limit, b)
      BY <1>1, <1>3, <2>3, <2>5 DEF Stands
    <3>. QED
      BY <1>1, <2>2, <3>1 DEF LimitAnswer
  <2>. QED
    BY <2>4, <2>5
<1>13. FadeStep
  <2>1. SUFFICES ASSUME opts.entry = "fade", d # NoOrder
                 PROVE  /\ outside # NoWatch /\ b.day = bar.day
                        /\ b.time < outside.since + FadeWindow
                        /\ d.direction = (IF outside.side = "up" THEN "SELL" ELSE "BUY")
    BY <1>2 DEF FadeStep
  <2>2. FadesWatch(s, b, d)
    BY <1>1, <2>1 DEF RangeAnswer
  <2>3. s.watch # NoWatch => b.day = bar.day /\ outside = s.watch
    BY <1>0, <1>1 DEF FadesTheLast
  <2>. QED
    BY <2>2, <2>3 DEF FadesWatch
<1>14. PullStep
  BY <1>4 DEF PullStep
<1>. QED
  BY <1>6, <1>7, <1>8, <1>9, <1>10, <1>11, <1>12, <1>13, <1>14 DEF SignalInv, Steps

\* What the kinds that keep no range make of a bar.
SignalAnswer(o, s, b, a) ==
    /\ a.strategy \in SignalStates
    /\ a.strategy.watch = s.watch /\ a.strategy.complete = s.complete
    /\ o.entry # "random" => a.strategy.limit = s.limit
    /\ a.strategy.limit # NoLimit => a.strategy.limit.direction \in {"BUY", "SELL"}
    /\ a.order \in Orders
    /\ a.order # NoOrder => /\ a.strategy.limit = NoLimit
                            /\ b.low <= a.order.price /\ a.order.price <= b.high
    /\ o.entry = "random" => RandomLimit(s, b, a.strategy, a.order)
    /\ o.entry \in OpenTraders =>
          /\ a.strategy.day = b.day /\ a.strategy.open = OpenAfter(s, b)
          /\ a.order # NoOrder => a.strategy.open > 0

\* Each kind does what is said of all.
LEMMA SignalAnswerIs ==
    ASSUME NEW o, o.entry \in SignalKinds \ {"vwap"},
           NEW s \in SignalStates, s.limit # NoLimit => o.entry = "random" /\ Pends(s),
           NEW b, IsBar(b), b.day \in Nat, b.minute \in Int
    PROVE  SignalAnswer(o, s, b, OnSignalCandle(o, s, b))
<1>. DEFINE a == OnSignalCandle(o, s, b)
<1>1. ASSUME o.entry # "random", PlainAnswer(s, b, a),
             o.entry \in OpenTraders => OpenAnswer(s, b, a)
      PROVE  SignalAnswer(o, s, b, a)
  <2>. HIDE DEF a
  <2>1. /\ a.strategy \in SignalStates /\ a.strategy.limit = NoLimit
        /\ a.strategy.watch = s.watch /\ a.strategy.complete = s.complete /\ s.limit = NoLimit
    BY <1>1 DEF PlainAnswer, Plain
  <2>2. /\ a.order \in Orders
        /\ a.order # NoOrder => b.low <= a.order.price /\ a.order.price <= b.high
    BY <1>1, BarIs, NothingIs DEF PlainAnswer, ClosePrice
  <2>3. o.entry \in OpenTraders =>
          /\ a.strategy.day = b.day /\ a.strategy.open = OpenAfter(s, b)
          /\ a.order # NoOrder => a.strategy.open > 0
    BY <1>1 DEF OpenAnswer
  <2>. QED
    BY <1>1, <2>1, <2>2, <2>3 DEF SignalAnswer
<1>2. CASE o.entry = "momentum"
  <2>1. a = Momentum(s, b)
    BY <1>2 DEF OnSignalCandle
  <2>. QED
    BY <1>1, <1>2, <2>1, MomentumIs DEF OpenTraders
<1>3. CASE o.entry = "filtered"
  <2>1. a = MomentumFiltered(o, s, b)
    BY <1>3 DEF OnSignalCandle
  <2>. QED
    BY <1>1, <1>3, <2>1, MomentumFilteredIs DEF OpenTraders
<1>4. CASE o.entry = "daytrend"
  <2>1. a = MomentumSberDaytrend(o, s, b)
    BY <1>4 DEF OnSignalCandle
  <2>2. OpenAnswer(s, b, a)
    BY <2>1, DaytrendIs
  <2>. QED
    BY <1>1, <1>4, <2>2 DEF OpenAnswer
<1>5. CASE o.entry = "reversion"
  <2>1. a = MeanReversion(s, b)
    BY <1>5 DEF OnSignalCandle
  <2>. QED
    BY <1>1, <1>5, <2>1, MeanReversionIs DEF OpenTraders
<1>6. CASE o.entry = "random"
  <2>1. a = RandomEntry(o, s, b)
    BY <1>6 DEF OnSignalCandle
  <2>2. Pends(s)
    BY DEF Pends
  <2>3. RandomAnswer(s, b, a.strategy, a.order)
    BY <2>1, <2>2, RandomIs
  <2>. HIDE DEF a
  <2>. QED
    BY <1>6, <2>3 DEF RandomAnswer, Pends, SignalAnswer, OpenTraders, a
<1>7. CASE o.entry = "prevday"
  <2>1. a = PrevDayLevelBreakout(s, b)
    BY <1>7 DEF OnSignalCandle
  <2>. QED
    BY <1>1, <1>7, <2>1, PrevDayIs DEF OpenTraders
<1>8. CASE o.entry = "midday"
  <2>1. a = MiddayCompression(s, b)
    BY <1>8 DEF OnSignalCandle
  <2>. QED
    BY <1>1, <1>8, <2>1, MiddayIs DEF OpenTraders
<1>9. CASE o.entry = "late"
  <2>1. a = LateSessionImbalance(s, b)
    BY <1>9 DEF OnSignalCandle
  <2>2. OpenAnswer(s, b, a)
    BY <2>1, LateIs
  <2>. QED
    BY <1>1, <1>9, <2>2 DEF OpenAnswer
<1>10. CASE o.entry = "gap"
  <2>1. a = SessionGapDrive(o, s, b)
    BY <1>10 DEF OnSignalCandle
  <2>. QED
    BY <1>1, <1>10, <2>1, GapIs DEF OpenTraders
<1>. QED
  BY <1>2, <1>3, <1>4, <1>5, <1>6, <1>7, <1>8, <1>9, <1>10 DEF SignalKinds

\* A strategy that keeps no range is shown a bar.
LEMMA SignalShown ==
    ASSUME SignalInv, opts.entry \in SignalKinds \ {"vwap"},
           NEW b, Follows(bar, b), ShowStep(b)
    PROVE  SignalInv' /\ Steps
<1>. DEFINE s == strategy
            a == OnSignalCandle(opts, strategy, b)
            t == a.strategy
            d == a.order
<1>0. /\ TypeInv /\ KeepsTheDay /\ KeepsTheOpen
      /\ KeepsToItsKind /\ FadesTheLast /\ NothingPendingWhileBusy
  BY DEF SignalInv
<1>1. /\ opts.entry \notin RangeKinds /\ opts.entry \notin RangeTraders
      /\ opts.entry \notin {"retest", "fade", "vwap"}
  BY DEF SignalKinds, RangeKinds, RangeTraders
<1>2. /\ Shown(b) /\ (~busy \/ b.day # bar.day)
      /\ opts' = opts /\ strategy' = t /\ order' = d
      /\ bar' = b /\ window' = WindowAfter(b)
      /\ busy' \in {FALSE, d # NoOrder} /\ outside' = OutsideAfter(b, a)
  BY <1>1 DEF ShowStep, Show, OnCandleOf
<1>3. /\ b.minute \in Int /\ b.day \in Nat /\ bar.day \in Nat /\ bar.minute \in Int
      /\ bar.day <= b.day /\ (bar.day = b.day => bar.minute < b.minute)
      /\ Last \in Nat /\ IsBar(b) /\ s \in SignalStates
  BY <1>0, <1>1, DayLengthIs DEF Follows, TypeInv
<1>4. /\ s.limit # NoLimit => opts.entry = "random" /\ Pends(s)
      /\ s.watch = NoWatch /\ ~s.complete
  BY <1>0, <1>1, <1>3 DEF KeepsToItsKind, Pends
<1>5. SignalAnswer(opts, s, b, a)
  BY <1>3, <1>4, SignalAnswerIs
<1>. HIDE DEF a
<1>6. /\ t \in SignalStates /\ t.watch = NoWatch /\ ~t.complete
      /\ t.limit # NoLimit => opts.entry = "random" /\ t.limit.direction \in {"BUY", "SELL"}
      /\ d \in Orders
      /\ d # NoOrder => t.limit = NoLimit /\ b.low <= d.price /\ d.price <= b.high
      /\ busy' \in BOOLEAN /\ (busy' => d # NoOrder)
  BY <1>2, <1>4, <1>5 DEF SignalAnswer
<1>7. TypeInv'
  <2>1. /\ WindowAfter(b) \in [open : Nat, high : Nat, low : Nat]
        /\ WindowAfter(b).high = 0 => WindowAfter(b).low = 0
    BY <1>0, <1>3, WindowIs
  <2>2. OutsideAfter(b, a) \in Watches
    BY <1>0, <1>3, OutsideIs DEF TypeInv
  <2>. QED
    BY <1>0, <1>1, <1>2, <1>3, <1>6, <2>1, <2>2 DEF TypeInv, Orders
<1>8. KeepsTheRange' /\ KeepsToItsKind' /\ FadesTheLast' /\ FollowsTheFirst'
  BY <1>1, <1>2, <1>6 DEF KeepsTheRange, KeepsToItsKind, FadesTheLast, FollowsTheFirst
<1>9. KeepsTheDay' /\ KeepsTheOpen'
  <2>1. CASE opts.entry \in OpenTraders
    <3>1. /\ t.day = b.day /\ t.open = OpenAfter(s, b)
          /\ d # NoOrder => t.open > 0
      BY <1>5, <2>1 DEF SignalAnswer
    <3>2. (b.day = s.day) <=> (b.day = bar.day)
      BY <1>2, <2>1, DayBegins
    <3>3. s.day = bar.day => \/ s.open = window.open
                             \/ s.open = 0 /\ bar.minute >= Last
      BY <1>0, <2>1 DEF KeepsTheOpen
    <3>4. WindowAfter(b).open = IF b.minute >= 0 /\ Before(b).open = 0 THEN b.open ELSE Before(b).open
      BY <1>0, <1>3, WindowIs
    <3>5. (IF b.day = s.day THEN s.open ELSE 0) = Before(b).open
      <4>1. CASE b.day = bar.day
        <5>1. s.day = bar.day /\ Before(b) = window
          BY <3>2, <4>1 DEF Before
        <5>2. b.minute < Last
          BY <1>2 DEF Shown
        <5>3. s.open = window.open
          BY <1>3, <3>3, <4>1, <5>1, <5>2
        <5>. QED
          BY <4>1, <5>1, <5>3
      <4>2. CASE b.day # bar.day
        BY <3>2, <4>2 DEF Before, NoWindow
      <4>. QED
        BY <4>1, <4>2
    <3>6. t.open = WindowAfter(b).open
      BY <3>1, <3>4, <3>5 DEF OpenAfter
    <3>. QED
      BY <1>2, <1>3, <1>6, <3>1, <3>6 DEF KeepsTheDay, KeepsTheOpen
  <2>2. CASE opts.entry \notin OpenTraders
    BY <1>1, <1>2, <2>2 DEF KeepsTheDay, KeepsTheOpen
  <2>. QED
    BY <2>1, <2>2
<1>10. NothingPendingWhileBusy' /\ OrderIsTradable'
  BY <1>2, <1>6 DEF NothingPendingWhileBusy, OrderIsTradable
<1>11. LimitStep
  <2>1. SUFFICES ASSUME s.limit # NoLimit
                 PROVE  IF LimitLives(b)
                        THEN /\ t.limit # s.limit => Reached(s.limit, b)
                             /\ Reached(s.limit, b) /\ b.stopBefore => d # NoOrder
                        ELSE d = NoOrder
    BY <1>2 DEF LimitStep, Reached
  <2>2. opts.entry = "random"
    BY <1>4, <2>1
  <2>3. LimitLives(b) <=> b.day = s.day /\ s.left > 0
    BY <2>1, <2>2 DEF LimitLives
  <2>. QED
    BY <1>5, <2>1, <2>2, <2>3 DEF SignalAnswer, RandomLimit
<1>12. FadeStep /\ PullStep
  BY <1>1 DEF FadeStep, PullStep
<1>. QED
  BY <1>7, <1>8, <1>9, <1>10, <1>11, <1>12 DEF SignalInv, Steps

\* The pullback strategy is shown a bar.
LEMMA PullShown ==
    ASSUME SignalInv, opts.entry = "vwap",
           NEW b, Follows(bar, b), ShowStep(b)
    PROVE  SignalInv' /\ Steps
<1>. DEFINE s == SignalsToday(strategy, b)
            a == VWAPPullback(strategy, b)
            t == a.strategy
            d == a.order
            seen == IF b.day = bar.day THEN outside ELSE NoWatch
<1>0. /\ TypeInv /\ KeepsTheDay /\ KeepsTheRange /\ FollowsTheFirst
      /\ KeepsToItsKind /\ FadesTheLast /\ NothingPendingWhileBusy
  BY DEF SignalInv
<1>1. /\ opts.entry \notin RangeKinds /\ opts.entry \in RangeTraders
      /\ opts.entry \notin OpenTraders /\ opts.start = 0
  BY <1>0, OptionsAre DEF RangeKinds, RangeTraders, OpenTraders, TypeInv
<1>2. /\ Shown(b) /\ (~busy \/ b.day # bar.day)
      /\ opts' = opts /\ strategy' = t /\ order' = d
      /\ bar' = b /\ window' = WindowAfter(b)
      /\ busy' \in {FALSE, d # NoOrder} /\ outside' = OutsideAfter(b, a)
  BY <1>1 DEF ShowStep, Show, OnCandleOf, OnSignalCandle
<1>3. /\ b.minute \in Int /\ b.day \in Nat /\ bar.day \in Nat /\ bar.minute \in Int
      /\ bar.day <= b.day /\ (bar.day = b.day => bar.minute < b.minute)
      /\ RangeEnd \in Nat \ {0} /\ IsBar(b) /\ strategy \in SignalStates
      /\ outside \in Watches
  BY <1>0, <1>1, DayLengthIs DEF Follows, TypeInv
<1>4. (b.day = strategy.day) <=> (b.day = bar.day)
  BY <1>1, <1>2, DayBegins
<1>5. strategy.limit = NoLimit /\ strategy.watch = NoWatch
  BY <1>0 DEF KeepsToItsKind
<1>6. /\ Pulls(s, b)
      /\ s.high = Before(b).high /\ s.low = Before(b).low
      /\ \/ seen = NoWatch /\ s.side = "none"
         \/ seen.side = "up" /\ s.side = "BUY"
         \/ seen.side = "down" /\ s.side = "SELL"
      /\ s.side # "none" => b.day = bar.day
  <2>1. CASE b.day = bar.day
    <3>1. s = strategy /\ Before(b) = window /\ strategy.day = bar.day /\ seen = outside
      BY <1>4, <2>1 DEF SignalsToday, Before
    <3>2. /\ strategy.high = window.high /\ strategy.low = window.low
          /\ strategy.complete => bar.minute >= RangeEnd
      BY <1>0, <1>1, <3>1 DEF KeepsTheRange
    <3>3. \/ outside = NoWatch /\ strategy.side = "none"
          \/ outside.side = "up" /\ strategy.side = "BUY"
          \/ outside.side = "down" /\ strategy.side = "SELL"
      BY <1>0, <3>1 DEF FollowsTheFirst
    <3>. HIDE DEF s, seen
    <3>. QED
      BY <1>3, <1>5, <2>1, <3>1, <3>2, <3>3 DEF Pulls
  <2>2. CASE b.day # bar.day
    <3>1. s = [NewSignals EXCEPT !.day = b.day] /\ Before(b) = NoWindow /\ seen = NoWatch
      BY <1>4, <2>2 DEF SignalsToday, Before
    <3>2. NewSignals \in SignalStates
      <4>1. <<>> \in Seq(Levelled) /\ <<>> \in Seq(Nat) /\ {} \in SUBSET {"BUY", "SELL"}
        OBVIOUS
      <4>2. "none" \in Directions
        BY DEF Directions
      <4>. QED
        BY <4>1, <4>2, NothingIs DEF NewSignals, SignalStates
    <3>3. /\ NewSignals.limit = NoLimit /\ NewSignals.watch = NoWatch /\ NewSignals.side = "none"
          /\ NewSignals.high = 0 /\ NewSignals.low = 0 /\ ~NewSignals.complete
      BY DEF NewSignals
    <3>4. /\ s \in SignalStates /\ s.day = b.day /\ s.limit = NoLimit /\ s.watch = NoWatch
          /\ s.high = 0 /\ s.low = 0 /\ ~s.complete /\ s.side = "none"
      BY <1>3, <3>1, <3>2, <3>3 DEF SignalStates
    <3>5. NoWindow.high = 0 /\ NoWindow.low = 0
      BY DEF NoWindow
    <3>. HIDE DEF s, seen
    <3>. QED
      BY <2>2, <3>1, <3>4, <3>5 DEF Pulls
  <2>. QED
    BY <2>1, <2>2
<1>7. PullAnswer(opts, s, b, t, d)
  <2>1. a = VWAPPullback(s, b)
    <3>1. SignalsToday(s, b) = s
      BY <1>6 DEF SignalsToday, Pulls
    <3>. QED
      BY <3>1 DEF VWAPPullback
  <2>. HIDE DEF s, a
  <2>. QED
    BY <1>1, <1>3, <1>6, <2>1, PullbackIs
<1>. HIDE DEF s, a
<1>8. /\ t \in SignalStates /\ t.day = b.day /\ t.limit = NoLimit /\ t.watch = NoWatch
      /\ t.complete => b.minute >= RangeEnd
      /\ d \in Orders
      /\ d # NoOrder => /\ t.complete /\ s.side # "none" /\ d.direction = s.side
                        /\ b.low <= d.price /\ d.price <= b.high
      /\ busy' \in BOOLEAN /\ (busy' => d # NoOrder)
  BY <1>2, <1>6, <1>7 DEF PullAnswer, Pulls
<1>9. TypeInv'
  <2>1. /\ WindowAfter(b) \in [open : Nat, high : Nat, low : Nat]
        /\ WindowAfter(b).high = 0 => WindowAfter(b).low = 0
    BY <1>0, <1>3, WindowIs
  <2>2. OutsideAfter(b, a) \in Watches
    BY <1>3, OutsideIs
  <2>. QED
    BY <1>0, <1>1, <1>2, <1>3, <1>8, <2>1, <2>2 DEF TypeInv, Orders
<1>10. KeepsTheDay' /\ KeepsTheOpen'
  BY <1>1, <1>2, <1>3, <1>8 DEF KeepsTheDay, KeepsTheOpen
<1>11. KeepsTheRange'
  <2>1. t.high = WindowAfter(b).high /\ t.low = WindowAfter(b).low
    BY <1>0, <1>3, <1>6, <1>7, RangeFollowsWindow DEF PullAnswer, Pulls
  <2>. QED
    BY <1>2, <1>8, <2>1 DEF KeepsTheRange
<1>12. KeepsToItsKind' /\ FadesTheLast'
  BY <1>1, <1>2, <1>8 DEF KeepsToItsKind, FadesTheLast
<1>13. FollowsTheFirst'
  <2>. DEFINE o == OutsideAfter(b, a)
  <2>1. o = IF Leaves(t, b) /\ seen = NoWatch
            THEN [side |-> Breakout(t, b), since |-> b.time]
            ELSE seen
    BY DEF OutsideAfter, Leaves
  <2>. HIDE DEF o, seen
  <2>2. CASE s.side = "none"
    <3>1. t.side = IF Leaves(t, b) THEN Way(Breakout(t, b)) ELSE "none"
      BY <1>7, <2>2 DEF PullAnswer
    <3>2. seen = NoWatch
      BY <1>6, <2>2
    <3>3. CASE Leaves(t, b)
      <4>1. o.side = Breakout(t, b) /\ t.side = Way(Breakout(t, b))
        BY <2>1, <3>1, <3>2, <3>3
      <4>2. Breakout(t, b) \in {"up", "down"}
        BY <3>3, BreakoutIs DEF Leaves
      <4>. QED
        BY <1>2, <4>1, <4>2 DEF FollowsTheFirst, Way, o
    <3>4. CASE ~Leaves(t, b)
      BY <1>2, <2>1, <3>1, <3>2, <3>4 DEF FollowsTheFirst, o
    <3>. QED
      BY <3>3, <3>4
  <2>3. CASE s.side # "none"
    <3>1. t.side = s.side
      BY <1>7, <2>3 DEF PullAnswer
    <3>2. \/ seen.side = "up" /\ s.side = "BUY"
          \/ seen.side = "down" /\ s.side = "SELL"
      BY <1>6, <2>3
    <3>4. seen # NoWatch
      BY <3>2, NothingIs
    <3>3. o = seen
      BY <2>1, <3>4
    <3>. QED
      BY <1>2, <3>1, <3>2, <3>3 DEF FollowsTheFirst, o
  <2>. QED
    BY <2>2, <2>3
<1>14. NothingPendingWhileBusy' /\ OrderIsTradable'
  BY <1>2, <1>8 DEF NothingPendingWhileBusy, OrderIsTradable
<1>15. LimitStep /\ FadeStep
  BY <1>1, <1>5 DEF LimitStep, FadeStep
<1>16. PullStep
  <2>1. SUFFICES ASSUME d # NoOrder
                 PROVE  /\ outside # NoWatch /\ b.day = bar.day
                        /\ d.direction = (IF outside.side = "up" THEN "BUY" ELSE "SELL")
    BY <1>2 DEF PullStep
  <2>2. s.side # "none" /\ d.direction = s.side
    BY <1>8, <2>1
  <2>3. b.day = bar.day /\ seen = outside
    BY <1>6, <2>2
  <2>. HIDE DEF seen
  <2>. QED
    BY <1>6, <2>2, <2>3, NothingIs
<1>. QED
  BY <1>9, <1>10, <1>11, <1>12, <1>13, <1>14, <1>15, <1>16 DEF SignalInv, Steps

-----------------------------------------------------------------------------
(* Every step                                                              *)

\* Nothing is known before the first bar.
LEMMA InitSignalInv == Init => SignalInv
<1>. SUFFICES ASSUME Init PROVE SignalInv
  OBVIOUS
<1>1. /\ opts \in Options /\ bar = NoBar /\ order = NoOrder /\ busy = FALSE
      /\ window = NoWindow /\ outside = NoWatch
      /\ strategy = IF opts.entry \in RangeKinds THEN NewStrategy ELSE NewSignals
  BY DEF Init
<1>2. NewStrategy \in RangeStates
  BY NothingIs DEF NewStrategy, RangeStates
<1>3. NewSignals \in SignalStates
  <2>1. <<>> \in Seq(Levelled) /\ <<>> \in Seq(Nat) /\ {} \in SUBSET {"BUY", "SELL"}
    OBVIOUS
  <2>2. "none" \in Directions
    BY DEF Directions
  <2>. QED
    BY <2>1, <2>2, NothingIs DEF NewSignals, SignalStates
<1>4. /\ strategy.day = 0 /\ strategy.limit = NoLimit /\ strategy.watch = NoWatch
      /\ strategy.high = 0 /\ strategy.low = 0 /\ ~strategy.complete
      /\ opts.entry \notin RangeKinds => strategy.open = 0 /\ strategy.side = "none"
  BY <1>1 DEF NewStrategy, NewSignals
<1>5. /\ NoWindow \in [open : Nat, high : Nat, low : Nat]
      /\ NoWindow.open = 0 /\ NoWindow.high = 0 /\ NoWindow.low = 0
      /\ NoBar.day = 0
  BY DEF NoWindow, NoBar
<1>6. TypeInv
  BY <1>1, <1>2, <1>3, <1>5, NothingIs DEF TypeInv, Orders
<1>7. KeepsTheDay /\ KeepsTheRange /\ KeepsTheOpen
  <2>1. OpenTraders \cap RangeKinds = {}
    BY DEF OpenTraders, RangeKinds
  <2>. QED
    BY <1>1, <1>4, <1>5, <2>1 DEF KeepsTheDay, KeepsTheRange, KeepsTheOpen
<1>8. KeepsToItsKind /\ FadesTheLast
  BY <1>4 DEF KeepsToItsKind, FadesTheLast
<1>9. FollowsTheFirst
  BY <1>1, <1>4 DEF FollowsTheFirst, RangeKinds
<1>10. NothingPendingWhileBusy /\ OrderIsTradable
  BY <1>1 DEF NothingPendingWhileBusy, OrderIsTradable
<1>. QED
  BY <1>6, <1>7, <1>8, <1>9, <1>10 DEF SignalInv

\* A bar is shown to the strategy, or it is not.
LEMMA NextBarKeeps ==
    ASSUME SignalInv, NextBar
    PROVE  SignalInv' /\ Steps
<1>1. PICK time \in (bar.time + 1)..(bar.time + MaxGap) :
         /\ time <= MaxTime
         /\ \E b \in BarsAt(time, opts.entry) :
               /\ bar' = b
               /\ window' = WindowAfter(b)
               /\ IF Shown(b) /\ (~busy \/ b.day # bar.day) THEN Show(b) ELSE Pass(b)
  BY DEF NextBar
<1>2. PICK b \in BarsAt(time, opts.entry) :
               /\ bar' = b
               /\ window' = WindowAfter(b)
               /\ IF Shown(b) /\ (~busy \/ b.day # bar.day) THEN Show(b) ELSE Pass(b)
  BY <1>1
<1>3. bar = NoBar \/ IsBar(bar)
  BY DEF SignalInv, TypeInv
<1>4. time \in Nat /\ time > bar.time
  <2>1. bar.time \in Nat \/ bar.time = -1
    BY <1>3 DEF IsBar, NoBar, NoTime
  <2>2. MaxGap \in Nat
    BY SignalsAssumption
  <2>. QED
    BY <1>1, <2>1, <2>2
<1>5. Follows(bar, b)
  <2>1. IsBar(b) /\ b.time = time
    BY <1>4, BarsAreBars
  <2>. QED
    BY <1>3, <1>4, <2>1, NextFollows
<1>6. opts' = opts
  BY DEF NextBar
<1>7. CASE Shown(b) /\ (~busy \/ b.day # bar.day)
  <2>1. ShowStep(b)
    BY <1>2, <1>6, <1>7 DEF ShowStep
  <2>2. \/ opts.entry \in RangeKinds
        \/ opts.entry = "vwap"
        \/ opts.entry \in SignalKinds \ {"vwap"}
    BY OptionsAre DEF SignalInv, TypeInv
  <2>. QED
    BY <1>5, <2>1, <2>2, RangeShown, PullShown, SignalShown
<1>8. CASE ~(Shown(b) /\ (~busy \/ b.day # bar.day))
  <2>1. busy \in BOOLEAN
    BY DEF SignalInv, TypeInv
  <2>2. PassStep(b)
    BY <1>2, <1>6, <1>8, <2>1 DEF PassStep
  <2>3. SignalInv'
    BY <1>5, <2>2, PassKeeps
  <2>4. order' = NoOrder /\ strategy' = strategy /\ bar' = b
    BY <1>2, <1>8 DEF Pass
  <2>5. FadeStep /\ PullStep
    BY <2>4 DEF FadeStep, PullStep
  <2>6. LimitStep
    <3>1. SUFFICES ASSUME strategy.limit # NoLimit, Shown(b)
                   PROVE  FALSE
      BY <2>4 DEF LimitStep
    <3>2. ~busy
      BY <3>1 DEF SignalInv, NothingPendingWhileBusy
    <3>. QED
      BY <1>8, <3>1, <3>2
  <2>. QED
    BY <2>3, <2>5, <2>6 DEF Steps
<1>. QED
  BY <1>7, <1>8

\* A step that leaves all as it is keeps what is known.
LEMMA NextSignalInv ==
    ASSUME SignalInv, [Next]_vars
    PROVE  SignalInv' /\ (Steps \/ UNCHANGED vars)
<1>1. CASE UNCHANGED vars
  BY <1>1 DEF vars, SignalInv, TypeInv, KeepsTheDay, KeepsTheRange, KeepsTheOpen,
              KeepsToItsKind, FadesTheLast, FollowsTheFirst,
              NothingPendingWhileBusy, OrderIsTradable
<1>. QED
  BY <1>1, NextBarKeeps DEF Next, Done

\* What is known is always so.
LEMMA AlwaysSignalInv == Spec => []SignalInv
<1>1. SignalInv /\ [Next]_vars => SignalInv'
  BY NextSignalInv
<1>. QED
  BY <1>1, InitSignalInv, PTL DEF Spec

-----------------------------------------------------------------------------
\* Orders, bars and every field of every strategy have their types.
THEOREM TypeCorrect == Spec => []TypeInv
<1>1. SignalInv => TypeInv
  BY DEF SignalInv
<1>. QED
  BY <1>1, AlwaysSignalInv, PTL

\* The range a strategy trades is that of this day's window, and the open it
\* compares with the session's first, whatever bars were missing, however often
\* the slot was busy, and wherever the range begins and ends.
THEOREM StrategiesKnowTheDay == Spec => []DayIsTheMarkets
<1>1. SignalInv => DayIsTheMarkets
  <2>. SUFFICES ASSUME SignalInv PROVE DayIsTheMarkets
    OBVIOUS
  <2>1. strategy.day = bar.day /\ strategy.complete =>
            strategy.high = window.high /\ strategy.low = window.low
    BY DEF SignalInv, KeepsToItsKind, KeepsTheRange
  <2>2. strategy.day = bar.day /\ opts.entry \in {"daytrend", "late"} /\ strategy.open > 0 =>
            strategy.open = window.open
    BY DEF SignalInv, KeepsTheOpen, OpenTraders
  <2>. QED
    BY <2>1, <2>2 DEF DayIsTheMarkets
<1>. QED
  BY <1>1, AlwaysSignalInv, PTL

\* Every order is for a price at which its bar has traded: its close, or where
\* a limit order is filled, the limit or the better open.
THEOREM OrdersAreTradable == Spec => []OrderIsTradable
<1>1. SignalInv => OrderIsTradable
  BY DEF SignalInv
<1>. QED
  BY <1>1, AlwaysSignalInv, PTL

\* A strategy of a busy slot, which is shown no bars, waits for none.
THEOREM BusySlotsWaitForNothing == Spec => []NothingPendingWhileBusy
<1>1. SignalInv => NothingPendingWhileBusy
  BY DEF SignalInv
<1>. QED
  BY <1>1, AlwaysSignalInv, PTL

\* Steps with an action property.
LEMMA AlwaysSteps == Spec => [][Steps]_vars
<1>1. SignalInv /\ [Next]_vars => [Steps]_vars
  BY NextSignalInv
<1>. QED
  BY <1>1, AlwaysSignalInv, PTL DEF Spec

\* A limit order is filled by the first bar shown that reaches it in its time,
\* and by no other; nothing but its time, its day or a missing stop ends it.
THEOREM LimitsAreKept == Spec => LimitIsHonest
<1>1. [Steps]_vars => [LimitStep]_vars
  BY DEF Steps
<1>2. [][LimitStep]_vars => LimitIsHonest
  BY PTL DEF LimitIsHonest, LimitStep
<1>. QED
  BY <1>1, <1>2, AlwaysSteps, PTL

\* A fade trades against a breakout of this day, not older than its window and
\* not traded yet, however many breakouts came before.
THEOREM FadesAreFresh == Spec => FadesAFreshBreakout
<1>1. [Steps]_vars => [FadeStep]_vars
  BY DEF Steps
<1>2. [][FadeStep]_vars => FadesAFreshBreakout
  BY PTL DEF FadesAFreshBreakout, FadeStep
<1>. QED
  BY <1>1, <1>2, AlwaysSteps, PTL

\* A pullback is traded in the direction of the day's first breakout alone.
THEOREM PullbacksContinue == Spec => ContinuesTheFirstBreakout
<1>1. [Steps]_vars => [PullStep]_vars
  BY DEF Steps
<1>2. [][PullStep]_vars => ContinuesTheFirstBreakout
  BY PTL DEF ContinuesTheFirstBreakout, PullStep
<1>. QED
  BY <1>1, <1>2, AlwaysSteps, PTL
=============================================================================

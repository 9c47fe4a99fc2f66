--------------------------- MODULE RangeStrategies ---------------------------
(***************************************************************************)
(* The strategies that trade the range of a part of the day                *)
(* (src/internal/strategy): opening_range.go, opening_range_continuation.go*)
(* opening_range_fade.go and afternoon_range_fade.go.  All watch the range *)
(* form from opts.start to RangeEnd and differ in what they do afterwards  *)
(*   close   enter on the close of the bar that breaks out                 *)
(*   retest  leave a limit order at the range's edge for the way back      *)
(*   fade    enter against a breakout that comes back into the range       *)
(* A strategy is a value here, and OnCandle returns the new one and its    *)
(* order.  Whether calcStopTP finds a stop, with the history up to a bar   *)
(* (stop) or up to the one before (stopBefore), is said by the bar; where  *)
(* stop and target are is left out.                                        *)
(* The guard against a repeated bar is left out: bars come in order        *)
(* (BarsInOrder of BarFeed), so it has nothing to do.                      *)
(***************************************************************************)
EXTENDS Integers

CONSTANTS
    RangeEnd,       \* ORBMinutes, RangeEndMinutes
    Threshold,      \* BreakoutThreshold, in percent
    FadeWindow,     \* FadeWindowMinutes
    TradeEnd,       \* FadeTradeEndMinutes; 0 for none
    Hour            \* a limit order lives to the end of its hour

ASSUME RangeStrategiesAssumption ==
    /\ RangeEnd \in Nat \ {0} /\ Threshold \in 0..99
    /\ FadeWindow \in Nat \ {0} /\ TradeEnd \in Nat /\ Hour \in Nat \ {0}

NoTime == -1
NoOrder == [direction |-> "none", price |-> 0]
NoLimit == [direction |-> "none", price |-> 0, expires |-> NoTime]
NoWatch == [side |-> "none", since |-> NoTime]

\* Before the first bar; 0 is no price.
NewStrategy ==
    [day |-> 0, high |-> 0, low |-> 0, complete |-> FALSE, inRange |-> FALSE,
     limit |-> NoLimit, watch |-> NoWatch]

Answer(s, order) == [strategy |-> s, order |-> order]

Higher(x, y) == IF x > y THEN x ELSE y
Lower(x, y) == IF x < y THEN x ELSE y

OrderAt(direction, price) == [direction |-> direction, price |-> price]

-----------------------------------------------------------------------------
(* The range                                                               *)

\* Seeded fault: yesterday's range is widened.
Today_KeepsRange(s, bar) ==
    IF bar.day = s.day THEN s
    ELSE [s EXCEPT !.day = bar.day, !.complete = FALSE, !.inRange = FALSE,
                   !.limit = NoLimit, !.watch = NoWatch]

\* resetDay, on the first bar of a day.
Today(s, bar) ==
    IF bar.day = s.day THEN s
    ELSE [NewStrategy EXCEPT !.day = bar.day]

InWindow(opts, bar) == opts.start <= bar.minute /\ bar.minute < RangeEnd

\* updateORB, updateRange
Widen(s, bar) ==
    IF s.high = 0 /\ s.low = 0
    THEN [s EXCEPT !.inRange = TRUE, !.high = bar.high, !.low = bar.low]
    ELSE [s EXCEPT !.inRange = TRUE, !.high = Higher(@, bar.high), !.low = Lower(@, bar.low)]

Completed(s, bar) ==
    IF ~s.complete /\ s.inRange /\ bar.minute >= RangeEnd
    THEN [s EXCEPT !.complete = TRUE, !.inRange = FALSE]
    ELSE s

Above(price, level) == 100 * price > level * (100 + Threshold)
Below(price, level) == 100 * price < level * (100 - Threshold)

\* The side of the range on which the bar has closed.
Breakout(s, bar) ==
    IF Above(bar.close, s.high) THEN "up"
    ELSE IF Below(bar.close, s.low) THEN "down"
    ELSE "none"

-----------------------------------------------------------------------------
(* Entry on the close                                                      *)

EnterAtClose(s, bar) ==
    LET side == Breakout(s, bar) IN
    IF side = "none" \/ ~bar.stop THEN Answer(s, NoOrder)
    ELSE Answer(s, OrderAt(IF side = "up" THEN "BUY" ELSE "SELL", bar.close))

-----------------------------------------------------------------------------
(* Entry on the retest                                                     *)

HourEnd(time) == (time \div Hour + 1) * Hour

PlaceLimit(s, bar) ==
    LET side == Breakout(s, bar) IN
    IF side = "none" \/ ~bar.stop THEN Answer(s, NoOrder)
    ELSE Answer([s EXCEPT !.limit =
                    [direction |-> IF side = "up" THEN "BUY" ELSE "SELL",
                     price     |-> IF side = "up" THEN s.high ELSE s.low,
                     expires   |-> HourEnd(bar.time)]],
                NoOrder)

\* The limit still stands when the bar begins.
Stands(limit, bar) == limit # NoLimit /\ bar.time < limit.expires

\* Seeded fault: the order is cancelled when the bar closes back in the range.
Reached_UnlessBackInside(limit, bar) ==
    IF limit.direction = "BUY" THEN bar.low <= limit.price /\ bar.close > limit.price
                               ELSE bar.high >= limit.price /\ bar.close < limit.price

Reached(limit, bar) ==
    IF limit.direction = "BUY" THEN bar.low <= limit.price ELSE bar.high >= limit.price

\* Seeded fault: the order is filled at its own price.
FillPrice_AtLimit(limit, bar) == limit.price

\* A bar that opens beyond the limit fills it at the open.
FillPrice(limit, bar) ==
    IF limit.direction = "BUY" THEN Lower(bar.open, limit.price)
                               ELSE Higher(bar.open, limit.price)

\* Seeded fault: the order is still there after it was filled.
FillLimit_Kept(s, bar) ==
    Answer(s, OrderAt(s.limit.direction, FillPrice(s.limit, bar)))

FillLimit(s, bar) ==
    Answer([s EXCEPT !.limit = NoLimit],
           OrderAt(s.limit.direction, FillPrice(s.limit, bar)))

-----------------------------------------------------------------------------
(* Entry against a breakout that failed                                    *)

Expired(watch, bar) == bar.time >= watch.since + FadeWindow

\* Seeded fault: a watch never expires.
LiveWatch_ForEver(s, bar) == s

LiveWatch(s, bar) ==
    IF s.watch # NoWatch /\ Expired(s.watch, bar) THEN [s EXCEPT !.watch = NoWatch] ELSE s

Failed(opts, s, bar) ==
    IF opts.inside THEN s.low <= bar.close /\ bar.close <= s.high
    ELSE IF s.watch.side = "up" THEN bar.close < s.high
    ELSE bar.close > s.low

\* Every bar that closes outside begins a new watch.
Rewatch(s, bar) ==
    IF Breakout(s, bar) = "none" THEN s
    ELSE [s EXCEPT !.watch = [side |-> Breakout(s, bar), since |-> bar.time]]

TryFade(opts, s, bar) ==
    LET w == LiveWatch(s, bar) IN
    IF w.watch = NoWatch \/ ~Failed(opts, w, bar) THEN Answer(Rewatch(w, bar), NoOrder)
    ELSE IF ~bar.stop
    THEN Answer(Rewatch([w EXCEPT !.watch = NoWatch], bar), NoOrder)
    ELSE Answer([w EXCEPT !.watch = NoWatch],
                OrderAt(IF w.watch.side = "up" THEN "SELL" ELSE "BUY", bar.close))

Fade(opts, s, bar) ==
    IF TradeEnd > 0 /\ bar.minute > TradeEnd
    THEN Answer([s EXCEPT !.watch = NoWatch], NoOrder)
    ELSE TryFade(opts, s, bar)

-----------------------------------------------------------------------------
Decide(opts, s, bar) ==
    IF ~s.complete \/ s.high <= s.low THEN Answer(s, NoOrder)
    ELSE CASE opts.entry = "close"  -> EnterAtClose(s, bar)
           [] opts.entry = "retest" -> PlaceLimit(s, bar)
           [] opts.entry = "fade"   -> Fade(opts, s, bar)

\* No limit order stands: build the range or decide.
AfterLimit(opts, s, bar) ==
    IF ~s.complete /\ InWindow(opts, bar)
    THEN Answer(Widen(s, bar), NoOrder)
    ELSE Decide(opts, Completed(s, bar), bar)

\* The session is open.
InSession(opts, s, bar) ==
    IF Stands(s.limit, bar) /\ ~Reached(s.limit, bar) THEN Answer(s, NoOrder)
    ELSE IF Stands(s.limit, bar) /\ bar.stopBefore THEN FillLimit(s, bar)
    ELSE AfterLimit(opts, [s EXCEPT !.limit = NoLimit], bar)

OnCandle(opts, s, bar) ==
    IF bar.minute < 0 THEN Answer(Today(s, bar), NoOrder)
    ELSE InSession(opts, Today(s, bar), bar)
=============================================================================

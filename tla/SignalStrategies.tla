--------------------------- MODULE SignalStrategies ---------------------------
(***************************************************************************)
(* The other signal strategies (src/internal/strategy):                    *)
(*   momentum    momentum.go                                               *)
(*   filtered    momentum_filtered.go                                      *)
(*   daytrend    momentum_sber_daytrend.go                                 *)
(*   reversion   mean_reversion.go                                         *)
(*   random      random_entry.go                                           *)
(*   vwap        vwap_pullback_continuation.go                             *)
(*   prevday     prev_day_level_breakout.go                                *)
(*   midday      midday_compression_breakout.go                            *)
(*   late        late_session_imbalance.go                                 *)
(*   gap         session_gap_drive.go                                      *)
(* What depends on volumes or true ranges is said by the bar, chosen       *)
(* freely: stop, that the volume filter passes and a stop is found; vwap,  *)
(* the level of the day's VWAP, 0 without volume; quiet, that its true     *)
(* range is low among the day's; coin, what a random strategy makes of it. *)
(* A ticker outside a strategy's whitelist is never traded and left out,   *)
(* and so are levels that a strategy keeps and never reads.                *)
(***************************************************************************)
EXTENDS RangeStrategies, Sequences

LOCAL INSTANCE FiniteSetsExt

CONSTANTS
    Lookback,           \* bars a strategy looks back, ATRBars included
    TrendBars,          \* TrendSMAPeriod; 0 for no filter
    EntryFrom,          \* first minute of entries, where a strategy has one
    EntryUntil,         \* the last
    CompressionStart, CompressionEnd,
    MinRanges,          \* true ranges of the day that midday asks for
    ReadyBars,          \* MinMinutesAboveVWAP / 5
    LimitBars           \* LimitExpiryBars

ASSUME SignalStrategiesAssumption ==
    /\ Lookback \in Nat \ {0, 1} /\ TrendBars \in Nat
    /\ EntryFrom \in Nat /\ EntryUntil \in Nat
    /\ CompressionStart \in Nat /\ CompressionEnd \in Nat /\ MinRanges \in Nat
    /\ ReadyBars \in Nat \ {0} /\ LimitBars \in Nat \ {0}

\* Every field that one of the strategies keeps; 0 is no price.
NewSignals ==
    [day |-> 0, limit |-> NoLimit, watch |-> NoWatch, left |-> 0,
     high |-> 0, low |-> 0, complete |-> FALSE, inRange |-> FALSE,
     history |-> <<>>, closes |-> <<>>, seen |-> 0, bars |-> 0, entered |-> FALSE, compressed |-> FALSE,
     open |-> 0, lastClose |-> 0, prevClose |-> 0, prevHigh |-> 0, prevLow |-> 0,
     side |-> "none", above |-> 0, below |-> 0, ready |-> {}]

-----------------------------------------------------------------------------
(* The candle buffer and what is read from it                              *)

\* push: the buffer keeps of the bars what is looked back on, seen counts on.
Remember(s, bar) ==
    LET longer == Append(s.history, [high |-> bar.high, low |-> bar.low]) IN
    [s EXCEPT !.history = IF Len(longer) > Lookback THEN Tail(longer) ELSE longer,
              !.seen = Lower(@ + 1, Lookback + 1)]

RememberClose(s, bar) ==
    LET longer == Append(s.closes, bar.close) IN
    [s EXCEPT !.closes = IF Len(longer) > Lookback THEN Tail(longer) ELSE longer]

LastBars(history, n) == {i \in DOMAIN history : i > Len(history) - n}

\* rangeLevels: high and low of the last bars, the newest left out.
Levels(history) ==
    LET past == LastBars(history, Lookback) \ {Len(history)} IN
    [high |-> Max({history[i].high : i \in past}), low |-> Min({history[i].low : i \in past})]

\* n times calcSMA over the last n bars.
SumOfCloses(closes, n) == MapThenSumSet(LAMBDA i : closes[i], LastBars(closes, n))

\* The side on which the bar has left the levels.
SideOf(bar, levels) ==
    IF Above(bar.close, levels.high) THEN "BUY"
    ELSE IF Below(bar.close, levels.low) THEN "SELL"
    ELSE "none"

\* calcStopTP and buildOrder: an entry on the close.
Enter(s, side, bar) ==
    Answer(s, IF side # "none" /\ bar.stop THEN OrderAt(side, bar.close) ELSE NoOrder)

\* The same, and not again that day.
EnterOnce(s, side, bar) ==
    LET answer == Enter(s, side, bar) IN
    Answer([s EXCEPT !.entered = answer.order # NoOrder], answer.order)

-----------------------------------------------------------------------------
(* Momentum and reversion                                                  *)

LongOnly(opts, side) == IF opts.longOnly /\ side = "SELL" THEN "none" ELSE side

Momentum(s, bar) ==
    LET t == Remember(s, bar) IN
    IF Len(t.history) < Lookback THEN Answer(t, NoOrder)
    ELSE Enter(t, SideOf(bar, Levels(t.history)), bar)

\* The trend filter; without enough bars for its average nothing passes.
WithTrend(side, bar, closes) ==
    IF TrendBars = 0 THEN side
    ELSE IF Len(closes) < TrendBars THEN "none"
    ELSE IF \/ side = "BUY" /\ TrendBars * bar.close <= SumOfCloses(closes, TrendBars)
            \/ side = "SELL" /\ TrendBars * bar.close >= SumOfCloses(closes, TrendBars)
    THEN "none"
    ELSE side

\* Before the entry delay is over; without one, no bar is.
TooEarly(bar) == EntryFrom > 0 /\ bar.minute < EntryFrom

MomentumFiltered(opts, s, bar) ==
    LET t == RememberClose(Remember(s, bar), bar) IN
    IF Len(t.history) < Lookback \/ TooEarly(bar) THEN Answer(t, NoOrder)
    ELSE Enter(t, WithTrend(LongOnly(opts, SideOf(bar, Levels(t.history))), bar, t.closes), bar)

MeanReversion(s, bar) ==
    LET t == RememberClose(s, bar)
        average == SumOfCloses(t.closes, Lookback)
    IN IF Len(t.closes) < Lookback THEN Answer(t, NoOrder)
       ELSE Enter(t, IF Above(Lookback * bar.close, average) THEN "SELL"
                     ELSE IF Below(Lookback * bar.close, average) THEN "BUY"
                     ELSE "none", bar)

\* resetDay of the day trend.
TrendToday(s, bar) ==
    IF bar.day = s.day THEN s
    ELSE [s EXCEPT !.day = bar.day, !.open = 0, !.side = "none",
                   !.prevClose = IF s.lastClose > 0 THEN s.lastClose ELSE @]

\* dayTrend: the first bar of the session against the close seen last.
WithDayTrend(s, bar) ==
    IF bar.minute < 0 \/ s.open > 0 THEN s
    ELSE [s EXCEPT !.open = bar.open,
                   !.side = IF s.prevClose = 0 THEN "none"
                            ELSE IF bar.open > s.prevClose THEN "BUY"
                            ELSE IF bar.open < s.prevClose THEN "SELL"
                            ELSE "none"]

MomentumSberDaytrend(opts, s, bar) ==
    LET t == [Remember(WithDayTrend(TrendToday(s, bar), bar), bar)
                 EXCEPT !.lastClose = bar.close]
        side == LongOnly(opts, SideOf(bar, Levels(t.history)))
    IN IF Len(t.history) < Lookback \/ bar.minute < EntryFrom \/ side # t.side
       THEN Answer(t, NoOrder)
       ELSE Enter(t, side, bar)

-----------------------------------------------------------------------------
(* Random entries, on the close or by a limit order behind the price       *)

\* tryFillPending: the order lives for LimitBars bars shown, within its day.
RandomFill(s, bar) ==
    IF bar.day # s.day \/ s.left = 0
    THEN Answer([s EXCEPT !.limit = NoLimit, !.left = 0], NoOrder)
    ELSE IF ~Reached(s.limit, bar) THEN Answer([s EXCEPT !.left = @ - 1], NoOrder)
    ELSE IF bar.stopBefore THEN FillLimit([s EXCEPT !.left = 0], bar)
    ELSE Answer([s EXCEPT !.limit = NoLimit, !.left = 0], NoOrder)

RandomEntry(opts, s, bar) ==
    LET t == [s EXCEPT !.seen = Lower(@ + 1, Lookback)] IN
    IF s.limit # NoLimit THEN RandomFill(t, bar)
    ELSE IF t.seen < Lookback \/ TooEarly(bar) \/ bar.coin = NoOrder
    THEN Answer(t, NoOrder)
    ELSE IF opts.limit
    THEN Answer([t EXCEPT !.day = bar.day, !.left = LimitBars,
                          !.limit = [direction |-> bar.coin.direction,
                                     price |-> bar.coin.price, expires |-> NoTime]],
                NoOrder)
    ELSE Enter(t, bar.coin.direction, bar)

-----------------------------------------------------------------------------
(* Pullback to the VWAP after a breakout of the opening range              *)

SignalsToday(s, bar) == IF bar.day = s.day THEN s ELSE [NewSignals EXCEPT !.day = bar.day]

\* trackVWAPSide; the counters stop where they are compared.
TrackSide(s, bar) ==
    LET above == IF bar.close > bar.vwap THEN Lower(s.above + 1, ReadyBars) ELSE 0
        below == IF bar.close < bar.vwap THEN Lower(s.below + 1, ReadyBars) ELSE 0
    IN [s EXCEPT !.above = above, !.below = below,
                 !.ready = @ \cup (IF above = ReadyBars THEN {"BUY"} ELSE {})
                             \cup (IF below = ReadyBars THEN {"SELL"} ELSE {})]

\* detectORBreakout: the first close outside the range decides for the day.
DetectBreakout(s, bar) ==
    [s EXCEPT !.side = CASE Breakout(s, bar) = "up" -> "BUY"
                         [] Breakout(s, bar) = "down" -> "SELL"
                         [] OTHER -> "none"]

PulledBack(s, bar) ==
    /\ s.side \in s.ready
    /\ bar.low <= bar.vwap /\ bar.vwap <= bar.high
    /\ IF s.side = "BUY" THEN bar.close > bar.vwap ELSE bar.close < bar.vwap

\* Seeded fault: the direction of the day follows every breakout.
TryContinue_Rebreak(s, bar) ==
    LET t == IF Breakout(s, bar) = "none" THEN s ELSE DetectBreakout(s, bar) IN
    IF s.side = "none" \/ bar.minute < EntryFrom \/ ~PulledBack(t, bar) \/ ~bar.stop
    THEN Answer(t, NoOrder)
    ELSE Enter([t EXCEPT !.ready = {}, !.above = 0, !.below = 0], t.side, bar)

TryContinue(s, bar) ==
    IF s.side = "none" THEN Answer(DetectBreakout(s, bar), NoOrder)
    ELSE IF bar.minute < EntryFrom \/ ~PulledBack(s, bar) \/ ~bar.stop
    THEN Answer(s, NoOrder)
    ELSE Enter([s EXCEPT !.ready = {}, !.above = 0, !.below = 0], s.side, bar)

VWAPPullback(s, bar) ==
    LET today == SignalsToday(s, bar)
        t == Completed(today, bar)
    IN IF bar.minute < 0 THEN Answer(today, NoOrder)
       ELSE IF ~today.complete /\ bar.minute < RangeEnd THEN Answer(Widen(today, bar), NoOrder)
       ELSE IF ~t.complete \/ t.high <= t.low \/ bar.vwap = 0 THEN Answer(t, NoOrder)
       ELSE TryContinue(TrackSide(t, bar), bar)

-----------------------------------------------------------------------------
(* Breakout of the previous day's levels                                   *)

\* resetDay: a day without a bar of the session leaves the levels before it.
LevelsToday(s, bar) ==
    IF bar.day = s.day THEN s
    ELSE [s EXCEPT !.day = bar.day, !.high = 0, !.low = 0,
                   !.prevHigh = IF s.high > 0 THEN s.high ELSE @,
                   !.prevLow = IF s.low > 0 THEN s.low ELSE @]

\* inRange, which Widen sets, belongs to the opening range.
DayRange(s, bar) == [Widen(s, bar) EXCEPT !.inRange = FALSE]

PrevDayLevelBreakout(s, bar) ==
    LET today == LevelsToday(s, bar)
        t == DayRange(today, bar)
    IN IF bar.minute < 0 THEN Answer(today, NoOrder)
       ELSE IF t.prevHigh <= t.prevLow \/ bar.minute < EntryFrom \/ bar.minute > EntryUntil
       THEN Answer(t, NoOrder)
       ELSE Enter(t, SideOf(bar, [high |-> t.prevHigh, low |-> t.prevLow]), bar)

-----------------------------------------------------------------------------
(* Breakout of a quiet noon                                                *)

MiddayToday(s, bar) ==
    IF bar.day = s.day THEN s
    ELSE [s EXCEPT !.day = bar.day, !.bars = 0, !.compressed = FALSE, !.entered = FALSE]

\* The true range of the bar joins the day's, once there are bars enough for it.
CountRange(s) ==
    IF s.seen <= Lookback THEN s ELSE [s EXCEPT !.bars = Lower(@ + 1, MinRanges)]

\* tryMarkCompression, percentile
MarkCompression(s, bar) ==
    IF /\ CompressionStart <= bar.minute /\ bar.minute <= CompressionEnd
       /\ s.bars = MinRanges /\ bar.quiet
    THEN [s EXCEPT !.compressed = TRUE]
    ELSE s

MiddayCompression(s, bar) ==
    LET seen == Remember(MiddayToday(s, bar), bar)
        t == MarkCompression(CountRange(seen), bar)
    IN IF bar.minute < 0 THEN Answer(seen, NoOrder)
       ELSE IF \/ ~t.compressed \/ t.entered
               \/ bar.minute < CompressionEnd \/ bar.minute > EntryUntil
               \/ t.seen <= Lookback
       THEN Answer(t, NoOrder)
       ELSE EnterOnce(t, SideOf(bar, Levels(t.history)), bar)

-----------------------------------------------------------------------------
(* Late imbalance and opening gap                                          *)

LateToday(s, bar) ==
    IF bar.day = s.day THEN s
    ELSE [s EXCEPT !.day = bar.day, !.open = 0, !.bars = 0, !.entered = FALSE]

\* The volume against the average of the day's other bars is part of stop.
LateSessionImbalance(s, bar) ==
    LET today == LateToday(s, bar)
        t == [today EXCEPT !.open = IF @ = 0 THEN bar.open ELSE @, !.bars = Lower(@ + 1, 2)]
    IN IF bar.minute < 0 THEN Answer(today, NoOrder)
       ELSE IF t.entered \/ bar.minute < EntryFrom \/ bar.minute > EntryUntil \/ t.bars < 2
       THEN Answer(t, NoOrder)
       ELSE EnterOnce(t, IF bar.close > t.open THEN "BUY"
                         ELSE IF bar.close < t.open THEN "SELL"
                         ELSE "none", bar)

\* The previous day's close is that of the last bar shown on it.
GapToday(s, bar) ==
    [s EXCEPT !.day = bar.day, !.lastClose = bar.close,
              !.entered = bar.day = s.day /\ @,
              !.prevClose = IF bar.day # s.day /\ s.lastClose > 0 THEN s.lastClose ELSE @]

SessionGapDrive(opts, s, bar) ==
    LET t == GapToday(s, bar)
        gap == 100 * (bar.close - t.prevClose)
    IN IF bar.minute < 0 \/ t.entered \/ t.prevClose = 0 \/ bar.minute > EntryUntil
       THEN Answer(t, NoOrder)
       ELSE EnterOnce(t, IF gap >= Threshold * t.prevClose THEN "BUY"
                         ELSE IF gap <= -Threshold * t.prevClose THEN LongOnly(opts, "SELL")
                         ELSE "none", bar)

-----------------------------------------------------------------------------
\* One strategy per slot, by the type in its configuration.
OnSignalCandle(opts, s, bar) ==
    CASE opts.entry = "momentum"  -> Momentum(s, bar)
      [] opts.entry = "filtered"  -> MomentumFiltered(opts, s, bar)
      [] opts.entry = "daytrend"  -> MomentumSberDaytrend(opts, s, bar)
      [] opts.entry = "reversion" -> MeanReversion(s, bar)
      [] opts.entry = "random"    -> RandomEntry(opts, s, bar)
      [] opts.entry = "vwap"      -> VWAPPullback(s, bar)
      [] opts.entry = "prevday"   -> PrevDayLevelBreakout(s, bar)
      [] opts.entry = "midday"    -> MiddayCompression(s, bar)
      [] opts.entry = "late"      -> LateSessionImbalance(s, bar)
      [] opts.entry = "gap"       -> SessionGapDrive(opts, s, bar)
=============================================================================

----------------------------- MODULE BarTrading -----------------------------
(***************************************************************************)
(* One slot trades one ticker twice: live, as SelfManagedStrategy does     *)
(* (src/internal/strategy/selfmanaged/selfmanaged.go) from ticks and       *)
(* closed bars, and in the backtest, as Runner does                        *)
(* (src/internal/backtest/runner.go) from the bars alone.  Both see the    *)
(* same market and the same signals; what they do with a position must be  *)
(* the same (selfmanaged/replay_history_test.go).  Orders do not fail here *)
(* and cost nothing: Trading models that.                                  *)
(*                                                                         *)
(* Time is counted in bars: a day has the bars 0..BarsPerDay-1, then EOD.  *)
(* The market moves inside a bar along IntrabarPath, one price unit at a   *)
(* time.  A closed bar waits in queue until the live strategy gets to it;  *)
(* MaxLag bars may wait while the market moves on.                         *)
(***************************************************************************)
EXTENDS TradeAudit, Sequences

CONSTANTS
    MaxPrice,       \* bound: prices are 1..MaxPrice
    BarsPerDay,
    LastInstant,    \* bound: the clock stops there
    MaxLag,         \* bound: closed bars that may wait
    MaxTrades,      \* bound: trades of either side
    StopDistances,  \* distances of the initial stop from the signal's price
    TakeDistances,  \* distances of the target; 0 switches it off
    StaleAgeBars    \* staleAgeBars of candle_fresh.go

ASSUME BarTradingAssumption ==
    /\ BarsPerDay \in Nat \ {0} /\ MaxPrice \in Nat \ {0}
    /\ StopDistances \subseteq Nat \ {0} /\ TakeDistances \subseteq Nat

VARIABLES
    clock,      \* bars since the start
    price,      \* the market's last price, 0 before the first
    forming,    \* the bar being formed, or NoBar
    path,       \* the prices it has still to visit
    queue,      \* closed bars the strategies have not handled
    live, bt,   \* [pos, trades] of the live strategy and of the backtest
    lastPrice,  \* live: s.lastPrice
    lastClose,  \* backtest: r.lastClose, 0 before the first bar
    bestSince,  \* history: best market price since live opened its position
    parted      \* history: entries whose exit live and backtest had to decide
                \* at different prices

vars == <<clock, price, forming, path, queue, live, bt, lastPrice, lastClose, bestSince, parted>>

Prices == 1..MaxPrice

NoBar == [time |-> -1, open |-> 0, high |-> 0, low |-> 0, close |-> 0]
NoPosition == [direction |-> "none", entryBar |-> -1]
NoSignal == [direction |-> "none"]

HasPos(side) == side.pos # NoPosition

-----------------------------------------------------------------------------
(* The session: EOD is the instant after the day's last bar.               *)

Day(instant) == instant \div (BarsPerDay + 1)
ShouldForceClose(instant) == instant % (BarsPerDay + 1) = BarsPerDay
EntriesAllowed(instant) == ~ShouldForceClose(instant)

-----------------------------------------------------------------------------
(* The market                                                              *)

Steps(x, y) ==
    IF x <= y THEN [i \in 1..(y - x) |-> x + i] ELSE [i \in 1..(x - y) |-> x - i]

\* Every price from the open through both extremes to the close.
TicksOf(bar, direction) ==
    LET p == IntrabarPath(bar, direction) IN
    <<p[1]>> \o Steps(p[1], p[2]) \o Steps(p[2], p[3]) \o Steps(p[3], p[4])

BarsFrom(open) ==
    {[time |-> clock, open |-> open, high |-> h, low |-> l, close |-> c] :
        h \in open..MaxPrice, l \in 1..open, c \in Prices}

\* A signal is priced at the bar's close or at a level the bar has crossed; a
\* limit that was filled inside the bar says so, also when it is at the close.
SignalAt(bar, d, p, stop, take, intrabarFill) ==
    [direction |-> d, price |-> p, atClose |-> ~intrabarFill /\ p = bar.close,
     stop |-> Toward(d, p, -stop), take |-> IF take = 0 THEN 0 ELSE Toward(d, p, take)]

Signals(bar) ==
    {NoSignal} \cup
    {signal \in {SignalAt(bar, d, p, stop, take, intrabarFill) :
                    d \in {"BUY", "SELL"}, p \in bar.low..bar.high,
                    stop \in StopDistances, take \in TakeDistances, intrabarFill \in BOOLEAN} :
        signal.stop > 0 /\ signal.take >= 0}

-----------------------------------------------------------------------------
(* What a side does to its position                                        *)

\* A trade is stored with what became of its stop and with its marks.
ClosedTrade(side, reason, exit, sameBar) ==
    [pos |-> NoPosition,
     trades |-> Append(side.trades,
                       [entryBar |-> side.pos.entryBar, entryClose |-> side.pos.entryClose,
                        direction |-> side.pos.direction, r |-> side.pos.r,
                        reason |-> reason, price |-> exit,
                        stop |-> side.pos.stop, stage |-> side.pos.stage,
                        audit |-> AnnotateTrade(side.pos, reason, exit, sameBar)])]

Closed(side, reason, exit) == ClosedTrade(side, reason, exit, FALSE)

\* The close of the entry bar is kept as what the audit will say of it.
Opened(side, bar, signal) ==
    LET pos == NewFromSignal(signal, bar) IN
    [side EXCEPT !.pos = [pos EXCEPT !.openCodes = ValidateOpen(pos, bar.close)]]

\* The stop may have been hit inside the bar in which the limit was filled.
EnterOn(side, bar, signal) ==
    LET opened == Opened(side, bar, signal)
        reason == SameBarExitAfterFill(opened.pos, bar)
    IN IF reason = "" THEN opened
       ELSE ClosedTrade(opened, reason, ExitFillPrice(opened.pos, reason, bar.close), TRUE)

\* Live, on every price: the stop and the target.
CheckSLTP(side, tick) ==
    IF ~HasPos(side) THEN side
    ELSE LET pos == UpdateMFE(side.pos, tick)
             reason == CheckExit(pos, tick)
         IN IF reason = "" THEN [side EXCEPT !.pos = pos]
            ELSE Closed(side, reason, ExitFillPriceAt(pos, reason, tick))

CheckEOD(side, exit, instant) ==
    IF HasPos(side) /\ ShouldForceClose(instant) THEN Closed(side, "EOD", exit) ELSE side

\* Seeded fault: the stop is trailed by the close.
TrailOnBar_ByClose(side, bar) ==
    IF ~HasPos(side) \/ bar.time <= side.pos.entryBar THEN side
    ELSE CheckSLTP([side EXCEPT !.pos = Apply(UpdateMFE(@, bar.close), bar.close)], bar.close)

\* Live, on a closed bar; last price is the bar's close by then.
TrailOnBar(side, bar) ==
    IF ~HasPos(side) \/ bar.time <= side.pos.entryBar THEN side
    ELSE LET best == TrailPrice(bar, side.pos.direction) IN
         CheckSLTP([side EXCEPT !.pos = Apply(UpdateMFE(@, best), best)], bar.close)

\* CandleFreshForEntry: the bar began at most StaleAgeBars bars ago.
FreshForEntry(bar) ==
    clock + (IF path = <<>> THEN 0 ELSE 1) - bar.time <= StaleAgeBars

\* Live: processCandle.
ProcessCandle(side, bar, signal) ==
    IF \/ HasPos(side) \/ signal = NoSignal
       \/ ~FreshForEntry(bar) \/ ~EntriesAllowed(clock)
    THEN side
    ELSE LET entered == EnterOn(side, bar, signal) IN CheckSLTP(entered, bar.close)

\* Live: the whole handler of a closed bar.
LiveOnBar(side, bar, signal) ==
    ProcessCandle(TrailOnBar(CheckEOD(side, bar.close, clock), bar), bar, signal)

\* Backtest: closeMissedEOD, when the bars of the day ended before EOD.
CloseMissedEOD(side, bar) ==
    IF HasPos(side) /\ lastClose > 0
         /\ (Day(bar.time) # Day(side.pos.entryBar) \/ ShouldForceClose(bar.time))
    THEN Closed(side, "EOD", lastClose) ELSE side

\* Seeded fault: a stop the open jumped over is filled at its level.
CheckPathPrice_OpenAtLevel(side, tick, isOpen) ==
    LET pos == UpdateMFE(side.pos, tick)
        reason == CheckExit(pos, tick)
    IN IF reason = "" THEN [side EXCEPT !.pos = pos]
       ELSE Closed(side, reason, ExitFillPrice(pos, reason, tick))

\* Only the open is a price the market may have jumped to.
CheckPathPrice(side, tick, isOpen) ==
    LET pos == UpdateMFE(side.pos, tick)
        reason == CheckExit(pos, tick)
    IN IF reason = "" THEN [side EXCEPT !.pos = pos]
       ELSE Closed(side, reason, IF isOpen THEN ExitFillPriceAt(pos, reason, tick)
                                           ELSE ExitFillPrice(pos, reason, tick))

\* Backtest: the path of the bar, until the position is left, then the trail.
ProcessIntrabar(side, bar) ==
    LET p == IntrabarPath(bar, side.pos.direction)
        walk(before, i) == IF HasPos(before) THEN CheckPathPrice(before, p[i], i = 1) ELSE before
        walked == walk(walk(walk(walk(side, 1), 2), 3), 4)
    IN IF HasPos(walked)
       THEN [walked EXCEPT !.pos = Apply(@, TrailPrice(bar, side.pos.direction))]
       ELSE walked

\* Backtest: one turn of the loop of Run.
BacktestOnBar(side, bar, signal) ==
    LET settled == CheckEOD(ProcessIntrabar(CloseMissedEOD(side, bar), bar),
                            bar.close, bar.time + 1)
    IN IF HasPos(settled) \/ signal = NoSignal \/ ~EntriesAllowed(bar.time + 1)
       THEN settled
       ELSE EnterOn(settled, bar, signal)

-----------------------------------------------------------------------------
Init ==
    /\ clock = 0 /\ price = 0 /\ forming = NoBar /\ path = <<>> /\ queue = <<>>
    /\ live = [pos |-> NoPosition, trades |-> <<>>]
    /\ bt = [pos |-> NoPosition, trades |-> <<>>]
    /\ lastPrice = 0 /\ lastClose = 0 /\ bestSince = 0 /\ parted = {}

\* What a tick or a handler leaves of the best price since the entry.
BestAfter(side, tick) ==
    IF ~HasPos(side) THEN 0 ELSE BestOf(side.pos.direction, bestSince, tick)

\* The backtest decides on the next open about a position that the live
\* strategy has left already, on a close: the sides part when that open is
\* another price, or when no bar comes.
PartedBy(open) ==
    IF HasPos(bt) /\ live.pos.entryBar # bt.pos.entryBar /\ open # price
    THEN parted \cup {bt.pos.entryBar} ELSE parted

\* Bound: nothing is left to trade.
Over ==
    /\ ~HasPos(live) /\ ~HasPos(bt)
    /\ Len(live.trades) = MaxTrades \/ Len(bt.trades) = MaxTrades

\* The market begins a bar.  It runs against the live position first.
NewBar ==
    /\ forming = NoBar /\ ~ShouldForceClose(clock) /\ clock < LastInstant /\ ~Over
    /\ Len(queue) <= MaxLag
    /\ \E open \in Prices : \E bar \in BarsFrom(open) :
          /\ bar.close \in bar.low..bar.high
          /\ forming' = bar
          /\ parted' = PartedBy(open)
          /\ path' = TicksOf(bar, IF HasPos(live) THEN live.pos.direction ELSE "BUY")
    /\ UNCHANGED <<clock, price, queue, live, bt, lastPrice, lastClose, bestSince>>

\* A trade at the next price of the path; the live strategy gets the tick.
Tick ==
    /\ path # <<>>
    /\ price' = Head(path) /\ lastPrice' = Head(path) /\ path' = Tail(path)
    /\ live' = CheckSLTP(live, Head(path))
    /\ bestSince' = BestAfter(live', Head(path))
    /\ UNCHANGED <<clock, forming, queue, bt, lastClose, parted>>

CloseBar ==
    /\ forming # NoBar /\ path = <<>>
    /\ queue' = Append(queue, forming)
    /\ forming' = NoBar /\ clock' = clock + 1
    /\ UNCHANGED <<price, path, live, bt, lastPrice, lastClose, bestSince, parted>>

\* Nobody trades for the length of a bar.
NoTrades ==
    /\ forming = NoBar /\ ~ShouldForceClose(clock) /\ clock < LastInstant /\ ~Over
    /\ Len(queue) <= MaxLag
    /\ clock' = clock + 1 /\ parted' = PartedBy(0)
    /\ UNCHANGED <<price, forming, path, queue, live, bt, lastPrice, lastClose, bestSince>>

\* A closed bar reaches the live strategy; the backtest has the same bar.
Candle ==
    /\ queue # <<>>
    /\ \E signal \in Signals(Head(queue)) :
          /\ signal # NoSignal => /\ Len(live.trades) < MaxTrades
                                  /\ Len(bt.trades) < MaxTrades
          /\ live' = LiveOnBar(live, Head(queue), signal)
          /\ bt' = BacktestOnBar(bt, Head(queue), signal)
          /\ bestSince' =
                IF ~HasPos(live') THEN 0
                ELSE IF live'.pos.entryBar # live.pos.entryBar
                     THEN BestOf(live'.pos.direction, live'.pos.entry,
                                 BestOf(live'.pos.direction, price, Head(queue).close))
                     ELSE bestSince
    /\ lastPrice' = Head(queue).close
    /\ lastClose' = Head(queue).close
    /\ queue' = Tail(queue)
    /\ UNCHANGED <<clock, price, forming, path, parted>>

\* The EOD timer of the live strategy.
EodTimer ==
    /\ ShouldForceClose(clock) /\ HasPos(live)
    /\ live' = CheckEOD(live, lastPrice, clock)
    /\ bestSince' = 0
    /\ UNCHANGED <<clock, price, forming, path, queue, bt, lastPrice, lastClose, parted>>

NextDay ==
    /\ ShouldForceClose(clock) /\ queue = <<>> /\ ~HasPos(live)
    /\ clock < LastInstant /\ ~Over
    /\ clock' = clock + 1
    /\ UNCHANGED <<price, forming, path, queue, live, bt, lastPrice, lastClose, bestSince, parted>>

Done ==
    /\ clock = LastInstant \/ Over
    /\ forming = NoBar /\ queue = <<>> /\ UNCHANGED vars

Next == NewBar \/ Tick \/ CloseBar \/ NoTrades \/ Candle \/ EodTimer \/ NextDay \/ Done

Spec == Init /\ [][Next]_vars

-----------------------------------------------------------------------------
\* The live position that goes with a backtest's.  Live looks at the close of
\* the bar of its entry at once, the backtest begins with the next bar: that one
\* close counts for the best price, and so for a stop that trails it.
AsLive(pos) ==
    LET close == pos.entryClose IN
    [pos EXCEPT
        !.mfe = BestOf(pos.direction, close, @),
        !.stop = IF pos.stage >= StageMax
                 THEN BestOf(pos.direction, Toward(pos.direction, close, -pos.r), @) ELSE @]

\* A trade whose last stop is trailed by the close of its entry bar.
EntryBarTrails(trade) ==
    /\ trade.stage >= StageMax
    /\ trade.stop = Toward(trade.direction, trade.entryClose, -trade.r)

\* The live strategy and the backtest end the same trade in the same way: a
\* position both opened on one bar leaves for the same reason at the same price
\* and is stored with the same marks, although one sees every tick and the other
\* four prices a bar.  Its stop is stored alike too, but for a trade closed at
\* EOD: the backtest has then trailed it by the last bar, the live strategy not.
\* They differ where they had to decide at different prices (parted), and where
\* a stop was hit that the close of the entry bar trails.
SameExit ==
    \A i \in DOMAIN live.trades, j \in DOMAIN bt.trades :
        LET a == live.trades[i] b == bt.trades[j] IN
        a.entryBar = b.entryBar /\ a.entryBar \notin parted =>
            \/ a.reason = "STOP_LOSS" /\ EntryBarTrails(a)
            \/ /\ [a EXCEPT !.stop = 0, !.stage = 0] = [b EXCEPT !.stop = 0, !.stage = 0]
               /\ a.reason # "EOD" /\ ~EntryBarTrails(a) => a = b

\* Between bars a position they both hold has the same stage on both sides, and
\* the same stop and best price but for what the close of the entry bar adds to
\* the live one's, wherever bars open and however many fail to come.
SameStop ==
    queue = <<>> /\ forming = NoBar /\ HasPos(live) /\ HasPos(bt)
      /\ live.pos.entryBar = bt.pos.entryBar
      => live.pos = AsLive(bt.pos)

\* The trailing stop of an open position never loosens, in whatever order
\* ticks and closed bars reach it.
StopNeverLoosens ==
    [][HasPos(live) /\ HasPos(live)' /\ live'.pos.entryBar = live.pos.entryBar
         => NotWorse(live.pos.direction, live'.pos.stop, live.pos.stop)]_vars

\* The backtest never fills a stop or a target at a better price than the bar
\* it happened in has traded at.
BacktestFillsInsideBar ==
    [][Len(bt'.trades) > Len(bt.trades)
         => LET trade == bt'.trades[Len(bt'.trades)] IN
            trade.reason = "EOD"
              \/ ~Better(trade.direction, trade.price,
                         TrailPrice(Head(queue), trade.direction))]_vars

\* "An extreme from before the entry would raise the stop without any move of
\* the price since": the stop is trailed on prices since the entry alone.
TrailsOnPricesSinceEntry ==
    HasPos(live) => ~Better(live.pos.direction, live.pos.mfe, bestSince)
=============================================================================

-------------------------------- MODULE Signals --------------------------------
(***************************************************************************)
(* One strategy among the bars of several days, as the slot runs it        *)
(* (processCandle, src/internal/strategy/selfmanaged/selfmanaged.go): the  *)
(* strategy is shown a closed bar only while the slot has no position and  *)
(* may enter.  A slot whose order was taken is busy until it has left the  *)
(* position, at the latest at the end of the day, or, when it has made its *)
(* trades of the day, until the next one.                                  *)
(*                                                                         *)
(* The time of a bar counts bars from the start; every day has the minutes *)
(* -Early..Last of the session, in bars.                                    *)
(***************************************************************************)
EXTENDS SignalStrategies

CONSTANTS
    Entries,    \* the strategies, by their kinds of entry
    Starts,     \* minutes at which the range may begin; 0 but for afternoon_range_fade
    MaxPrice,   \* bound: prices are 1..MaxPrice
    Early,      \* bars of a day before the session
    Last,       \* the last bar of a day; it ends at EOD
    Days,       \* bound: days covered
    MaxGap      \* bound: 1 + bars in a row that may be missing, or come too late
                \* to be acted on

RangeKinds == {"close", "retest", "fade"}
SignalKinds == {"momentum", "filtered", "daytrend", "reversion", "random",
                "vwap", "prevday", "midday", "late", "gap"}

ASSUME SignalsAssumption ==
    /\ Entries \subseteq RangeKinds \cup SignalKinds
    /\ Starts \subseteq 0..(RangeEnd - 1)
    /\ Early \in Nat /\ Last \in Nat /\ RangeEnd <= Last
    /\ MaxPrice \in Nat \ {0, 1, 2} /\ Days \in Nat \ {0} /\ MaxGap \in Nat \ {0}

VARIABLES
    opts,       \* which strategy runs, with which parameters
    strategy,   \* its state
    bar,        \* the last bar
    order,      \* the order it gave on that bar, or NoOrder
    busy,       \* the slot is in a position, or done for the day
    window,     \* of the market: its open of the day, and high and low in the
                \* range's part of it
    outside     \* a bar shown that closed outside the range: the last since an
                \* order, or the first of the day for the VWAP pullback

vars == <<opts, strategy, bar, order, busy, window, outside>>

DayLength == Last + Early + 1
DayOf(time) == time \div DayLength + 1
MinuteOf(time) == (time % DayLength) - Early
MaxTime == Days * DayLength - 1

Prices == 1..MaxPrice
NoBar == [day |-> 0, minute |-> 0, time |-> NoTime,
          open |-> 0, high |-> 0, low |-> 0, close |-> 0,
          stop |-> FALSE, stopBefore |-> FALSE, vwap |-> 0, quiet |-> FALSE, coin |-> NoOrder]
NoWindow == [open |-> 0, high |-> 0, low |-> 0]

Candles ==
    {x \in [open : Prices, high : Prices, low : Prices, close : Prices] :
        /\ x.low <= x.open /\ x.open <= x.high
        /\ x.low <= x.close /\ x.close <= x.high}

\* Prices are 1..Highest: two to break out of one level, three for a range, four
\* to leave a range on both sides.
Highest(entry) ==
    IF entry \in {"momentum", "filtered", "daytrend", "random", "midday"} THEN MaxPrice - 2
    ELSE IF entry = "vwap" THEN MaxPrice
    ELSE MaxPrice - 1

\* The opens that matter to a strategy are free, others are at the low.  The
\* four prices of the VWAP pullback are crossed one at a time.
CandlesFor(entry) ==
    {x \in Candles :
        /\ x.high <= Highest(entry)
        /\ entry = "vwap" => x.high <= x.low + 1
        /\ x.open = x.low \/ entry \in {"retest", "daytrend", "late"}}

\* A random entry; its limit order is a price behind the close.
Coins(entry, close) ==
    {NoOrder} \cup IF entry = "random"
                   THEN {OrderAt("BUY", p) : p \in {close - 1} \cap Prices} \cup
                        {OrderAt("SELL", p) : p \in {close + 1} \cap 1..Highest(entry)}
                   ELSE {}

Free(entry, entries) == IF entry \in entries THEN BOOLEAN ELSE {FALSE}

\* What the market and the history may make of a bar, as far as a strategy looks.
BarsAt(time, entry) ==
    UNION {{[day |-> DayOf(time), minute |-> MinuteOf(time), time |-> time,
             open |-> x.open, high |-> x.high, low |-> x.low, close |-> x.close,
             stop |-> ~noStop, stopBefore |-> stopBefore,
             vwap |-> vwap, quiet |-> quiet, coin |-> coin] :
                noStop \in Free(entry, RangeKinds \cup {"vwap", "midday", "late", "gap"}),
                stopBefore \in Free(entry, {"retest", "random"}),
                vwap \in IF entry = "vwap" THEN 2..(MaxPrice - 1) ELSE {0},
                quiet \in Free(entry, {"midday"}),
                coin \in Coins(entry, x.close)} : x \in CandlesFor(entry)}

\* EntriesAllowed when the bar has ended: the last of the day ends at EOD.
Shown(b) == b.minute < Last

WindowAfter(b) ==
    LET before == IF b.day = bar.day THEN window ELSE NoWindow
        opened == IF b.minute >= 0 /\ before.open = 0 THEN [before EXCEPT !.open = b.open]
                  ELSE before
    IN IF ~InWindow(opts, b) THEN opened
       ELSE IF opened.high = 0 THEN [opened EXCEPT !.high = b.high, !.low = b.low]
       ELSE [opened EXCEPT !.high = Higher(@, b.high), !.low = Lower(@, b.low)]

OutsideAfter(b, answer) ==
    LET s == answer.strategy
        before == IF b.day = bar.day THEN outside ELSE NoWatch
    IN IF \/ opts.entry \notin {"fade", "vwap"}
          \/ opts.entry = "fade" /\ answer.order # NoOrder
       THEN NoWatch
       ELSE IF /\ s.complete /\ s.high > s.low /\ Breakout(s, b) # "none"
               /\ opts.entry = "vwap" => before = NoWatch /\ b.vwap > 0
       THEN [side |-> Breakout(s, b), since |-> b.time]
       ELSE before

-----------------------------------------------------------------------------
Options ==
    {o \in [entry : Entries, start : Starts, inside : BOOLEAN,
            longOnly : BOOLEAN, limit : BOOLEAN] :
        /\ o.entry # "fade" => o.start = 0 /\ ~o.inside
        /\ o.longOnly => o.entry \in {"filtered", "daytrend", "gap"}
        /\ o.limit => o.entry = "random"}

OnCandleOf(o, s, b) ==
    IF o.entry \in RangeKinds THEN OnCandle(o, s, b) ELSE OnSignalCandle(o, s, b)

Init ==
    /\ opts \in Options
    /\ strategy = IF opts.entry \in RangeKinds THEN NewStrategy ELSE NewSignals
    /\ bar = NoBar /\ order = NoOrder
    /\ busy = FALSE /\ window = NoWindow /\ outside = NoWatch

\* processCandle hands the bar to the strategy; its order may be turned down.
Show(b) ==
    LET answer == OnCandleOf(opts, strategy, b) IN
    /\ strategy' = answer.strategy
    /\ order' = answer.order
    /\ busy' \in {FALSE, answer.order # NoOrder}
    /\ outside' = OutsideAfter(b, answer)

\* The slot does not ask the strategy.
Pass(b) ==
    /\ order' = NoOrder
    /\ busy' \in {FALSE, busy /\ b.day = bar.day}
    /\ UNCHANGED <<strategy, outside>>

NextBar ==
    \E time \in (bar.time + 1)..(bar.time + MaxGap) :
       /\ time <= MaxTime
       /\ \E b \in BarsAt(time, opts.entry) :
             /\ bar' = b
             /\ window' = WindowAfter(b)
             /\ IF Shown(b) /\ (~busy \/ b.day # bar.day) THEN Show(b) ELSE Pass(b)
    /\ UNCHANGED opts

Done == bar.time = MaxTime /\ UNCHANGED vars

Next == NextBar \/ Done

Spec == Init /\ [][Next]_vars

-----------------------------------------------------------------------------
\* What a strategy knows of the day is the market's: the range it trades is that
\* of this day's window, and the open it compares with is the session's first:
\* no bar of them was withheld by a busy slot, none is left from the day before.
DayIsTheMarkets ==
    strategy.day = bar.day =>
      /\ strategy.complete => strategy.high = window.high /\ strategy.low = window.low
      /\ opts.entry \in {"daytrend", "late"} /\ strategy.open > 0 => strategy.open = window.open

\* Every order is for a price at which its bar has traded.
OrderIsTradable == order # NoOrder => bar.low <= order.price /\ order.price <= bar.high

\* While the slot is busy the strategy waits for nothing it would then miss.
NothingPendingWhileBusy ==
    busy => strategy.limit = NoLimit /\ strategy.watch = NoWatch

\* The limit order in hand still lives when the bar comes.
LimitLives(b) ==
    /\ strategy.limit # NoLimit /\ b.day = strategy.day
    /\ IF opts.entry = "random" THEN strategy.left > 0 ELSE b.time < strategy.limit.expires

\* A limit order ends by being filled, by its time or the day being over, or
\* because no stop can be found: not because the bar that reached it closed
\* badly.  While it lives a bar that reaches it does fill it, later no bar does.
LimitIsHonest ==
    [][strategy.limit # NoLimit /\ bar' # bar /\ Shown(bar')
       => LET crossed == IF strategy.limit.direction = "BUY"
                         THEN bar'.low <= strategy.limit.price
                         ELSE bar'.high >= strategy.limit.price
          IN IF LimitLives(bar')
             THEN /\ strategy'.limit # strategy.limit => crossed
                  /\ crossed /\ bar'.stopBefore => order' # NoOrder
             ELSE order' = NoOrder]_vars

\* A fade trades against a breakout that happened on this day, at most a
\* window ago, and that has not been traded yet.
FadesAFreshBreakout ==
    [][opts.entry = "fade" /\ order' # NoOrder /\ bar' # bar
       => /\ outside # NoWatch /\ bar'.day = bar.day
          /\ bar'.time < outside.since + FadeWindow
          /\ order'.direction = (IF outside.side = "up" THEN "SELL" ELSE "BUY")]_vars

\* A pullback continues the first breakout of the day, a bar or more after it,
\* whatever the market has done since.
ContinuesTheFirstBreakout ==
    [][opts.entry = "vwap" /\ order' # NoOrder /\ bar' # bar
       => /\ outside # NoWatch /\ bar'.day = bar.day
          /\ order'.direction = (IF outside.side = "up" THEN "BUY" ELSE "SELL")]_vars
=============================================================================

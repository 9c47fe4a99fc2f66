------------------------------ MODULE Backtest ------------------------------
(***************************************************************************)
(* The portfolio backtest (src/internal/backtest/portfolio.go, slots.go):  *)
(* every slot of every experiment over recorded bars, on one account and   *)
(* one risk controller.  The warm-up of the live bot is the same run over  *)
(* the last days of history (src/internal/app/warmup.go).                  *)
(*                                                                         *)
(* A bar is labelled with the instant it begins.  The bars of one label    *)
(* are walked twice: the exits of every slot, then the entries.  What hits *)
(* a stop inside a bar is the matter of BarTrading, here any price may; a  *)
(* ticker may miss any bar.                                                *)
(***************************************************************************)
EXTENDS SessionClock, Sizing, FiniteSets, Functions

CONSTANTS
    Slots, Tickers,
    Rank,               \* slot -> its place in the order by ticker and slot key
    TickerOf,           \* slot -> ticker
    Session,            \* slot -> session record of SessionClock
    Frame,              \* ticker -> minutes of a bar: one frame for all its slots
    Days,               \* bound: the history covers the days 1..Days
    DayMinutes,         \* bound: minutes of a day, numbered from 0
    HistoryEnd,         \* the instant the history was fetched: [day, minute]
    Signals,            \* entry signals: records [direction, price, stop]
    Prices,             \* prices at which a position may be exited
    MaxTradesPerDay,
    SlotMaxDailyLoss,   \* daily loss limit of one slot's RiskManager
    MaxDailyLoss, MaxOpenRiskBudget, InitialBalance

\* A bar of every time frame divides the day (timeframe.go).
ASSUME BacktestAssumption ==
    /\ IsFiniteSet(Tickers)
    /\ TickerOf \in [Slots -> Tickers]
    /\ Rank \in [Slots -> Nat]
    /\ \A r, s \in Slots : Rank[r] = Rank[s] => r = s
    /\ Days \in Nat \ {0} /\ DayMinutes \in Nat \ {0}
    /\ Session \in [Slots -> [open : Nat, delay : Nat, eod : 0..(DayMinutes - 1),
                              days : SUBSET (1..Days)]]
    /\ Frame \in [Tickers -> Nat \ {0}]
    /\ \A t \in Tickers : DayMinutes % Frame[t] = 0
    /\ HistoryEnd \in [day : 1..Days, minute : 0..(DayMinutes - 1)]
    /\ Signals \subseteq [direction : {"BUY", "SELL"}, price : Nat, stop : Nat]
    /\ Prices \subseteq Nat
    /\ RiskPerTrade \in Nat /\ UtilPct \in 1..100
    /\ Slippage \in Nat /\ CommissionPerUnit \in Nat
    /\ MaxTradesPerDay \in Nat \ {0} /\ SlotMaxDailyLoss \in Nat
    /\ MaxDailyLoss \in Nat \ {0} /\ MaxOpenRiskBudget \in Nat
    /\ InitialBalance \in Nat \ {0}

VARIABLES
    label,          \* the instant at which the bars in hand begin
    exitsLeft,      \* slots whose exits at this label are still to come
    entriesLeft,    \* slots whose entries at this label are still to come
    stage,          \* where the slot in hand stands
    balance, positions,                                 \* VirtualExecutor
    realizedPnL, openPositions, blocked, tradingDate,   \* GlobalRiskController
    pos,            \* slot -> st.position
    openedAt,       \* slot -> st.position.OpenedAt
    order,          \* the order of the entry in hand
    tradesToday, riskResetDate, slotLoss, lastBarEnd,   \* fields of the slot
    trade,          \* the trade saved last: when it was opened and closed
    reported        \* sum of the net results the report will show

ledgerVars == <<balance, positions>>
riskVars == <<realizedPnL, openPositions, blocked, tradingDate>>
positionVars == <<pos, openedAt>>
slotDays == <<tradesToday, riskResetDate>>
tradeVars == <<trade, reported>>
walk == <<exitsLeft, entriesLeft, stage>>
vars == <<label, walk, ledgerVars, riskVars, positionVars, order,
          slotDays, slotLoss, lastBarEnd, tradeVars>>

Exec == INSTANCE VirtualExecutor
Risk == INSTANCE GlobalRisk WITH
            Dates <- 0..(Days + 1), NoDate <- -1, PnLBound <- 0, MaxRisk <- MaxOpenRiskBudget

Orders == [direction : {"BUY", "SELL"}, quantity : Nat \ {0}, price : Int, stop : Nat]
NoOrder == [direction |-> "none", quantity |-> 0, price |-> 0, stop |-> 0]
NoInstant == [day |-> 0, minute |-> 0]
NoTrade == [openedAt |-> NoInstant, closedAt |-> NoInstant]

HasPos(s) == pos[s] # NoOrder

-----------------------------------------------------------------------------
(* Time and bars                                                           *)

After(instant, minutes) ==
    LET m == instant.minute + minutes IN
    [day |-> instant.day + m \div DayMinutes, minute |-> m % DayMinutes]

NotLater(i, j) == i.day < j.day \/ (i.day = j.day /\ i.minute <= j.minute)

\* A decision is made when the bar ends; a bar may end on the next day.
BarEnd(t) == After(label, Frame[t])

\* closedBars: the bar that was still forming is not part of the history.
BarsAt(instant) ==
    {t \in Tickers : instant.minute % Frame[t] = 0
                     /\ NotLater(After(instant, Frame[t]), HistoryEnd)}

SlotsOf(bars) == {s \in Slots : TickerOf[s] \in bars}

NextLabel ==
    /\ exitsLeft = {} /\ entriesLeft = {}
    /\ label' = After(label, 1)
    /\ NotLater(label', HistoryEnd)
    /\ \E bars \in SUBSET BarsAt(label') :
          exitsLeft' = SlotsOf(bars) /\ entriesLeft' = SlotsOf(bars)
    /\ UNCHANGED <<stage, ledgerVars, riskVars, positionVars, order, slotDays, slotLoss,
                   lastBarEnd, tradeVars>>

InTurn(s, left) == s \in left /\ \A r \in left : Rank[s] <= Rank[r]

AtExit(s, place) == InTurn(s, exitsLeft) /\ stage = place

\* Seeded fault: a slot's entry does not wait for the exits of the others.
AtEntry_OnePass(s, place) ==
    s \notin exitsLeft /\ InTurn(s, entriesLeft) /\ stage = place

\* The second walk begins when the first has come to its end.
AtEntry(s, place) == exitsLeft = {} /\ InTurn(s, entriesLeft) /\ stage = place

ContinueAs(place) == stage' = place /\ UNCHANGED <<exitsLeft, entriesLeft>>

ExitDone(s) ==
    /\ exitsLeft' = exitsLeft \ {s} /\ stage' = "begin"
    /\ UNCHANGED entriesLeft

-----------------------------------------------------------------------------
(* processExits                                                            *)

\* checkDailyReset by the slot's own session: the portfolio controller is
\* reset by the slot that opens first, the slot by its own date.
CheckDailyReset(s) ==
    LET now == BarEnd(TickerOf[s]) IN
    /\ AtExit(s, "begin")
    /\ IF IsSessionOpen(Session[s], now)
       THEN /\ Risk!ResetDaily(now.day)
            /\ IF riskResetDate[s] = now.day
               THEN UNCHANGED <<slotDays, slotLoss>>
               ELSE /\ slotLoss' = [slotLoss EXCEPT ![s] = 0]
                    /\ tradesToday' = [tradesToday EXCEPT ![s] = 0]
                    /\ riskResetDate' = [riskResetDate EXCEPT ![s] = now.day]
       ELSE UNCHANGED <<riskVars, slotDays, slotLoss>>
    /\ ContinueAs("exits")
    /\ UNCHANGED <<label, ledgerVars, positionVars, order, lastBarEnd, tradeVars>>

\* Seeded fault: the closing order names no commission.
CloseFilled_NoCommission(s, exit) ==
    Exec!ClosePosition(TickerOf[s], exit, 0)

\* The account pays the commission together with the closing order.
CloseFilled(s, exit) ==
    Exec!ClosePosition(TickerOf[s], exit, Commission(pos[s]))

\* closePosition.  The slot's and the portfolio's limits count the result
\* before commission; AggregateTrades takes the commission off afterwards.
ClosePosition(s, price, closedAt) ==
    LET exit == FillPrice(CloseSide(pos[s].direction), price)
        pnl == GrossPnL(pos[s], exit)
    IN
    /\ HasPos(s)
    /\ CloseFilled(s, exit)
    /\ Risk!RegisterClose(TickerOf[s], pnl)
    /\ slotLoss' = IF pnl < 0 THEN [slotLoss EXCEPT ![s] = @ - pnl] ELSE slotLoss
    /\ trade' = [openedAt |-> openedAt[s], closedAt |-> closedAt]
    /\ reported' = reported + NetPnL(pos[s], exit)
    /\ pos' = [pos EXCEPT ![s] = NoOrder]
    /\ openedAt' = [openedAt EXCEPT ![s] = NoInstant]

\* Seeded fault: a night in between is not noticed.
MissedEOD_SameDayOnly(s) ==
    lastBarEnd[s] # NoInstant /\ ShouldForceClose(Session[s], label)

\* The position should have gone before this bar began: the bars in between
\* are missing from the data, or the last one ended past midnight.
MissedEOD(s) ==
    /\ lastBarEnd[s] # NoInstant
    /\ label.day # openedAt[s].day \/ ShouldForceClose(Session[s], label)

Exit(s, price, closedAt) ==
    /\ ClosePosition(s, price, closedAt)
    /\ ExitDone(s)
    /\ UNCHANGED <<label, order, slotDays, lastBarEnd>>

\* closeMissedEOD: at the last price seen, as of the end of the bar before.
CloseMissedEOD(s) ==
    /\ AtExit(s, "exits") /\ HasPos(s) /\ MissedEOD(s)
    /\ \E price \in Prices : Exit(s, price, lastBarEnd[s])

\* processIntrabar: a stop or a target hit on the way of the bar.
IntrabarExit(s) ==
    /\ AtExit(s, "exits") /\ HasPos(s) /\ ~MissedEOD(s)
    /\ \E price \in Prices : Exit(s, price, label)

CloseAtEOD(s) ==
    /\ AtExit(s, "exits") /\ HasPos(s) /\ ~MissedEOD(s)
    /\ ShouldForceClose(Session[s], BarEnd(TickerOf[s]))
    /\ \E price \in Prices : Exit(s, price, BarEnd(TickerOf[s]))

NoExit(s) ==
    /\ AtExit(s, "exits")
    /\ HasPos(s) => ~MissedEOD(s) /\ ~ShouldForceClose(Session[s], BarEnd(TickerOf[s]))
    /\ ExitDone(s)
    /\ UNCHANGED <<label, ledgerVars, riskVars, positionVars, order, slotDays, slotLoss,
                   lastBarEnd, tradeVars>>

-----------------------------------------------------------------------------
(* processEntries                                                          *)

\* The slot is done with the bar and remembers when it ended.
DoneWithBar(s) ==
    /\ entriesLeft' = entriesLeft \ {s} /\ stage' = "begin"
    /\ UNCHANGED exitsLeft
    /\ lastBarEnd' = [lastBarEnd EXCEPT ![s] = BarEnd(TickerOf[s])]

EntrySkipped(s) ==
    /\ AtEntry(s, "begin")
    /\ DoneWithBar(s)
    /\ UNCHANGED <<label, ledgerVars, riskVars, positionVars, order, slotDays, slotLoss, tradeVars>>

MayEnter(s) ==
    /\ EntriesAllowed(Session[s], BarEnd(TickerOf[s]))
    /\ tradesToday[s] < MaxTradesPerDay
    /\ slotLoss[s] < SlotMaxDailyLoss

\* Slippage comes before the cap, so the order never costs more than the cap.
Sized(signal) ==
    LET fill == FillPrice(signal.direction, signal.price) IN
    [direction |-> signal.direction,
     quantity  |-> CapByCash(PositionSize(signal), fill, balance),
     price     |-> fill,
     stop      |-> signal.stop]

\* processCandle down to TryOpen.
EntrySignal(s, signal) ==
    LET o == Sized(signal)
        t == TickerOf[s]
    IN
    /\ AtEntry(s, "begin") /\ ~HasPos(s) /\ MayEnter(s)
    /\ o.quantity > 0
    /\ Risk!TryOpen(t, TradeRisk(o))
    /\ IF Risk!TryOpenResult(t, TradeRisk(o)) = "ok"
       THEN order' = o /\ ContinueAs("fill") /\ UNCHANGED lastBarEnd
       ELSE DoneWithBar(s) /\ UNCHANGED order
    /\ UNCHANGED <<label, ledgerVars, positionVars, slotDays, slotLoss, tradeVars>>

\* ExecuteOrder.  The position is dated by the label of its bar although it
\* is filled at the bar's end.
Fill(s) ==
    LET t == TickerOf[s] IN
    /\ AtEntry(s, "fill")
    /\ IF Exec!OpenResult(t, order) = "ok"
       THEN /\ Exec!OpenPosition(t, order)
            /\ pos' = [pos EXCEPT ![s] = order]
            /\ openedAt' = [openedAt EXCEPT ![s] = label]
            /\ tradesToday' = [tradesToday EXCEPT ![s] = @ + 1]
            /\ ContinueAs("sameBar")
            /\ UNCHANGED <<riskVars, lastBarEnd>>
       ELSE /\ Risk!ReleaseOpen(t)
            /\ DoneWithBar(s)
            /\ UNCHANGED <<ledgerVars, positionVars, tradesToday>>
    /\ order' = NoOrder
    /\ UNCHANGED <<label, riskResetDate, slotLoss, tradeVars>>

\* SameBarExitAfterFill: the entry bar itself may have hit the stop.
SameBarExit(s) ==
    /\ AtEntry(s, "sameBar")
    /\ \E price \in Prices : ClosePosition(s, price, label)
    /\ DoneWithBar(s)
    /\ UNCHANGED <<label, order, slotDays>>

Kept(s) ==
    /\ AtEntry(s, "sameBar")
    /\ DoneWithBar(s)
    /\ UNCHANGED <<label, ledgerVars, riskVars, positionVars, order, slotDays, slotLoss, tradeVars>>

-----------------------------------------------------------------------------
\* The first label comes after the last minute of a day before the history.
Init ==
    /\ label = [day |-> 0, minute |-> DayMinutes - 1]
    /\ exitsLeft = {} /\ entriesLeft = {} /\ stage = "begin"
    /\ Exec!Init
    /\ Risk!Init
    /\ pos = [s \in Slots |-> NoOrder]
    /\ openedAt = [s \in Slots |-> NoInstant]
    /\ order = NoOrder
    /\ tradesToday = [s \in Slots |-> 0]
    /\ riskResetDate = [s \in Slots |-> 0]
    /\ slotLoss = [s \in Slots |-> 0]
    /\ lastBarEnd = [s \in Slots |-> NoInstant]
    /\ trade = NoTrade
    /\ reported = 0

ProcessExits(s) ==
    CheckDailyReset(s) \/ CloseMissedEOD(s) \/ IntrabarExit(s) \/ CloseAtEOD(s) \/ NoExit(s)

ProcessEntries(s) ==
    \/ EntrySkipped(s) \/ \E signal \in Signals : EntrySignal(s, signal)
    \/ Fill(s) \/ SameBarExit(s) \/ Kept(s)

Finished ==
    label = HistoryEnd /\ exitsLeft = {} /\ entriesLeft = {} /\ UNCHANGED vars

Next ==
    \/ NextLabel
    \/ \E s \in Slots : ProcessExits(s) \/ ProcessEntries(s)
    \/ Finished

Spec == Init /\ [][Next]_vars

\* What Warmup hands to the live bot: positions it will start without.
OpenSlots == {s \in Slots : HasPos(s)}

-----------------------------------------------------------------------------
\* The report is the account: free cash and the reserved notional are the
\* deposit plus every net result shown, although the account pays commission
\* at the close and the report takes it off when the run is over.  Without
\* it the cap by cash sizes later trades differently from the live bot
\* (closePosition, AggregateTrades).
ReportIsTheAccount ==
    balance + SumFunction([t \in Tickers |-> positions[t].entryPrice * positions[t].quantity])
      = InitialBalance + reported

\* Whatever bars are missing, and however long the last one is, a position
\* ends with its day: a trade never takes a price or a date from a later day
\* than the last bar of the day that opened it (closeMissedEOD).
TradesEndWithTheirDay ==
    LET midnight == [day |-> trade.openedAt.day + 1, minute |-> 0] IN
    trade # NoTrade => /\ NotLater(trade.openedAt, trade.closedAt)
                       /\ NotLater(trade.closedAt, midnight)

\* Once an entry of a label is made no older position is closed at that
\* label: what a bar frees, cash, budget and ticker, is there for every entry
\* of the same label, whatever the alphabet says (Run).
ExitsBeforeEntries ==
    [][\A s \in Slots :
          HasPos(s) /\ ~HasPos(s)' /\ openedAt[s] # label
             => \A r \in Slots : HasPos(r) => openedAt[r] # label]_vars

\* A position opened on the controller's day is backed by its own risk until
\* it closes, although every slot resets the controller by its own session
\* and a position left over from another day loses its reservation.
ReservedWithinTheDay ==
    \A s \in Slots :
        HasPos(s) /\ openedAt[s].day = tradingDate
            => openPositions[TickerOf[s]] = TradeRisk(pos[s])
=============================================================================

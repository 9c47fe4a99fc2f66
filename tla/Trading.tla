------------------------------- MODULE Trading -------------------------------
(***************************************************************************)
(* One trading run: the strategy slots (SelfManagedStrategy,               *)
(* src/internal/strategy/selfmanaged/selfmanaged.go) of every experiment   *)
(* and ticker, each its own goroutine, around the one VirtualExecutor, the *)
(* one GlobalRiskController and the wall clock they share; and the daily   *)
(* reset loop that StrategyRunner (src/internal/engine/runner.go) runs     *)
(* next to each slot.                                                      *)
(*                                                                         *)
(* A slot handles one event at a time.  A handler is cut where it calls a  *)
(* shared object: the calls of different slots interleave, what a handler  *)
(* does to its own fields does not.  Prices are integers; which price hits *)
(* a stop is the matter of another module, here any price may.             *)
(***************************************************************************)
EXTENDS SessionClock, Sizing, Sequences, FiniteSets, Functions

CONSTANTS
    Slots, Tickers,
    TickerOf,           \* slot -> ticker
    Session,            \* slot -> session record of SessionClock
    Days,               \* bound: the run covers the days 1..Days
    DayMinutes,         \* bound: minutes of a day, numbered from 0
    StartMinute,        \* the minute of day 1 at which the bot starts
    Signals,            \* entry signals: records [direction, price, stop]
    Prices,             \* prices at which a position may be exited
    MaxTradesPerDay,
    SlotMaxDailyLoss,   \* daily loss limit of one slot's RiskManager
    MaxDailyLoss, MaxOpenRiskBudget, InitialBalance

ASSUME TradingAssumption ==
    /\ IsFiniteSet(Slots) /\ IsFiniteSet(Tickers)
    /\ TickerOf \in [Slots -> Tickers]
    /\ Days \in Nat \ {0} /\ DayMinutes \in Nat \ {0}
    /\ StartMinute \in 0..(DayMinutes - 1)
    /\ Session \in [Slots -> [open : Nat, delay : Nat, eod : 0..(DayMinutes - 1),
                              days : SUBSET (1..Days)]]
    /\ Signals \subseteq [direction : {"BUY", "SELL"}, price : Nat, stop : Nat]
    /\ Prices \subseteq Nat
    /\ RiskPerTrade \in Nat /\ UtilPct \in 1..100
    /\ Slippage \in Nat /\ CommissionPerUnit \in Nat
    /\ MaxTradesPerDay \in Nat \ {0} /\ SlotMaxDailyLoss \in Nat
    /\ MaxDailyLoss \in Nat \ {0} /\ MaxOpenRiskBudget \in Nat
    /\ InitialBalance \in Nat \ {0}

VARIABLES
    clock,          \* wall clock: [day, minute]
    cancelled,      \* the run's context is cancelled
    balance, positions,                                 \* VirtualExecutor
    realizedPnL, openPositions, blocked, tradingDate,   \* GlobalRiskController
    tradeLog,       \* sum of the results written by SaveClosedTrade
    pc,             \* slot -> where its handler stands
    todo,           \* slot -> the stages its handler has left
    now,            \* slot -> time.Now() taken when the handler began
    pos,            \* slot -> s.pos
    order,          \* slot -> the order, or the position, a call is about
    exitPrice,      \* slot -> price of the closing order
    tradesToday, eodCloseDate, riskResetDate,           \* fields of the slot
    slotLoss        \* slot -> RiskManager.currentLoss

ledgerVars == <<balance, positions>>
riskVars == <<realizedPnL, openPositions, blocked, tradingDate>>
slotDays == <<tradesToday, eodCloseDate, riskResetDate, slotLoss>>
handlerVars == <<pc, todo, now, pos, order, exitPrice>>
vars == <<clock, cancelled, ledgerVars, riskVars, tradeLog, handlerVars, slotDays>>

Exec == INSTANCE VirtualExecutor
\* No reservation can exceed the budget, so that is the bound on one.
Risk == INSTANCE GlobalRisk WITH
            Dates <- 1..Days, NoDate <- 0, PnLBound <- 0, MaxRisk <- MaxOpenRiskBudget

NoDay == 0
NoInstant == [day |-> NoDay, minute |-> 0]
NoOrder == [direction |-> "none", quantity |-> 0, price |-> 0, stop |-> 0]
Orders == [direction : {"BUY", "SELL"}, quantity : Nat \ {0}, price : Int, stop : Nat]

-----------------------------------------------------------------------------
(* The slot's run loop                                                     *)

HasPos(s) == pos[s] # NoOrder

Idle(s) == pc[s] = "run" /\ todo[s] = <<>>

AtStage(s, stage) == pc[s] = "run" /\ todo[s] # <<>> /\ Head(todo[s]) = stage

\* The handler goes to place with stages left; a finished one forgets its time.
Continue(s, place, stages) ==
    /\ pc' = [pc EXCEPT ![s] = place]
    /\ todo' = [todo EXCEPT ![s] = stages]
    /\ now' = IF place = "run" /\ stages = <<>>
              THEN [now EXCEPT ![s] = NoInstant]
              ELSE now

\* checkDailyReset, the first thing every handler does.
DailyReset(s) ==
    IF IsSessionOpen(Session[s], clock) /\ riskResetDate[s] # clock.day
    THEN /\ slotLoss' = [slotLoss EXCEPT ![s] = 0]
         /\ tradesToday' = [tradesToday EXCEPT ![s] = 0]
         /\ riskResetDate' = [riskResetDate EXCEPT ![s] = clock.day]
         /\ UNCHANGED eodCloseDate
    ELSE UNCHANGED slotDays

Begin(s, stages) ==
    /\ Idle(s)
    /\ todo' = [todo EXCEPT ![s] = stages]
    /\ now' = [now EXCEPT ![s] = clock]
    /\ DailyReset(s)
    /\ UNCHANGED <<clock, cancelled, ledgerVars, riskVars, tradeLog,
                   pc, pos, order, exitPrice>>

\* The timer skips the EOD check until a price has been seen; no position can
\* be open then.  checkSLTP and trailOnBar are both a stage "exit": the stop is compared
\* with a price and the position may have to go.
Tick(s) == Begin(s, <<"exit", "eod">>)
Candle(s) == Begin(s, <<"eod", "exit", "entry">>)
Timer(s) == Begin(s, <<"eod">>)

\* Run returns on ctx.Done(); select may prefer a ready event to it.
Stop(s) ==
    /\ cancelled /\ Idle(s)
    /\ pc' = [pc EXCEPT ![s] = "stopped"]
    /\ UNCHANGED <<clock, cancelled, ledgerVars, riskVars, tradeLog,
                   todo, now, pos, order, exitPrice, slotDays>>

\* A stage that changes nothing but the day fields of the slot.
Pass(s) ==
    /\ Continue(s, "run", Tail(todo[s]))
    /\ UNCHANGED <<clock, cancelled, ledgerVars, riskVars, tradeLog,
                   pos, order, exitPrice, tradesToday, riskResetDate, slotLoss>>

-----------------------------------------------------------------------------
(* Exits: checkSLTP, trailOnBar, checkEOD and closePosition                *)

\* closePosition takes the position out of the slot before it calls anyone.
TakePosition(s, price, stages) ==
    /\ HasPos(s)
    /\ order' = [order EXCEPT ![s] = pos[s]]
    /\ exitPrice' = [exitPrice EXCEPT ![s] = FillPrice(CloseSide(pos[s].direction), price)]
    /\ pos' = [pos EXCEPT ![s] = NoOrder]
    /\ Continue(s, "closing", stages)
    /\ UNCHANGED <<clock, cancelled, ledgerVars, riskVars, tradeLog, slotDays>>

DropOrder(s) ==
    /\ order' = [order EXCEPT ![s] = NoOrder]
    /\ Continue(s, "run", todo[s])

ExitNotHit(s) == AtStage(s, "exit") /\ Pass(s) /\ UNCHANGED eodCloseDate

ExitHit(s) ==
    /\ AtStage(s, "exit")
    /\ \E price \in Prices : TakePosition(s, price, Tail(todo[s]))

EodNotYet(s) ==
    /\ AtStage(s, "eod") /\ ~ShouldForceClose(Session[s], now[s])
    /\ Pass(s)
    /\ eodCloseDate' = IF EntriesAllowed(Session[s], now[s])
                       THEN [eodCloseDate EXCEPT ![s] = NoDay]
                       ELSE eodCloseDate

EodClose(s) ==
    /\ AtStage(s, "eod") /\ ShouldForceClose(Session[s], now[s])
    /\ eodCloseDate[s] # now[s].day
    /\ \E price \in Prices : TakePosition(s, price, <<"eodClosed">> \o Tail(todo[s]))

\* Seeded fault: the day is marked closed with the position still there.
EodDone_MarksAnyway(s) ==
    /\ AtStage(s, "eodClosed")
         \/ (AtStage(s, "eod") /\ ShouldForceClose(Session[s], now[s]))
    /\ Pass(s)
    /\ eodCloseDate' = [eodCloseDate EXCEPT ![s] = now[s].day]

\* The day counts as closed only once the position is really gone.
EodDone(s) ==
    /\ \/ AtStage(s, "eodClosed")
       \/ /\ AtStage(s, "eod") /\ ShouldForceClose(Session[s], now[s])
          /\ ~HasPos(s) \/ eodCloseDate[s] = now[s].day
    /\ Pass(s)
    /\ eodCloseDate' = IF HasPos(s) THEN eodCloseDate
                       ELSE [eodCloseDate EXCEPT ![s] = now[s].day]

CloseFilled(s) ==
    /\ pc[s] = "closing" /\ ~cancelled
    /\ Exec!ClosePosition(TickerOf[s], exitPrice[s], Commission(order[s]))
    /\ Continue(s, "closed", todo[s])
    /\ UNCHANGED <<clock, cancelled, riskVars, tradeLog, pos, order, exitPrice, slotDays>>

\* Seeded fault: every error is taken for a ghost.
CloseRefused_AlwaysGhost(s) ==
    /\ pc[s] = "closing"
    /\ cancelled \/ Exec!CloseResult(TickerOf[s]) # "ok"
    /\ Continue(s, "releasing", todo[s])
    /\ exitPrice' = [exitPrice EXCEPT ![s] = 0]
    /\ UNCHANGED <<clock, cancelled, ledgerVars, riskVars, tradeLog, pos, order, slotDays>>

\* On ErrNoOpenPosition the position is a ghost: the slot forgets it and only
\* releases its risk.  After any other error, here a cancelled context, it
\* takes the position back and leaves the reservation alone.
CloseRefused(s) ==
    /\ pc[s] = "closing"
    /\ cancelled \/ Exec!CloseResult(TickerOf[s]) # "ok"
    /\ IF cancelled
       THEN /\ pos' = [pos EXCEPT ![s] = order[s]]
            /\ DropOrder(s)
       ELSE /\ Continue(s, "releasing", todo[s])
            /\ UNCHANGED <<pos, order>>
    /\ exitPrice' = [exitPrice EXCEPT ![s] = 0]
    /\ UNCHANGED <<clock, cancelled, ledgerVars, riskVars, tradeLog, slotDays>>

\* RegisterLoss, RegisterClose and SaveClosedTrade.
BookResult(s) ==
    LET pnl == NetPnL(order[s], exitPrice[s]) IN
    /\ pc[s] = "closed"
    /\ Risk!RegisterClose(TickerOf[s], pnl)
    /\ tradeLog' = tradeLog + pnl
    /\ slotLoss' = IF pnl < 0 THEN [slotLoss EXCEPT ![s] = @ - pnl] ELSE slotLoss
    /\ DropOrder(s)
    /\ exitPrice' = [exitPrice EXCEPT ![s] = 0]
    /\ UNCHANGED <<clock, cancelled, ledgerVars, pos, tradesToday, eodCloseDate, riskResetDate>>

-----------------------------------------------------------------------------
(* Entries: processCandle                                                  *)

\* Seeded fault: the slot's own breaker is not asked.
MayEnter_BreakerIgnored(s) ==
    /\ EntriesAllowed(Session[s], now[s])
    /\ tradesToday[s] < MaxTradesPerDay

\* The session, the trade counter and the slot's breaker (CheckCircuitBreaker).
MayEnter(s) ==
    /\ EntriesAllowed(Session[s], now[s])
    /\ tradesToday[s] < MaxTradesPerDay
    /\ slotLoss[s] < SlotMaxDailyLoss

\* No signal, or a signal the slot itself turns down.
EntrySkipped(s) == AtStage(s, "entry") /\ Pass(s) /\ UNCHANGED eodCloseDate

EntrySignal(s, signal) ==
    /\ AtStage(s, "entry")
    /\ ~cancelled /\ ~HasPos(s)
    /\ MayEnter(s)
    /\ PositionSize(signal) > 0
    /\ order' = [order EXCEPT ![s] =
           [direction |-> signal.direction,
            quantity  |-> PositionSize(signal),
            price     |-> FillPrice(signal.direction, signal.price),
            stop      |-> signal.stop]]
    /\ Continue(s, "sizing", <<>>)
    /\ UNCHANGED <<clock, cancelled, ledgerVars, riskVars, tradeLog, pos, exitPrice, slotDays>>

\* Seeded fault: an order that the cap leaves without a unit is sent all the same.
SizeOrder_ZeroSent(s) ==
    /\ pc[s] = "sizing"
    /\ order' = [order EXCEPT ![s].quantity =
           IF cancelled THEN @ ELSE CapByCash(@, order[s].price, balance)]
    /\ Continue(s, "sized", <<>>)
    /\ UNCHANGED <<clock, cancelled, ledgerVars, riskVars, tradeLog, pos, exitPrice, slotDays>>

\* GetBalance and the cap; a cancelled context leaves the size uncapped.
SizeOrder(s) ==
    LET capped == CapByCash(order[s].quantity, order[s].price, balance)
        quantity == IF cancelled THEN order[s].quantity ELSE capped
    IN
    /\ pc[s] = "sizing"
    /\ IF quantity > 0
       THEN /\ order' = [order EXCEPT ![s].quantity = quantity]
            /\ Continue(s, "sized", <<>>)
       ELSE DropOrder(s)
    /\ UNCHANGED <<clock, cancelled, ledgerVars, riskVars, tradeLog, pos, exitPrice, slotDays>>

ReserveRisk(s) ==
    /\ pc[s] = "sized"
    /\ Risk!TryOpen(TickerOf[s], TradeRisk(order[s]))
    /\ IF Risk!TryOpenResult(TickerOf[s], TradeRisk(order[s])) = "ok"
       THEN Continue(s, "reserved", <<>>) /\ UNCHANGED order
       ELSE DropOrder(s)
    /\ UNCHANGED <<clock, cancelled, ledgerVars, tradeLog, pos, exitPrice, slotDays>>

\* The new position is checked at once against its own bar and the last price.
OpenFilled(s) ==
    /\ pc[s] = "reserved" /\ ~cancelled
    /\ Exec!OpenPosition(TickerOf[s], order[s])
    /\ pos' = [pos EXCEPT ![s] = order[s]]
    /\ order' = [order EXCEPT ![s] = NoOrder]
    /\ tradesToday' = [tradesToday EXCEPT ![s] = @ + 1]
    /\ Continue(s, "run", <<"exit">>)
    /\ UNCHANGED <<clock, cancelled, riskVars, tradeLog, exitPrice,
                   eodCloseDate, riskResetDate, slotLoss>>

OpenRefused(s) ==
    /\ pc[s] = "reserved"
    /\ cancelled \/ Exec!OpenResult(TickerOf[s], order[s]) # "ok"
    /\ Continue(s, "releasing", <<>>)
    /\ UNCHANGED <<clock, cancelled, ledgerVars, riskVars, tradeLog,
                   pos, order, exitPrice, slotDays>>

\* Seeded fault: the reservation of a refused order is kept.
ReleaseRisk_Kept(s) ==
    /\ pc[s] = "releasing"
    /\ DropOrder(s)
    /\ UNCHANGED <<clock, cancelled, ledgerVars, riskVars, tradeLog, pos, exitPrice, slotDays>>

\* ReleaseOpen, after a refused opening or a ghost.
ReleaseRisk(s) ==
    /\ pc[s] = "releasing"
    /\ Risk!ReleaseOpen(TickerOf[s])
    /\ DropOrder(s)
    /\ UNCHANGED <<clock, cancelled, ledgerVars, tradeLog, pos, exitPrice, slotDays>>

-----------------------------------------------------------------------------
(* The runner's reset loop, the clock, shutdown                            *)

\* globalDailyResetLoop of the runner of slot s.
ResetLoop(s) ==
    /\ IsSessionOpen(Session[s], clock)
    /\ Risk!ResetDaily(clock.day)
    /\ UNCHANGED <<clock, cancelled, ledgerVars, tradeLog, handlerVars, slotDays>>

\* What the 30-second timers guarantee before a minute is over: no handler is
\* older than a minute, and the resets and closings that are due are done.
Settled(s) ==
    /\ Idle(s) \/ now[s] = clock
    /\ IsSessionOpen(Session[s], clock) => tradingDate = clock.day
    /\ ShouldForceClose(Session[s], clock)
         => eodCloseDate[s] = clock.day \/ (Idle(s) /\ ~HasPos(s))

NextInstant ==
    IF clock.minute < DayMinutes - 1
    THEN [clock EXCEPT !.minute = @ + 1]
    ELSE [day |-> clock.day + 1, minute |-> 0]

Advance ==
    /\ ~cancelled
    /\ \A s \in Slots : Settled(s)
    /\ NextInstant.day <= Days
    /\ clock' = NextInstant
    /\ UNCHANGED <<cancelled, ledgerVars, riskVars, tradeLog, handlerVars, slotDays>>

Cancel ==
    /\ ~cancelled /\ cancelled' = TRUE
    /\ UNCHANGED <<clock, ledgerVars, riskVars, tradeLog, handlerVars, slotDays>>

Terminated == (\A s \in Slots : pc[s] = "stopped") /\ UNCHANGED vars

-----------------------------------------------------------------------------
Init ==
    /\ clock = [day |-> 1, minute |-> StartMinute]
    /\ cancelled = FALSE
    /\ Exec!Init
    /\ Risk!Init
    /\ tradeLog = 0
    /\ pc = [s \in Slots |-> "run"]
    /\ todo = [s \in Slots |-> <<>>]
    /\ now = [s \in Slots |-> NoInstant]
    /\ pos = [s \in Slots |-> NoOrder]
    /\ order = [s \in Slots |-> NoOrder]
    /\ exitPrice = [s \in Slots |-> 0]
    /\ tradesToday = [s \in Slots |-> 0]
    /\ eodCloseDate = [s \in Slots |-> NoDay]
    /\ riskResetDate = [s \in Slots |-> NoDay]
    /\ slotLoss = [s \in Slots |-> 0]

Exit(s) == ExitNotHit(s) \/ ExitHit(s)
Eod(s) == EodNotYet(s) \/ EodClose(s) \/ EodDone(s)
Close(s) == CloseFilled(s) \/ CloseRefused(s) \/ BookResult(s)
Entry(s) == EntrySkipped(s) \/ \E signal \in Signals : EntrySignal(s, signal)
Open(s) == SizeOrder(s) \/ ReserveRisk(s) \/ OpenFilled(s) \/ OpenRefused(s) \/ ReleaseRisk(s)

\* The rest of a handler that has begun.
Handler(s) == Exit(s) \/ Eod(s) \/ Close(s) \/ Entry(s) \/ Open(s)

Next ==
    \/ \E s \in Slots :
          \/ Tick(s) \/ Candle(s) \/ Timer(s) \/ Stop(s)
          \/ Handler(s)
          \/ ResetLoop(s)
    \/ Advance \/ Cancel \/ Terminated

\* A handler that has begun goes on; the reset timers and the clock run; and
\* select, which picks at random among ready events, comes to the EOD timer
\* however many ticks keep arriving.
Fairness ==
    /\ WF_vars(Advance)
    /\ \A s \in Slots :
          WF_vars(Handler(s)) /\ WF_vars(ResetLoop(s)) /\ SF_vars(Timer(s))

Spec == Init /\ [][Next]_vars
FairSpec == Spec /\ Fairness

-----------------------------------------------------------------------------
Places == {"run", "closing", "closed", "sizing", "sized", "reserved", "releasing", "stopped"}
Stages == {"exit", "eod", "eodClosed", "entry"}
DayNumbers == {NoDay} \cup 1..Days
Minutes == 0..(DayMinutes - 1)

ClockOK ==
    /\ clock \in [day : 1..Days, minute : Minutes]
    /\ cancelled \in BOOLEAN

LedgerOK ==
    /\ balance \in Int /\ tradeLog \in Int
    /\ positions \in [Tickers -> [direction : Exec!Directions, quantity : Nat \ {0},
                                  entryPrice : Int] \cup {Exec!NoPosition}]

HandlersOK ==
    /\ pc \in [Slots -> Places]
    /\ todo \in [Slots -> Seq(Stages)]
    /\ now \in [Slots -> [day : DayNumbers, minute : Minutes]]
    /\ pos \in [Slots -> Orders \cup {NoOrder}]
    /\ order \in [Slots -> Orders \cup {NoOrder}]
    /\ exitPrice \in [Slots -> Int]

SlotDaysOK ==
    /\ tradesToday \in [Slots -> 0..MaxTradesPerDay]
    /\ eodCloseDate \in [Slots -> DayNumbers]
    /\ riskResetDate \in [Slots -> DayNumbers]
    /\ slotLoss \in [Slots -> Nat]

TypeOK == ClockOK /\ LedgerOK /\ Risk!TypeOK /\ HandlersOK /\ SlotDaysOK

\* The slot owns the executor's position on its ticker: it holds it, or it
\* has sent the order that closes it.
Owns(s) == HasPos(s) \/ pc[s] = "closing"

Held(s) == IF pc[s] = "closing" THEN order[s] ELSE pos[s]

OwnerKnowsPosition ==
    \A s \in Slots : Owns(s) =>
        positions[TickerOf[s]] = [direction  |-> Held(s).direction,
                                  quantity   |-> Held(s).quantity,
                                  entryPrice |-> Held(s).price]

OneOwner ==
    \A r, s \in Slots : Owns(r) /\ Owns(s) /\ TickerOf[r] = TickerOf[s] => r = s

NoOrphan ==
    \A t \in Tickers :
        positions[t] # Exec!NoPosition => \E s \in Slots : TickerOf[s] = t /\ Owns(s)

\* The executor's positions and the slots' own records agree although they
\* change at different moments: an executor position has exactly one owner,
\* who knows its direction, size and price, and no slot believes in a position
\* the executor does not have.  It does not rest on the risk reservations.
OneOwnerPerPosition == OwnerKnowsPosition /\ OneOwner /\ NoOrphan

\* The slot is between TryOpen and the call that gives the reservation back.
UsesReservation(s) == HasPos(s) \/ pc[s] \in {"reserved", "releasing", "closing", "closed"}

\* A reservation outlives neither a refused order nor a closed position.
NoLeakedReservation ==
    \A t \in Risk!Registered : \E s \in Slots : TickerOf[s] = t /\ UsesReservation(s)

\* Every open position is backed by its own risk in the portfolio controller.
ReservationCoversPosition ==
    \A s \in Slots : Owns(s) => openPositions[TickerOf[s]] = TradeRisk(Held(s))

Notional(t) == positions[t].entryPrice * positions[t].quantity

\* The result of a closing that the executor has made and the slot has not booked.
Unbooked(s) == IF pc[s] = "closed" THEN NetPnL(order[s], exitPrice[s]) ELSE 0

\* Cash is neither made nor lost between the account and the trade log: free
\* cash and reserved notional are the deposit plus every result logged, or
\* about to be logged by a slot that has just closed.
LedgerAgrees ==
    balance + SumFunction([t \in Tickers |-> Notional(t)])
      = InitialBalance + tradeLog + SumFunction([s \in Slots |-> Unbooked(s)])

\* A day begins without positions: whatever the handlers were doing when EOD
\* came, what they opened before it is gone before the next opening.
NothingHeldOvernight ==
    \A s \in Slots :
        ~cancelled /\ clock.minute < Session[s].open => ~Owns(s)

\* A slot that lost its daily limit opens nothing more that day.
NoEntryAfterSlotLimit ==
    [][\A s \in Slots : ~HasPos(s) /\ HasPos(s)' /\ ~cancelled
                           => slotLoss[s] < SlotMaxDailyLoss]_vars

\* A position is always given up in the end, unless the run is cancelled.
EveryPositionIsClosed == \A s \in Slots : HasPos(s) ~> (~Owns(s) \/ cancelled)

\* The slots implement the lock on tickers, through every handler they run
\* at the same time: a ticker is held by the slots that own its position.
HoldersOf(t) == {s \in Slots : TickerOf[s] = t /\ Owns(s)}

Lock == INSTANCE TickerLock WITH holders <- [t \in Tickers |-> HoldersOf(t)]

ImplementsTickerLock == Lock!Spec
=============================================================================

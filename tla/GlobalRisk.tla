----------------------------- MODULE GlobalRisk -----------------------------
(***************************************************************************)
(* The portfolio risk controller, GlobalRiskController                     *)
(* (src/internal/engine/risk/global.go): one object shared by every        *)
(* strategy slot of a run.  Each method holds the controller's mutex, so   *)
(* one method is one action.                                               *)
(*                                                                         *)
(* Money is a whole number of risk units.  openPositions is a map in Go;   *)
(* here it is a total function whose value NotOpen stands for "no entry".  *)
(***************************************************************************)
EXTENDS Integers, FiniteSets

CONSTANTS
    Tickers,            \* the traded instruments
    Dates,              \* trading dates, as SessionClock.Today writes them
    NoDate,             \* the empty tradingDate of a new controller
    MaxRisk,            \* bound: the largest risk of one trade, in units
    MaxDailyLoss,       \* maxDailyLoss: deposit * MaxDailyLossPercent / 100
    MaxOpenRiskBudget,  \* maxOpenRiskBudget: risk per trade * parallel trades
    PnLBound            \* bound: |realizedPnL| explored within a day

ASSUME GlobalRiskAssumption ==
    /\ IsFiniteSet(Tickers)
    /\ NoDate \notin Dates
    /\ MaxRisk \in Nat
    /\ MaxDailyLoss \in Nat \ {0}
    /\ MaxOpenRiskBudget \in Nat
    /\ PnLBound \in Nat

NotOpen == -1

RiskAmounts == 0..MaxRisk

VARIABLES
    realizedPnL,    \* net result of the trades closed since the last reset
    openPositions,  \* ticker -> reserved risk, or NotOpen
    blocked,        \* the circuit breaker
    tradingDate     \* date of the last reset

riskVars == <<realizedPnL, openPositions, blocked, tradingDate>>

-----------------------------------------------------------------------------
(***************************************************************************)
(* sumOpenRiskLocked adds up the map.  The sum is written as the number of *)
(* reserved units <<ticker, k>>: finite-set cardinality is what the proofs *)
(* of GlobalRiskProofs can reason about without induction.                 *)
(***************************************************************************)
RiskUnits(open) ==
    {u \in Tickers \X (1..MaxRisk) : u[2] <= open[u[1]]}

OpenRisk(open) == Cardinality(RiskUnits(open))

Registered == {t \in Tickers : openPositions[t] # NotOpen}

\* The loss if every open position hit its stop, plus a new trade's risk.
Exposure(newRisk) == realizedPnL - OpenRisk(openPositions) - newRisk

\* Seeded fault: the budget is compared with the new trade alone.
TryOpenResult_BudgetPerTrade(t, newRisk) ==
    IF blocked THEN "circuit_breaker"
    ELSE IF newRisk > MaxOpenRiskBudget THEN "risk_budget"
    ELSE IF t \in Registered THEN "ticker_busy"
    ELSE IF Exposure(newRisk) <= -MaxDailyLoss THEN "circuit_breaker"
    ELSE "ok"

\* The answer of TryOpen, its checks in the order the code makes them.
TryOpenResult(t, newRisk) ==
    IF blocked THEN "circuit_breaker"
    ELSE IF OpenRisk(openPositions) + newRisk > MaxOpenRiskBudget THEN "risk_budget"
    ELSE IF t \in Registered THEN "ticker_busy"
    ELSE IF Exposure(newRisk) <= -MaxDailyLoss THEN "circuit_breaker"
    ELSE "ok"

-----------------------------------------------------------------------------
Init ==
    /\ realizedPnL = 0
    /\ openPositions = [t \in Tickers |-> NotOpen]
    /\ blocked = FALSE
    /\ tradingDate = NoDate

\* PreTradeCheck: the legacy breaker check, which also trips the breaker.
PreTradeCheck(newRisk) ==
    /\ blocked' = (blocked \/ Exposure(newRisk) <= -MaxDailyLoss)
    /\ UNCHANGED <<realizedPnL, openPositions, tradingDate>>

\* TryOpen checks breaker, budget and ticker and reserves, under one lock.  A
\* trade whose worst case crosses the daily limit trips the breaker itself.
TryOpen(t, newRisk) ==
    LET result == TryOpenResult(t, newRisk) IN
    /\ openPositions' = IF result = "ok"
                        THEN [openPositions EXCEPT ![t] = newRisk]
                        ELSE openPositions
    /\ blocked' = (result = "circuit_breaker")
    /\ UNCHANGED <<realizedPnL, tradingDate>>

\* AdjustOpenRisk: a no-op for a ticker that is not registered.
AdjustOpenRisk(t, newRisk) ==
    /\ openPositions' = IF t \in Registered
                        THEN [openPositions EXCEPT ![t] = newRisk]
                        ELSE openPositions
    /\ UNCHANGED <<realizedPnL, blocked, tradingDate>>

\* Seeded fault: a reservation counted down instead of deleted.
ReleaseOpen_CountedDown(t) ==
    /\ openPositions' = [openPositions EXCEPT ![t] = openPositions[t] - 1]
    /\ UNCHANGED <<realizedPnL, blocked, tradingDate>>

\* ReleaseOpen drops the reservation without a result.
ReleaseOpen(t) ==
    /\ openPositions' = [openPositions EXCEPT ![t] = NotOpen]
    /\ UNCHANGED <<realizedPnL, blocked, tradingDate>>

\* Seeded fault: the breaker looks at realized losses only.
RegisterClose_RealizedOnly(t, pnl) ==
    /\ openPositions' = [openPositions EXCEPT ![t] = NotOpen]
    /\ realizedPnL' = realizedPnL + pnl
    /\ blocked' = (blocked \/ realizedPnL' <= -MaxDailyLoss)
    /\ UNCHANGED tradingDate

\* Seeded fault: the breaker is recomputed, so a winning trade clears it.
RegisterClose_Unlatched(t, pnl) ==
    /\ openPositions' = [openPositions EXCEPT ![t] = NotOpen]
    /\ realizedPnL' = realizedPnL + pnl
    /\ blocked' = (realizedPnL' - OpenRisk(openPositions') <= -MaxDailyLoss)
    /\ UNCHANGED tradingDate

\* RegisterClose drops the reservation and books the result; what is left of
\* the day's limit decides the breaker, which is never cleared here.
RegisterClose(t, pnl) ==
    /\ openPositions' = [openPositions EXCEPT ![t] = NotOpen]
    /\ realizedPnL' = realizedPnL + pnl
    /\ blocked' = (blocked \/ realizedPnL' - OpenRisk(openPositions') <= -MaxDailyLoss)
    /\ UNCHANGED tradingDate

\* Seeded fault: every runner's call resets, not the first of a date.
ResetDaily_EveryCall(date) ==
    /\ tradingDate' = date
    /\ realizedPnL' = 0
    /\ openPositions' = [t \in Tickers |-> NotOpen]
    /\ blocked' = FALSE

\* ResetDaily: idempotent for a date, otherwise it forgets the whole day,
\* the reservations of positions that are still open included.
ResetDaily(date) ==
    IF date = tradingDate
    THEN UNCHANGED riskVars
    ELSE /\ tradingDate' = date
         /\ realizedPnL' = 0
         /\ openPositions' = [t \in Tickers |-> NotOpen]
         /\ blocked' = FALSE

-----------------------------------------------------------------------------
(***************************************************************************)
(* Every legal sequence of calls.  AdjustOpenRisk is documented for a      *)
(* position that shrinks, so its new risk is at most the old one.          *)
(***************************************************************************)
Next ==
    \/ \E r \in RiskAmounts : PreTradeCheck(r)
    \/ \E t \in Tickers, r \in RiskAmounts : TryOpen(t, r)
    \/ \E t \in Tickers, r \in RiskAmounts :
          (t \in Registered => r <= openPositions[t]) /\ AdjustOpenRisk(t, r)
    \/ \E t \in Tickers : ReleaseOpen(t)
    \/ \E t \in Tickers, total \in -PnLBound..PnLBound :
          RegisterClose(t, total - realizedPnL)
    \/ \E date \in Dates : ResetDaily(date)

Spec == Init /\ [][Next]_riskVars

-----------------------------------------------------------------------------
TypeOK ==
    /\ realizedPnL \in Int
    /\ openPositions \in [Tickers -> RiskAmounts \cup {NotOpen}]
    /\ blocked \in BOOLEAN
    /\ tradingDate \in Dates \cup {NoDate}

\* The risk reserved by open positions never exceeds the portfolio budget,
\* whatever order slots call TryOpen, ReleaseOpen, RegisterClose in.
BudgetRespected == OpenRisk(openPositions) <= MaxOpenRiskBudget

\* While the breaker is off, the day would still end above -MaxDailyLoss if
\* every open position were stopped out at its reserved risk.
WorstCaseCovered ==
    ~blocked => realizedPnL - OpenRisk(openPositions) > -MaxDailyLoss

\* A tripped breaker stays tripped, and no ticker gains a reservation, until
\* a reset with another date.
BlockedUntilNewDate ==
    [][blocked /\ tradingDate' = tradingDate
         => /\ blocked'
            /\ \A t \in Tickers : openPositions'[t] <= openPositions[t]]_riskVars
=============================================================================

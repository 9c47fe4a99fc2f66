------------------------------- MODULE Sizing -------------------------------
(***************************************************************************)
(* What an order costs and how large it is: the slot's sizing              *)
(* (src/internal/engine/risk/manager.go) and the trading costs             *)
(* (src/internal/engine/costs/costs.go).  The live slot and both backtests *)
(* call the same functions.  An order, and a position, is a record         *)
(* [direction, quantity, price, stop].                                     *)
(***************************************************************************)
EXTENDS Integers

CONSTANTS
    RiskPerTrade,       \* deposit * RiskPerTradePct / 100
    UtilPct,            \* CashUtilizationPct, in percent
    Slippage,           \* price units lost on each leg
    CommissionPerUnit   \* round-trip commission of one unit

Distance(a, b) == IF a > b THEN a - b ELSE b - a
Lesser(a, b) == IF a < b THEN a ELSE b

\* FillPrice: slippage always goes against the trade.
FillPrice(direction, price) ==
    IF direction = "BUY" THEN price + Slippage ELSE price - Slippage

CloseSide(direction) == IF direction = "SELL" THEN "BUY" ELSE "SELL"

\* CalculatePositionSize: whole units whose stop-out costs RiskPerTrade.
PositionSize(signal) ==
    IF signal.price = signal.stop THEN 0
    ELSE RiskPerTrade \div Distance(signal.price, signal.stop)

\* CapQuantityByCash over UtilPct of the free cash.
CapByCash(quantity, price, cash) ==
    IF price <= 0 \/ cash <= 0 THEN 0
    ELSE Lesser(quantity, (cash * UtilPct) \div (100 * price))

TradeRisk(o) == Distance(o.price, o.stop) * o.quantity

Commission(o) == CommissionPerUnit * o.quantity

\* CalcPnL: the result before costs.
GrossPnL(o, price) ==
    (IF o.direction = "BUY" THEN price - o.price ELSE o.price - price) * o.quantity

NetPnL(o, price) == GrossPnL(o, price) - Commission(o)
=============================================================================

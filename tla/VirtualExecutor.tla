--------------------------- MODULE VirtualExecutor ---------------------------
(***************************************************************************)
(* The paper-trading executor, VirtualExecutor                             *)
(* (src/internal/engine/execution/virtual_executor.go): one cash account   *)
(* and at most one position per ticker, shared by every strategy slot.     *)
(* ExecuteOrder holds the mutex, so opening and closing are single actions.*)
(* positions is a map in Go; NoPosition stands for "no entry".             *)
(***************************************************************************)
EXTENDS Integers

CONSTANTS
    Tickers,
    InitialBalance      \* the account's starting cash

VARIABLES
    balance,            \* free cash
    positions           \* ticker -> open position, or NoPosition

ledgerVars == <<balance, positions>>

Directions == {"BUY", "SELL"}

NoPosition == [direction |-> "none", quantity |-> 0, entryPrice |-> 0]

Init ==
    /\ balance = InitialBalance
    /\ positions = [t \in Tickers |-> NoPosition]

\* Seeded fault: the map entry of a ticker that is open is overwritten.
OpenResult_Overwrites(t, order) ==
    IF balance < order.price * order.quantity THEN "insufficient_funds" ELSE "ok"

\* The answer of openPosition.  A long and a short both reserve the notional.
OpenResult(t, order) ==
    IF positions[t] # NoPosition THEN "ticker_already_open"
    ELSE IF balance < order.price * order.quantity THEN "insufficient_funds"
    ELSE "ok"

OpenPosition(t, order) ==
    /\ OpenResult(t, order) = "ok"
    /\ balance' = balance - order.price * order.quantity
    /\ positions' = [positions EXCEPT ![t] =
           [direction  |-> order.direction,
            quantity   |-> order.quantity,
            entryPrice |-> order.price]]

\* Seeded fault: a short pays out like a long.
Proceeds_LongOnly(position, closePrice) == closePrice * position.quantity

\* What closing returns to the account: the sale's proceeds of a long, or a
\* short's reserved notional plus its result.
Proceeds(position, closePrice) ==
    IF position.direction = "BUY"
    THEN closePrice * position.quantity
    ELSE (2 * position.entryPrice - closePrice) * position.quantity

CloseResult(t) ==
    IF positions[t] = NoPosition THEN "no_open_position" ELSE "ok"

\* The executor closes its own quantity, whatever quantity the order names.
ClosePosition(t, closePrice, commission) ==
    /\ CloseResult(t) = "ok"
    /\ balance' = balance + Proceeds(positions[t], closePrice) - commission
    /\ positions' = [positions EXCEPT ![t] = NoPosition]
=============================================================================

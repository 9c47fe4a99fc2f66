----------------------------- MODULE TickerLock -----------------------------
(***************************************************************************)
(* What the framework promises about positions ("one-position-per-ticker", *)
(* src/internal/app/dependencies.go:103-106): a ticker is taken only when  *)
(* no slot holds it, and only the slot that holds it gives it back.        *)
(***************************************************************************)
CONSTANTS
    Tickers,
    Slots,      \* the strategies: one per experiment and ticker
    TickerOf    \* the ticker a slot trades

VARIABLE holders    \* ticker -> the slots that have a position on it

Init == holders = [t \in Tickers |-> {}]

Acquire(s) ==
    /\ holders[TickerOf[s]] = {}
    /\ holders' = [holders EXCEPT ![TickerOf[s]] = {s}]

Release(s) ==
    /\ holders[TickerOf[s]] = {s}
    /\ holders' = [holders EXCEPT ![TickerOf[s]] = {}]

Next == \E s \in Slots : Acquire(s) \/ Release(s)

Spec == Init /\ [][Next]_holders
=============================================================================

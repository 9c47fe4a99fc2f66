----------------------------- MODULE TradeAudit -----------------------------
(***************************************************************************)
(* The marks a closed trade is stored with: tradeaudit.AnnotateTrade       *)
(* (src/internal/engine/tradeaudit/audit.go), which the live strategy and  *)
(* the backtest both call with the position they close.  A mark says that  *)
(* a price of the trade is not where its signal, stop or target was; what  *)
(* it does to no trade is to stop it.                                      *)
(*                                                                         *)
(* A drift is compared with a share of R, so both sides are multiplied     *)
(* out.  HOLD_VS_TF, which asks for the seconds a position was held inside *)
(* one bar, has no counterpart where time is counted in bars.              *)
(***************************************************************************)
EXTENDS Position, FiniteSets

CONSTANT RewardRatio    \* of the experiment, in parts of R; 0: not checked

ASSUME TradeAuditAssumption == RewardRatio \in Nat

Distance(x, y) == IF x > y THEN x - y ELSE y - x

Warnings ==
    {"LIMIT_VS_CLOSE", "ENTRY_PAST_STOP", "RR_MISMATCH", "SL_FILL_DRIFT", "TP_FILL_DRIFT"}
Remarks == {"SAME_BAR_SL", "TRAIL_DEAD"}

PastStop(direction, stop, price) ==
    price > 0 /\ stop > 0 /\ NotWorse(direction, stop, price)

\* LimitDriftWarnR is a half, FillDriftWarnR a quarter.
LimitDrifts(pos, barClose) == barClose > 0 /\ 2 * Distance(pos.entry, barClose) >= pos.r
FillDrifts(exit, level, pos) == level > 0 /\ 4 * Distance(exit, level) > pos.r

\* RRMismatchTol: the target may be a twentieth off the configured ratio.
RatioMisses(pos) ==
    /\ RewardRatio > 0 /\ pos.take > 0
    /\ 20 * Distance(Distance(pos.take, pos.entry) * PartsOfR, RewardRatio * pos.r)
         > RewardRatio * pos.r

\* Of the position as it was opened: all it reads stays as it is.
ValidateOpen(pos, barClose) ==
    (IF LimitDrifts(pos, barClose) THEN {"LIMIT_VS_CLOSE"} ELSE {})
      \cup (IF PastStop(pos.direction, pos.stop, barClose) THEN {"ENTRY_PAST_STOP"} ELSE {})
      \cup (IF RatioMisses(pos) THEN {"RR_MISMATCH"} ELSE {})

\* The trail could not have begun before the target.
TrailDead(pos) ==
    pos.stage = 0 /\ pos.take > 0 /\ ActivationR * pos.r > Distance(pos.take, pos.entry) * PartsOfR

ValidateClose(pos, reason, exit, sameBar) ==
    CASE reason = "STOP_LOSS" ->
            (IF sameBar THEN {"SAME_BAR_SL"} ELSE {})
              \cup (IF FillDrifts(exit, pos.stop, pos) THEN {"SL_FILL_DRIFT"} ELSE {})
      [] reason = "TAKE_PROFIT" ->
            (IF FillDrifts(exit, pos.take, pos) THEN {"TP_FILL_DRIFT"} ELSE {})
              \cup (IF TrailDead(pos) THEN {"TRAIL_DEAD"} ELSE {})
      [] OTHER -> {}

\* A position without a risk of its own is not judged.
AnnotateTrade(pos, reason, exit, sameBar) ==
    LET codes == IF pos.r <= 0 THEN {}
                 ELSE pos.openCodes \cup ValidateClose(pos, reason, exit, sameBar)
    IN [codes |-> codes,
        severity |-> IF codes \cap Warnings # {} THEN "warn"
                     ELSE IF codes # {} THEN "info" ELSE ""]
=============================================================================

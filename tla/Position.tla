------------------------------ MODULE Position ------------------------------
(***************************************************************************)
(* An open position and its trailing stop: position.State and its          *)
(* functions (src/internal/engine/position/position.go), trailing.Apply    *)
(* (src/internal/engine/trailing/trailing.go).  The live strategy and the  *)
(* backtest both use them, so a position is a value here and every         *)
(* function returns the new one.                                           *)
(*                                                                         *)
(* Prices are integers, multiples of R are counted in parts of R.  A BUY   *)
(* gains when the price rises and a SELL when it falls: Better and Toward  *)
(* say both.  MAE, which only reports read, is left out.                   *)
(***************************************************************************)
EXTENDS Integers

CONSTANTS
    PartsOfR,           \* bound: how finely the multiples of R are counted
    ActivationR,        \* trailing.Config, normalized
    DiscreteStepR,
    StageMax,
    BreakevenR,
    BreakevenOffset     \* what the commission costs, when BreakevenR is 0

ASSUME PositionAssumption ==
    /\ PartsOfR \in Nat \ {0}
    /\ ActivationR \in Nat \ {0} /\ DiscreteStepR \in Nat \ {0}
    /\ StageMax \in Nat \ {0}
    /\ BreakevenR \in Nat /\ BreakevenOffset \in Nat

\* x is a better price than y for a position to have reached.
Better(direction, x, y) == IF direction = "BUY" THEN x > y ELSE x < y

NotWorse(direction, x, y) == x = y \/ Better(direction, x, y)

\* The price a distance away from x, on the side the position gains.
Toward(direction, x, distance) ==
    IF direction = "BUY" THEN x + distance ELSE x - distance

\* multiple * pos.RDistance, in price units.
InPrice(multiple, pos) == (multiple * pos.r) \div PartsOfR

BestOf(direction, x, y) == IF Better(direction, x, y) THEN x ELSE y
WorstOf(direction, x, y) == IF Better(direction, x, y) THEN y ELSE x

-----------------------------------------------------------------------------
(* position.go                                                             *)

\* openCodes are the marks that the audit will find in how it was opened.
NewFromSignal(signal, bar) ==
    [direction |-> signal.direction, entry |-> signal.price,
     stop |-> signal.stop, take |-> signal.take,
     r |-> IF signal.price > signal.stop THEN signal.price - signal.stop
                                         ELSE signal.stop - signal.price,
     stage |-> 0, mfe |-> signal.price, entryBar |-> bar.time, entryClose |-> bar.close,
     atClose |-> signal.atClose, openCodes |-> {}]

UpdateMFE(pos, price) ==
    [pos EXCEPT !.mfe = BestOf(pos.direction, price, @)]

\* The stop is asked before the target; a target of 0 is switched off.
CheckExit(pos, price) ==
    IF NotWorse(pos.direction, pos.stop, price) THEN "STOP_LOSS"
    ELSE IF pos.take > 0 /\ NotWorse(pos.direction, price, pos.take) THEN "TAKE_PROFIT"
    ELSE ""

\* A level that was crossed inside a bar is filled at the level.
ExitFillPrice(pos, reason, market) ==
    CASE reason = "STOP_LOSS" /\ pos.stop > 0 -> pos.stop
      [] reason = "TAKE_PROFIT" /\ pos.take > 0 -> pos.take
      [] OTHER -> market

\* Seeded fault: a stop the market jumped over is filled at its level.
ExitFillPriceAt_Level(pos, reason, tradable) == ExitFillPrice(pos, reason, tradable)

\* A stop the market jumped over is filled at the worse of level and market.
ExitFillPriceAt(pos, reason, tradable) ==
    LET level == ExitFillPrice(pos, reason, tradable) IN
    IF reason = "STOP_LOSS" THEN WorstOf(pos.direction, level, tradable) ELSE level

\* Only a stop counts inside the bar of the entry, and only for a limit fill.
SameBarExitAfterFill(pos, bar) ==
    IF /\ pos.entry > 0 /\ ~pos.atClose /\ pos.stop > 0
       /\ IF pos.direction = "BUY" THEN bar.low <= pos.stop ELSE bar.high >= pos.stop
    THEN "STOP_LOSS" ELSE ""

\* Open, the worse extreme, the better one, close.
IntrabarPath(bar, direction) ==
    IF direction = "BUY" THEN <<bar.open, bar.low, bar.high, bar.close>>
                         ELSE <<bar.open, bar.high, bar.low, bar.close>>

TrailPrice(bar, direction) == IF direction = "SELL" THEN bar.low ELSE bar.high

-----------------------------------------------------------------------------
(* trailing.go                                                             *)

TriggerReached(pos, price, triggerR) ==
    NotWorse(pos.direction, price, Toward(pos.direction, pos.entry, InPrice(triggerR, pos)))

BreakevenSL(pos) ==
    Toward(pos.direction, pos.entry,
           IF BreakevenR > 0 THEN InPrice(BreakevenR, pos) ELSE BreakevenOffset)

LockSL(pos, lockR) == Toward(pos.direction, pos.entry, InPrice(lockR, pos))

\* The stop only ever moves towards the gain.
MoveSL(pos, newSL) == [pos EXCEPT !.stop = BestOf(pos.direction, newSL, @)]

\* One pass of the loop: a stage is entered once, when its trigger is reached.
EnterStage(pos, stage, price) ==
    IF pos.stage >= stage
         \/ ~TriggerReached(pos, price, ActivationR + (stage - 1) * DiscreteStepR)
    THEN pos
    ELSE [MoveSL(pos, IF stage = 1
                      THEN BreakevenSL(pos)
                      ELSE LockSL(pos, ActivationR + (stage - 2) * DiscreteStepR))
             EXCEPT !.stage = stage]

EnterStages(pos, price) ==
    LET upTo[stage \in 0..StageMax] ==
            IF stage = 0 THEN pos ELSE EnterStage(upTo[stage - 1], stage, price)
    IN upTo[StageMax]

\* Behind the last stage the stop follows the best price at a distance of R.
ContinuousSL(pos) == MoveSL(pos, Toward(pos.direction, pos.mfe, -pos.r))

Apply(pos, price) ==
    LET entered == EnterStages(pos, price) IN
    IF pos.r <= 0 THEN pos
    ELSE IF entered.stage >= StageMax THEN ContinuousSL(entered)
    ELSE entered
=============================================================================

----------------------------- MODULE MCTrading -----------------------------
(***************************************************************************)
(* Instances of Trading for TLC.                                           *)
(***************************************************************************)
EXTENDS Trading, TLC

CONSTANTS a, b, c, t, u

SharedTicker == [s \in Slots |-> IF s = c THEN u ELSE t]

\* Two experiments: one trades every day from minute 2 to EOD at minute 3, the
\* last of the day; the other's session is earlier and misses the second day.
Late == [open |-> 1, delay |-> 1, eod |-> 3, days |-> 1..Days]
Early == [open |-> 0, delay |-> 1, eod |-> 2, days |-> {1}]

TwoSessions == [s \in Slots |-> IF s = c THEN Early ELSE Late]
OneSession == [s \in Slots |-> Late]

Long == [direction |-> "BUY", price |-> 3, stop |-> 2]
Short == [direction |-> "SELL", price |-> 3, stop |-> 4]
LongOnly == {Long}
BothWays == {Long, Short}

\* a and b differ in nothing but their names.
SameTickerSlots == Permutations({a, b})
=============================================================================

----------------------------- MODULE RealTrading -----------------------------
(***************************************************************************)
(* Trading with real money (trading_mode: real): the orders of the one     *)
(* slot go to the broker over HTTP (src/internal/engine/broker/client.go)  *)
(* with the access token that the stream loop renews, and what the slot    *)
(* believes to hold (src/internal/strategy/selfmanaged/selfmanaged.go) is  *)
(* set beside what the account holds.                                      *)
(*                                                                         *)
(* Quantities are signed: a long position is positive.  An order is one    *)
(* step, for nobody sees the account while it is on its way.               *)
(***************************************************************************)
EXTENDS MarketStream

CONSTANTS
    Lots,       \* the quantities of an order
    Bound       \* bound: lots that may be lost, resting or expired at a time

ASSUME RealTradingAssumption == Lots \subseteq Nat \ {0} /\ Bound \in Nat

VARIABLES
    believed,   \* SelfManagedStrategy.pos: what the slot thinks it holds
    account,    \* what the broker holds for it
    resting,    \* limit orders accepted and not filled
    day,        \* "open", "over" (EOD has come) or "done" (eodCloseDate is today)
    lost,       \* sum of the orders carried out whose answer was lost
    expired     \* sum of the limit orders that were never filled

orders == <<believed, account, resting, day, lost, expired>>
realVars == <<vars, orders>>

Size(n) == IF n < 0 THEN -n ELSE n

\* Bounds what is resting, lost and expired, taken together.
Within(r, l, e) == Size(r) + Size(l) + Size(e) <= Bound

-----------------------------------------------------------------------------
(* ExecuteOrder, as the broker sees it                                     *)

\* A market order is carried out; a limit order may also wait in the book.
CarriedOut(quantity, limit) ==
    /\ network /\ token
    /\ \/ account' = account + quantity /\ UNCHANGED resting
       \/ limit /\ resting' = resting + quantity /\ UNCHANGED account

\* The answer comes, with status 200 or 201.
Accepted(quantity, limit) ==
    /\ CarriedOut(quantity, limit)
    /\ UNCHANGED lost /\ Within(resting', lost, expired)

\* No connection, HTTP 401 for a token that has expired (which the client does
\* not renew here), or any other refusal.
Refused == UNCHANGED <<account, resting, lost>>

\* The order is carried out and its answer does not come within the timeout,
\* or cannot be read: an error like any other.
AnswerLost(quantity, limit) ==
    /\ CarriedOut(quantity, limit)
    /\ lost' = lost + quantity /\ Within(resting', lost', expired)

-----------------------------------------------------------------------------
(* The slot                                                                *)

\* An entry, on a bar of the stream: the slot takes an accepted limit order for
\* a position.
Open(quantity) ==
    /\ phase = "session" /\ day = "open" /\ believed = 0
    /\ \/ Accepted(quantity, TRUE) /\ believed' = quantity
       \/ Refused /\ UNCHANGED believed
       \/ AnswerLost(quantity, TRUE) /\ UNCHANGED believed
    /\ UNCHANGED <<day, expired, vars>>

\* A stop or target on a tick, or EOD on a tick or the timer.
MayClose == believed # 0 /\ (phase = "session" \/ day = "over")

CloseAccepted ==
    /\ MayClose
    /\ Accepted(-believed, FALSE) /\ believed' = 0
    /\ UNCHANGED <<day, expired, vars>>

\* Seeded fault: the position is not put back after a refusal.
CloseRefused_Forgets ==
    /\ MayClose
    /\ Refused /\ believed' = 0
    /\ UNCHANGED <<day, expired, vars>>

\* The position is put back, to be closed by a later tick or timer.
CloseRefused ==
    /\ MayClose
    /\ Refused /\ UNCHANGED believed
    /\ UNCHANGED <<day, expired, vars>>

\* The same: the next attempt is a new order with an id of its own.
CloseAnswerLost ==
    /\ MayClose
    /\ AnswerLost(-believed, FALSE) /\ UNCHANGED believed
    /\ UNCHANGED <<day, expired, vars>>

\* Seeded fault: the day is marked as closed after one attempt.
EodDone_AfterOneTry ==
    /\ day = "over" /\ day' = "done"
    /\ UNCHANGED <<believed, account, resting, lost, expired, vars>>

\* checkEOD marks the day once the slot holds nothing.
EodDone ==
    /\ day = "over" /\ believed = 0 /\ day' = "done"
    /\ UNCHANGED <<believed, account, resting, lost, expired, vars>>

-----------------------------------------------------------------------------
(* The world                                                               *)

SessionOver ==
    /\ day = "open" /\ day' = "over"
    /\ UNCHANGED <<believed, account, resting, lost, expired, vars>>

\* The evening lasts until the slot is done; ClosedInTheEnd asks whether it is.
NextDay ==
    /\ day = "done" /\ day' = "open"
    /\ UNCHANGED <<believed, account, resting, lost, expired, vars>>

LimitFills ==
    /\ resting # 0 /\ network
    /\ account' = account + resting /\ resting' = 0
    /\ UNCHANGED <<believed, day, lost, expired, vars>>

LimitExpires ==
    /\ resting # 0
    /\ expired' = expired + resting /\ resting' = 0
    /\ Within(resting', lost, expired')
    /\ UNCHANGED <<believed, account, day, lost, vars>>

\* A download of candles, for a chart, renews the token (see History).
ChartRenewsToken ==
    /\ network /\ refresh /\ ~token
    /\ token' = TRUE
    /\ UNCHANGED <<loop, network, refresh, clock, alarm, outage, orders>>

-----------------------------------------------------------------------------
RealInit ==
    /\ Init
    /\ believed = 0 /\ account = 0 /\ resting = 0 /\ lost = 0 /\ expired = 0
    /\ day = "open"

RealNext ==
    \/ Next /\ UNCHANGED orders
    \/ \E lots \in Lots : Open(lots) \/ Open(-lots)
    \/ CloseAccepted \/ CloseRefused \/ CloseAnswerLost \/ EodDone
    \/ SessionOver \/ NextDay
    \/ LimitFills \/ LimitExpires \/ ChartRenewsToken

\* The broker accepts a closing order that reaches it with a good token again
\* and again; the EOD timer of the slot asks every 30 seconds.
RealFairness ==
    /\ WF_realVars(Loop /\ UNCHANGED orders)
    /\ WF_realVars(Tick /\ UNCHANGED orders)
    /\ WF_realVars(~network /\ SessionEnds /\ UNCHANGED orders)
    /\ SF_realVars(day = "over" /\ CloseAccepted)

RealSpec == RealInit /\ [][RealNext]_realVars
FairRealSpec == RealSpec /\ RealFairness

-----------------------------------------------------------------------------
\* What the slot believes and what the account holds part in three ways only:
\* an order was carried out and its answer lost, an entry it takes for filled
\* still rests, or never was filled.  Refusals and expired tokens, at whatever
\* point of an entry or an exit, leave the books together (client.go
\* ExecuteOrder, selfmanaged.go closePosition).
BooksPartOnlyBySilence == account + resting + expired = believed + lost

\* A position is closed after EOD, although orders never renew the access token:
\* if the server can be reached from some moment on and sessions of the stream
\* keep ending, the loop renews it for them.  With a session that stands for
\* ever, nothing does.
ClosedInTheEnd ==
    <>[](network /\ refresh) /\ []<>(phase # "session")
        => (day = "over" ~> believed = 0)
=============================================================================

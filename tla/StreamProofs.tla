---------------------------- MODULE StreamProofs ----------------------------
(***************************************************************************)
(* The stream loop with its alarm (MarketStream) and the orders that share *)
(* the client with it (RealTrading).  For every backoff, alarm delay and   *)
(* day, the all-clear reaches whoever was called, and nobody is called for *)
(* a break that is short by more than the rounding.  For every size of     *)
(* orders, the books of a slot that trades real money part only by lost    *)
(* answers and by limit orders that do not fill.                           *)
(***************************************************************************)
EXTENDS RealTrading, TLAPS

\* The alarm remembers exactly whether the person believes the stream is down.
AlarmKnows == lastAlert = Unset <=> told = "ok"

\* The alarm measures the outage, and no more than the outage.
AlarmMeasures ==
    /\ downSince <= outage
    /\ phase = "session" => downSince = Unset

IInv ==
    /\ TypeOK /\ AlarmKnows /\ AlarmMeasures
    /\ AllClearIsGiven /\ ShortBreaksAreSilent

\* The constants as numbers.
LEMMA Numbers ==
    /\ MaxBackoff \in Nat /\ MaxBackoff >= 1
    /\ AlertAfter \in Nat /\ AlertAfter >= 1
    /\ AlertRepeat \in Nat /\ AlertRepeat >= 1
    /\ MinuteTicks \in Nat /\ MinuteTicks >= 1
    /\ DayLength \in Nat /\ DayLength >= 1
BY MarketStreamAssumption

\* Doubling stops at the ceiling.
LEMMA NextBackoffInRange == TypeOK => NextBackoff \in 1..MaxBackoff
BY Numbers DEF TypeOK, NextBackoff

\* Rounding makes an age older by half a minute at most.
LEMMA RoundedAddsHalfAMinute ==
    ASSUME NEW age \in Nat
    PROVE  Rounded(age) \in Int /\ 2 * Rounded(age) <= 2 * age + MinuteTicks
<1> DEFINE rest == age % MinuteTicks
<1>1. rest \in Nat
  BY Numbers
<1>2. Rounded(age) = IF 2 * rest < MinuteTicks THEN age - rest
                     ELSE age - rest + MinuteTicks
  BY DEF Rounded
<1> HIDE DEF rest
<1> QED
  BY <1>1, <1>2, Numbers

\* An outage that lasted long enough does so when it is longer.
LEMMA LongerIsLongEnough ==
    ASSUME NEW old \in Int, NEW new \in Int, new >= old
    PROVE  2 * old + MinuteTicks >= 2 * AlertAfter => 2 * new + MinuteTicks >= 2 * AlertAfter
BY Numbers

\* A failure keeps what the alarm knows.
LEMMA DownInv ==
    ASSUME IInv, NEW cause \in Causes, Down(cause), outage' = outage
    PROVE  /\ downSince' \in 0..AlertAfter /\ lastAlert' \in Unset..AlertRepeat
           /\ told' \in {"ok"} \cup Causes
           /\ AlarmKnows' /\ ShortBreaksAreSilent' /\ downSince' <= outage'
<1> DEFINE since  == IF downSince = Unset THEN 0 ELSE downSince
           silent == lastAlert # Unset /\ lastAlert < AlertRepeat
           raised == ~silent /\ (cause = "auth" \/ (Rounded(since) >= AlertAfter /\ ~Night))
<1>1. /\ downSince' = since /\ lastAlert' = (IF raised THEN 0 ELSE lastAlert)
      /\ told' = (IF raised THEN cause ELSE told)
  BY DEF Down
<1>2. /\ downSince \in Unset..AlertAfter /\ lastAlert \in Unset..AlertRepeat
      /\ outage \in 0..AlertAfter /\ told \in {"ok"} \cup Causes /\ downSince <= outage
  BY DEF IInv, TypeOK, AlarmMeasures
<1>3. since \in 0..AlertAfter /\ since <= outage
  BY <1>2, Numbers DEF Unset
<1>4. lastAlert' \in Unset..AlertRepeat /\ told' \in {"ok"} \cup Causes
  BY <1>1, <1>2, Numbers DEF Unset
<1>5. AlarmKnows'
  <2>1. CASE raised
    BY <1>1, <2>1 DEF AlarmKnows, Unset, Causes
  <2>2. CASE ~raised
    BY <1>1, <2>2 DEF AlarmKnows, IInv
  <2> QED
    BY <2>1, <2>2
<1>6. ShortBreaksAreSilent'
  <2>1. CASE raised
    <3>1. cause = "network" => Rounded(since) >= AlertAfter
      BY <2>1
    <3>2. Rounded(since) \in Int /\ 2 * Rounded(since) <= 2 * since + MinuteTicks
      BY <1>3, RoundedAddsHalfAMinute
    <3>3. cause = "network" => 2 * outage + MinuteTicks >= 2 * AlertAfter
      BY <1>2, <1>3, <3>1, <3>2, Numbers
    <3> QED
      BY <1>1, <2>1, <3>3 DEF ShortBreaksAreSilent
  <2>2. CASE ~raised
    BY <1>1, <2>2 DEF ShortBreaksAreSilent, IInv
  <2> QED
    BY <2>1, <2>2
<1> QED
  BY <1>1, <1>3, <1>4, <1>5, <1>6

\* After a failure the loop pauses.
LEMMA PauseInv ==
    ASSUME IInv, NEW cause \in Causes, Down(cause), Pause,
           UNCHANGED <<backoff, environment, outage>>
    PROVE  IInv'
<1>1. /\ downSince' \in 0..AlertAfter /\ lastAlert' \in Unset..AlertRepeat
      /\ told' \in {"ok"} \cup Causes
      /\ AlarmKnows' /\ ShortBreaksAreSilent' /\ downSince' <= outage'
  BY DownInv
<1>2. TypeOK'
  BY <1>1, Numbers DEF IInv, TypeOK, Pause, environment, Unset
<1> QED
  BY <1>1, <1>2 DEF IInv, AlarmMeasures, AllClearIsGiven, Pause

\* The loop starts with nobody called.
LEMMA InitInv == Init => IInv
BY Numbers DEF Init, IInv, TypeOK, AlarmKnows, AlarmMeasures, AllClearIsGiven,
   ShortBreaksAreSilent, Unset, Causes

\* Everything grows older together.
LEMMA TickInv == IInv /\ Tick => IInv'
<1> SUFFICES ASSUME IInv, Tick PROVE IInv'
  OBVIOUS
<1>1. /\ downSince \in Unset..AlertAfter /\ lastAlert \in Unset..AlertRepeat
      /\ outage \in 0..AlertAfter /\ clock \in 0..(DayLength - 1) /\ wait \in 0..MaxBackoff
  BY DEF IInv, TypeOK
<1>2. downSince' \in Unset..AlertAfter /\ lastAlert' \in Unset..AlertRepeat
  BY <1>1, Numbers DEF Tick, Older, Unset
<1>3. outage' \in 0..AlertAfter /\ outage' >= outage /\ wait' \in 0..MaxBackoff
  BY <1>1, Numbers DEF Tick, Older, Unset
<1>4. clock' \in 0..(DayLength - 1)
  BY <1>1, Numbers DEF Tick
<1>5. TypeOK'
  BY <1>2, <1>3, <1>4 DEF Tick, IInv, TypeOK
<1>6. AlarmKnows'
  BY <1>1, Numbers DEF Tick, IInv, AlarmKnows, Older, Unset
<1>7. AlarmMeasures'
  BY <1>1, Numbers DEF Tick, IInv, AlarmMeasures, Older, Unset
<1>8. AllClearIsGiven' /\ ShortBreaksAreSilent'
  <2>1. told' = told /\ phase' = phase
    BY DEF Tick
  <2>2. AllClearIsGiven'
    BY <2>1 DEF IInv, AllClearIsGiven
  <2>3. ShortBreaksAreSilent'
    <3>1. outage \in Int /\ outage' \in Int /\ outage' >= outage
      BY <1>1, <1>3
    <3>2. 2 * outage + MinuteTicks >= 2 * AlertAfter
            => 2 * outage' + MinuteTicks >= 2 * AlertAfter
      BY <3>1, LongerIsLongEnough
    <3> QED
      BY <2>1, <3>2 DEF IInv, ShortBreaksAreSilent
  <2> QED
    BY <2>2, <2>3
<1> QED
  BY <1>5, <1>6, <1>7, <1>8 DEF IInv

\* Every step of the loop and of its surroundings keeps the invariant.
LEMMA StepInv == IInv /\ [Next]_vars => IInv'
<1> SUFFICES ASSUME IInv, [Next]_vars PROVE IInv'
  OBVIOUS
<1> USE DEF loop, environment, alarm
<1>1. CASE UNCHANGED vars
  BY <1>1 DEF vars, IInv, TypeOK, AlarmKnows, AlarmMeasures, AllClearIsGiven,
     ShortBreaksAreSilent
<1>2. CASE Dial
  <2>1. TypeOK'
    BY <1>2, Numbers DEF Dial, Up, IInv, TypeOK, Unset
  <2>2. told' = "ok" /\ downSince' = Unset /\ lastAlert' = Unset /\ outage' = 0
    BY <1>2 DEF Dial, Up, IInv, AlarmKnows
  <2> QED
    BY <2>1, <2>2 DEF IInv, AlarmKnows, AlarmMeasures, AllClearIsGiven,
       ShortBreaksAreSilent, Unset
<1>3. CASE DialFails \/ SessionEnds
  BY <1>3, PauseInv DEF DialFails, SessionEnds, Causes
<1>4. CASE ConnectFails
  BY <1>4, PauseInv DEF ConnectFails, Causes
<1>5. CASE Unauthorized \/ Connect
  <2>1. /\ phase' \in {"dial", "connect"} /\ backoff' \in 1..MaxBackoff
        /\ UNCHANGED <<wait, network, refresh, clock, alarm, outage>>
    BY <1>5, Numbers DEF Unauthorized, Connect, IInv, TypeOK
  <2>2. token' \in BOOLEAN
    BY <1>5 DEF Unauthorized, Connect, IInv, TypeOK
  <2>3. TypeOK'
    BY <2>1, <2>2 DEF IInv, TypeOK
  <2> QED
    BY <2>1, <2>3 DEF IInv, AlarmKnows, AlarmMeasures, AllClearIsGiven,
       ShortBreaksAreSilent
<1>6. CASE Wake
  BY <1>6, NextBackoffInRange DEF Wake, IInv, TypeOK, AlarmKnows, AlarmMeasures,
     AllClearIsGiven, ShortBreaksAreSilent
<1>7. CASE Tick
  BY <1>7, TickInv
<1>8. CASE NetworkChanges \/ TokenExpires \/ RefreshTokenExpires
  BY <1>8 DEF NetworkChanges, TokenExpires, RefreshTokenExpires, IInv, TypeOK,
     AlarmKnows, AlarmMeasures, AllClearIsGiven, ShortBreaksAreSilent
<1> QED
  BY <1>1, <1>2, <1>3, <1>4, <1>5, <1>6, <1>7, <1>8 DEF Next, Loop

-----------------------------------------------------------------------------
\* The variables keep their types; no pause is longer than maxBackoff
\* (SubscribeMarketDataFanOut).
THEOREM TypeCorrect == Spec => []TypeOK
BY InitInv, StepInv, PTL DEF Spec, IInv

\* streamAlarm.up: whoever was called has the all-clear once the stream is up.
THEOREM AllClearReachesThePerson == Spec => []AllClearIsGiven
BY InitInv, StepInv, PTL DEF Spec, IInv

\* streamAlarm.down: the alarm takes an outage for longer than it is by half a
\* minute at most, its rounding, so that a break which falls short of
\* streamDownAlertAfter by more calls nobody.
THEOREM NobodyCalledForShortBreaks == Spec => []ShortBreaksAreSilent
BY InitInv, StepInv, PTL DEF Spec, IInv
-----------------------------------------------------------------------------
(* The orders                                                              *)

\* Quantities are integers.
OrdersTyped ==
    /\ believed \in Int /\ account \in Int /\ resting \in Int
    /\ lost \in Int /\ expired \in Int

Books == OrdersTyped /\ BooksPartOnlyBySilence

\* An order of any sign adds to the account or to the limit orders at rest, and
\* so to the left side of the books.
LEMMA CarriedOutAdds ==
    ASSUME Books, NEW quantity \in Int, NEW limit, CarriedOut(quantity, limit)
    PROVE  /\ account' \in Int /\ resting' \in Int
           /\ account' + resting' + expired = (believed + lost) + quantity
<1>1. /\ believed \in Int /\ account \in Int /\ resting \in Int
      /\ lost \in Int /\ expired \in Int
      /\ account + resting + expired = believed + lost
  BY DEF Books, OrdersTyped, BooksPartOnlyBySilence
<1>2. /\ account' \in Int /\ resting' \in Int
      /\ account' + resting' = account + resting + quantity
  <2>1. CASE account' = account + quantity /\ UNCHANGED resting
    BY <1>1, <2>1
  <2>2. CASE resting' = resting + quantity /\ UNCHANGED account
    BY <1>1, <2>2
  <2> QED
    BY <2>1, <2>2 DEF CarriedOut
<1>3. account' + resting' + expired = (account + resting + quantity) + expired
  BY <1>2
<1>4. (account + resting + quantity) + expired = (account + resting + expired) + quantity
  BY <1>1
<1>5. (account + resting + expired) + quantity = (believed + lost) + quantity
  BY <1>1
<1> QED
  BY <1>2, <1>3, <1>4, <1>5

\* An order whose answer comes and one whose answer is lost keep the account of
\* what parts the books.
LEMMA OrderKeepsBooks ==
    ASSUME Books, NEW quantity \in Int, NEW limit, UNCHANGED expired,
           \/ Accepted(quantity, limit) /\ believed' = believed + quantity
           \/ Refused /\ UNCHANGED believed
           \/ AnswerLost(quantity, limit) /\ UNCHANGED believed
    PROVE  Books'
<1>1. /\ believed \in Int /\ account \in Int /\ resting \in Int
      /\ lost \in Int /\ expired \in Int
      /\ account + resting + expired = believed + lost
  BY DEF Books, OrdersTyped, BooksPartOnlyBySilence
<1>2. CASE Refused /\ UNCHANGED believed
  BY <1>1, <1>2 DEF Refused, Books, OrdersTyped, BooksPartOnlyBySilence
<1>3. ASSUME CarriedOut(quantity, limit),
             \/ believed' = believed + quantity /\ lost' = lost
             \/ believed' = believed /\ lost' = lost + quantity
      PROVE  Books'
  <2>1. /\ account' \in Int /\ resting' \in Int
        /\ account' + resting' + expired = (believed + lost) + quantity
    BY <1>3, CarriedOutAdds
  <2>2. /\ believed' \in Int /\ lost' \in Int
        /\ believed' + lost' = (believed + lost) + quantity
    BY <1>1, <1>3
  <2>3. expired' = expired
    OBVIOUS
  <2> QED
    BY <1>1, <2>1, <2>2, <2>3 DEF Books, OrdersTyped, BooksPartOnlyBySilence
<1> QED
  BY <1>2, <1>3 DEF Accepted, AnswerLost

\* Every step keeps the account of what parts the books.
LEMMA NextBooks == Books /\ [RealNext]_realVars => Books'
<1> SUFFICES ASSUME Books, [RealNext]_realVars PROVE Books'
  OBVIOUS
<1>0. believed \in Int /\ account \in Int /\ resting \in Int /\ lost \in Int /\ expired \in Int
  BY DEF Books, OrdersTyped
<1>1. CASE UNCHANGED orders
  BY <1>1 DEF orders, Books, OrdersTyped, BooksPartOnlyBySilence
<1>2. ASSUME NEW quantity \in Int, Open(quantity) PROVE Books'
  <2>1. believed' = quantity => believed' = believed + quantity
    BY <1>2 DEF Open
  <2>2. UNCHANGED expired
    BY <1>2 DEF Open
  <2> QED
    BY <1>2, <2>1, <2>2, OrderKeepsBooks DEF Open
<1>3. CASE CloseAccepted \/ CloseRefused \/ CloseAnswerLost
  <2> DEFINE quantity == -believed
  <2>1. quantity \in Int /\ believed + quantity = 0
    BY <1>0
  <2>2. UNCHANGED expired
    BY <1>3 DEF CloseAccepted, CloseRefused, CloseAnswerLost
  <2>3. \/ Accepted(quantity, FALSE) /\ believed' = believed + quantity
        \/ Refused /\ UNCHANGED believed
        \/ AnswerLost(quantity, FALSE) /\ UNCHANGED believed
    BY <1>3, <2>1 DEF CloseAccepted, CloseRefused, CloseAnswerLost
  <2> HIDE DEF quantity
  <2> QED
    BY <2>1, <2>2, <2>3, OrderKeepsBooks
<1>4. CASE EodDone \/ SessionOver \/ NextDay
  BY <1>4 DEF EodDone, SessionOver, NextDay, Books, OrdersTyped, BooksPartOnlyBySilence
<1>5. CASE LimitFills
  BY <1>0, <1>5 DEF LimitFills, Books, OrdersTyped, BooksPartOnlyBySilence
<1>6. CASE LimitExpires
  BY <1>0, <1>6 DEF LimitExpires, Books, OrdersTyped, BooksPartOnlyBySilence
<1>7. CASE ChartRenewsToken
  BY <1>1, <1>7 DEF ChartRenewsToken
<1>8. ASSUME NEW lots \in Lots PROVE lots \in Int /\ -lots \in Int
  BY RealTradingAssumption
<1> QED
  BY <1>1, <1>2, <1>3, <1>4, <1>5, <1>6, <1>7, <1>8 DEF RealNext, realVars

\* What the slot believes and what the account holds part in three ways only,
\* for orders of any size (client.go ExecuteOrder, selfmanaged.go closePosition).
THEOREM BooksArePartedBySilence == RealSpec => []BooksPartOnlyBySilence
<1>1. RealInit => Books
  BY DEF RealInit, Books, OrdersTyped, BooksPartOnlyBySilence
<1>2. Books => BooksPartOnlyBySilence
  BY DEF Books
<1> QED
  BY <1>1, <1>2, NextBooks, PTL DEF RealSpec
=============================================================================

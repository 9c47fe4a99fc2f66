--------------------------- MODULE BacktestProofs ---------------------------
(***************************************************************************)
(* The portfolio backtest, for every set of slots, tickers and time frames,*)
(* and for recorded bars with any holes: the report is the account, a      *)
(* trade ends with its day, exits come before the entries of their label,  *)
(* and risk stays reserved within the day. What it is replayed from, in    *)
(* MCBacktest: a download leaves no hole before its last bar, for every    *)
(* retry and chunk, and a day's stream file holds what was recorded on it. *)
(***************************************************************************)
EXTENDS MCBacktest, SequenceTheorems, Sums

Instants == [day : Nat, minute : 0..(DayMinutes - 1)]

Held == [direction : {"BUY", "SELL"}, quantity : Nat \ {0}, entryPrice : Int]

Typed ==
    /\ label \in Instants
    /\ exitsLeft \subseteq entriesLeft /\ entriesLeft \subseteq Slots
    /\ balance \in Int /\ positions \in [Tickers -> Held \cup {Exec!NoPosition}]
    /\ openPositions \in [Tickers -> Int] /\ tradingDate \in Int
    /\ pos \in [Slots -> Orders \cup {NoOrder}]
    /\ openedAt \in [Slots -> Instants]
    /\ order \in Orders \cup {NoOrder}
    /\ stage = "fill" => order \in Orders
    /\ lastBarEnd \in [Slots -> Instants]
    /\ trade \in [openedAt : Instants, closedAt : Instants]
    /\ reported \in Int

-----------------------------------------------------------------------------
(* Orders                                                                  *)

\* What an order and its result are made of.
LEMMA OrderTypes ==
    ASSUME NEW o \in Orders, NEW price \in Int
    PROVE  /\ o # NoOrder /\ o.price * o.quantity \in Int
           /\ TradeRisk(o) \in Nat
           /\ GrossPnL(o, price) \in Int /\ NetPnL(o, price) \in Int
<1>1. /\ o.quantity \in Nat \ {0} /\ o.price \in Int /\ o.stop \in Nat
      /\ o.direction \in {"BUY", "SELL"}
  BY DEF Orders
<1>2. /\ \A x \in Nat, y \in Nat : x * y \in Nat
      /\ \A x \in Int, y \in Nat : x * y \in Int
  OBVIOUS
<1>3. Distance(o.price, o.stop) \in Nat
  BY <1>1 DEF Distance
<1>4. GrossPnL(o, price) \in Int
  <2>. DEFINE d == IF o.direction = "BUY" THEN price - o.price ELSE o.price - price
  <2>1. d \in Int
    BY <1>1
  <2>. QED
    BY <1>1, <1>2, <2>1 DEF GrossPnL
<1>5. Commission(o) \in Int
  BY <1>1, <1>2, BacktestAssumption DEF Commission
<1>. QED
  BY <1>1, <1>2, <1>3, <1>4, <1>5 DEF TradeRisk, NetPnL, NoOrder

\* Slippage leaves an integer.
LEMMA FillPriceType ==
    ASSUME NEW direction, NEW price \in Int PROVE FillPrice(direction, price) \in Int
  BY BacktestAssumption DEF FillPrice

\* Sizing makes an order out of a signal, unless it comes to nothing.
LEMMA SizedIsOrder ==
    ASSUME Typed, NEW signal \in Signals, Sized(signal).quantity > 0
    PROVE  Sized(signal) \in Orders
<1>. DEFINE fill == FillPrice(signal.direction, signal.price)
            wanted == PositionSize(signal)
<1>1. signal.direction \in {"BUY", "SELL"} /\ signal.price \in Nat /\ signal.stop \in Nat
  BY BacktestAssumption
<1>2. fill \in Int
  BY <1>1, FillPriceType
<1>3. wanted \in Int
  <2>1. \A x \in Nat, y \in Nat \ {0} : x \div y \in Int
    OBVIOUS
  <2>2. CASE signal.price = signal.stop
    BY <2>2 DEF PositionSize
  <2>3. CASE signal.price # signal.stop
    <3>1. Distance(signal.price, signal.stop) \in Nat \ {0}
      BY <1>1, <2>3 DEF Distance
    <3>. QED
      BY <2>1, <2>3, <3>1, BacktestAssumption DEF PositionSize
  <2>. QED
    BY <2>2, <2>3
<1>4. CapByCash(wanted, fill, balance) \in Int
  <2>. HIDE DEF fill, wanted
  <2>1. balance \in Int /\ UtilPct \in Int
    BY BacktestAssumption DEF Typed
  <2>2. CASE fill <= 0 \/ balance <= 0
    BY <2>2 DEF CapByCash
  <2>3. CASE ~(fill <= 0 \/ balance <= 0)
    <3>1. \A x \in Int, y \in Int : x * y \in Int
      OBVIOUS
    <3>2. 100 * fill \in Nat \ {0} /\ balance * UtilPct \in Int
      BY <1>2, <2>1, <2>3, <3>1
    <3>3. \A x \in Int, y \in Nat \ {0} : x \div y \in Int
      OBVIOUS
    <3>4. (balance * UtilPct) \div (100 * fill) \in Int
      BY <3>2, <3>3
    <3>. QED
      BY <1>3, <2>3, <3>4 DEF CapByCash, Lesser
  <2>. QED
    BY <2>2, <2>3
<1>5. Sized(signal) = [direction |-> signal.direction,
                       quantity  |-> CapByCash(wanted, fill, balance),
                       price     |-> fill, stop |-> signal.stop]
  BY DEF Sized
<1>. HIDE DEF fill, wanted
<1>. QED
  BY <1>1, <1>2, <1>4, <1>5 DEF Orders

-----------------------------------------------------------------------------
(* Time                                                                    *)

\* An instant some minutes later is an instant.
LEMMA AfterType ==
    ASSUME NEW i \in Instants, NEW n \in Nat PROVE After(i, n) \in Instants
<1>1. DayMinutes \in Nat \ {0}
  BY BacktestAssumption
<1>2. i.day \in Nat /\ i.minute + n \in Nat
  BY DEF Instants
<1>3. \A m \in Nat, d \in Nat \ {0} : m \div d \in Nat /\ m % d \in 0..(d - 1)
  OBVIOUS
<1>4. /\ (i.minute + n) \div DayMinutes \in Nat
      /\ (i.minute + n) % DayMinutes \in 0..(DayMinutes - 1)
  BY <1>1, <1>2, <1>3
<1>. QED
  BY <1>2, <1>4 DEF After, Instants

\* Up to a day later is later on the same day, or on the next.
LEMMA AfterIs ==
    ASSUME NEW i \in Instants, NEW n \in 1..DayMinutes
    PROVE  LET e == After(i, n) IN
           \/ i.minute + n < DayMinutes /\ e.day = i.day /\ e.minute = i.minute + n
           \/ /\ i.minute + n >= DayMinutes
              /\ e.day = i.day + 1 /\ e.minute = i.minute + n - DayMinutes
<1>1. DayMinutes \in Nat \ {0}
  BY BacktestAssumption
<1>2. i.day \in Nat /\ i.minute \in 0..(DayMinutes - 1)
  BY DEF Instants
<1>. DEFINE m == i.minute + n
<1>3. m \in 1..(2 * DayMinutes - 1)
  BY <1>1, <1>2
<1>4. \A d \in Nat \ {0} : \A x \in 0..(d - 1) : x \div d = 0 /\ x % d = x
  OBVIOUS
<1>5. \A d \in Nat \ {0} : \A x \in d..(2 * d - 1) : x \div d = 1 /\ x % d = x - d
  OBVIOUS
<1>6. After(i, n) = [day |-> i.day + m \div DayMinutes, minute |-> m % DayMinutes]
  BY DEF After
<1>7. CASE m < DayMinutes
  <2>1. m \div DayMinutes = 0 /\ m % DayMinutes = m
    BY <1>1, <1>3, <1>4, <1>7
  <2>. QED
    BY <1>2, <1>6, <1>7, <2>1
<1>8. CASE m >= DayMinutes
  <2>0. m \in DayMinutes..(2 * DayMinutes - 1)
    BY <1>1, <1>3, <1>8
  <2>1. m \div DayMinutes = 1 /\ m % DayMinutes = m - DayMinutes
    BY <1>1, <1>5, <2>0
  <2>. QED
    BY <1>1, <1>2, <1>6, <1>8, <2>1
<1>. QED
  BY <1>1, <1>3, <1>7, <1>8

\* Two multiples of a number lie at least that number apart.
LEMMA MultiplesApart ==
    ASSUME NEW f \in Nat \ {0}, NEW m \in Nat, NEW n \in Nat,
           m % f = 0, n % f = 0, m < n
    PROVE  m + f <= n
<1>1. m = f * (m \div f) /\ n = f * (n \div f) /\ m \div f \in Nat /\ n \div f \in Nat
  OBVIOUS
<1>. DEFINE a == m \div f
            b == n \div f
<1>2. a < b
  <2>. SUFFICES ASSUME b <= a PROVE FALSE
    BY <1>1
  <2>1. \A x \in Nat, y \in Nat : x <= y => f * x <= f * y
    OBVIOUS
  <2>. QED
    BY <1>1, <2>1
<1>3. \A x \in Nat, y \in Nat : x + 1 <= y => f * x + f <= f * y
  <2>. TAKE x \in Nat, y \in Nat
  <2>1. HAVE x + 1 <= y
  <2>2. f * (x + 1) = f * x + f
    OBVIOUS
  <2>3. f * (x + 1) <= f * y
    BY <2>1
  <2>. QED
    BY <2>2, <2>3
<1>. QED
  BY <1>1, <1>2, <1>3

\* A bar ends on the day it began, or at the midnight after it: whatever its
\* time frame, it does not reach into the next day.
LEMMA BarEndIs ==
    ASSUME Typed, NEW t \in Tickers, label.minute % Frame[t] = 0
    PROVE  /\ BarEnd(t) \in Instants
           /\ \/ BarEnd(t).day = label.day /\ BarEnd(t).minute > label.minute
              \/ BarEnd(t).day = label.day + 1 /\ BarEnd(t).minute = 0
<1>. DEFINE f == Frame[t]
<1>1. f \in Nat \ {0} /\ DayMinutes \in Nat \ {0} /\ DayMinutes % f = 0
  BY BacktestAssumption
<1>2. label \in Instants /\ label.day \in Nat /\ label.minute \in 0..(DayMinutes - 1)
  BY DEF Typed, Instants
<1>. HIDE DEF f
<1>3. label.minute + f <= DayMinutes
  <2>1. label.minute % f = 0
    BY DEF f
  <2>. QED
    BY <1>1, <1>2, <2>1, MultiplesApart
<1>4. f \in 1..DayMinutes
  BY <1>1, <1>2, <1>3
<1>5. BarEnd(t) = After(label, f)
  BY DEF BarEnd, f
<1>6. \/ /\ label.minute + f < DayMinutes
         /\ BarEnd(t).day = label.day /\ BarEnd(t).minute = label.minute + f
      \/ /\ label.minute + f >= DayMinutes
         /\ BarEnd(t).day = label.day + 1
         /\ BarEnd(t).minute = label.minute + f - DayMinutes
  BY <1>2, <1>4, <1>5, AfterIs
<1>7. BarEnd(t) \in Instants
  BY <1>2, <1>4, <1>5, AfterType
<1>. QED
  BY <1>1, <1>2, <1>3, <1>6, <1>7

-----------------------------------------------------------------------------
(* What a step does                                                        *)

\* The fields of positions, accounts and trades.
accountVars == <<ledgerVars, positionVars, tradeVars>>

\* ExecuteOrder filled the order of s.
Filled(s) ==
    LET t == TickerOf[s] IN
    /\ order \in Orders
    /\ positions[t] = Exec!NoPosition
    /\ balance' = balance - order.price * order.quantity
    /\ positions' = [positions EXCEPT ![t] =
           [direction |-> order.direction, quantity |-> order.quantity,
            entryPrice |-> order.price]]
    /\ pos' = [pos EXCEPT ![s] = order]
    /\ openedAt' = [openedAt EXCEPT ![s] = label]
    /\ UNCHANGED <<tradeVars, openPositions, tradingDate, lastBarEnd>>

\* The position of s was closed.
Closed(s, exit, closedAt) ==
    LET t == TickerOf[s] IN
    /\ pos[s] \in Orders /\ exit \in Int /\ closedAt \in Instants
    /\ positions[t] \in Held
    /\ balance' = balance + Exec!Proceeds(positions[t], exit) - Commission(pos[s])
    /\ positions' = [positions EXCEPT ![t] = Exec!NoPosition]
    /\ openPositions' = [openPositions EXCEPT ![t] = -1]
    /\ pos' = [pos EXCEPT ![s] = NoOrder]
    /\ openedAt' = [openedAt EXCEPT ![s] = NoInstant]
    /\ trade' = [openedAt |-> openedAt[s], closedAt |-> closedAt]
    /\ reported' = reported + NetPnL(pos[s], exit)
    /\ UNCHANGED <<tradingDate, label, order>>

\* closePosition does what Closed says.
LEMMA CloseIs ==
    ASSUME Typed, NEW s \in Slots, NEW price \in Prices, NEW closedAt \in Instants,
           ClosePosition(s, price, closedAt), UNCHANGED <<label, order>>
    PROVE  \E exit \in Int : Closed(s, exit, closedAt)
<1>. DEFINE exit == FillPrice(CloseSide(pos[s].direction), price)
            t == TickerOf[s]
<1>1. t \in Tickers /\ price \in Int
  BY BacktestAssumption
<1>2. exit \in Int
  BY <1>1, FillPriceType
<1>3. pos[s] \in Orders
  BY DEF ClosePosition, HasPos, Typed
<1>4. /\ CloseFilled(s, exit) /\ Risk!RegisterClose(t, GrossPnL(pos[s], exit))
      /\ trade' = [openedAt |-> openedAt[s], closedAt |-> closedAt]
      /\ reported' = reported + NetPnL(pos[s], exit)
      /\ pos' = [pos EXCEPT ![s] = NoOrder]
      /\ openedAt' = [openedAt EXCEPT ![s] = NoInstant]
  BY DEF ClosePosition
<1>. HIDE DEF exit
<1>5. /\ positions[t] # Exec!NoPosition
      /\ balance' = balance + Exec!Proceeds(positions[t], exit) - Commission(pos[s])
      /\ positions' = [positions EXCEPT ![t] = Exec!NoPosition]
  BY <1>4 DEF CloseFilled, Exec!ClosePosition, Exec!CloseResult
<1>6. positions[t] \in Held
  BY <1>1, <1>5 DEF Typed
<1>7. openPositions' = [openPositions EXCEPT ![t] = -1] /\ UNCHANGED tradingDate
  BY <1>4 DEF Risk!RegisterClose, Risk!NotOpen
<1>8. Closed(s, exit, closedAt)
  BY <1>2, <1>3, <1>4, <1>5, <1>6, <1>7 DEF Closed
<1>. QED
  BY <1>2, <1>8

\* A fill that is carried out does what Filled says.
LEMMA FillIs ==
    ASSUME Typed, NEW s \in Slots, Fill(s)
    PROVE  \/ /\ Filled(s) /\ ContinueAs("sameBar")
           \/ /\ DoneWithBar(s)
              /\ openPositions' = [openPositions EXCEPT ![TickerOf[s]] = -1]
              /\ UNCHANGED <<accountVars, tradingDate>>
<1>. DEFINE t == TickerOf[s]
<1>1. order \in Orders
  BY DEF Fill, AtEntry, Typed
<1>2. CASE Exec!OpenResult(t, order) = "ok"
  <2>1. positions[t] = Exec!NoPosition
    BY <1>2 DEF Exec!OpenResult
  <2>. QED
    BY <1>1, <1>2, <2>1
       DEF Fill, Filled, Exec!OpenPosition, riskVars, tradeVars
<1>3. CASE Exec!OpenResult(t, order) # "ok"
  BY <1>3 DEF Fill, Risk!ReleaseOpen, Risk!NotOpen, accountVars, ledgerVars, positionVars, tradeVars
<1>. QED
  BY <1>2, <1>3

\* The actions that close a position, and when each says it was closed.
LEMMA ExitIs ==
    ASSUME Typed, NEW s \in Slots, CloseMissedEOD(s) \/ IntrabarExit(s) \/ CloseAtEOD(s)
    PROVE  /\ AtExit(s, "exits") /\ ExitDone(s) /\ UNCHANGED lastBarEnd
           /\ \E exit \in Int, closedAt \in Instants :
                 /\ Closed(s, exit, closedAt)
                 /\ \/ MissedEOD(s) /\ closedAt = lastBarEnd[s]
                    \/ ~MissedEOD(s) /\ closedAt = label
                    \/ ~MissedEOD(s) /\ closedAt = BarEnd(TickerOf[s])
<1>1. lastBarEnd[s] \in Instants /\ label \in Instants /\ BarEnd(TickerOf[s]) \in Instants
  BY AfterType, BacktestAssumption DEF Typed, BarEnd
<1>2. ASSUME NEW price \in Prices, NEW closedAt \in Instants, Exit(s, price, closedAt)
      PROVE  /\ \E exit \in Int : Closed(s, exit, closedAt)
             /\ ExitDone(s) /\ UNCHANGED lastBarEnd
  <2>1. ClosePosition(s, price, closedAt) /\ UNCHANGED <<label, order>>
    BY <1>2 DEF Exit
  <2>. QED
    BY <1>2, <2>1, CloseIs DEF Exit
<1>3. CASE CloseMissedEOD(s)
  BY <1>1, <1>2, <1>3 DEF CloseMissedEOD
<1>4. CASE IntrabarExit(s)
  BY <1>1, <1>2, <1>4 DEF IntrabarExit
<1>5. CASE CloseAtEOD(s)
  BY <1>1, <1>2, <1>5 DEF CloseAtEOD
<1>. QED
  BY <1>3, <1>4, <1>5

\* So does the exit on the bar of the entry.
LEMMA SameBarExitIs ==
    ASSUME Typed, NEW s \in Slots, SameBarExit(s)
    PROVE  /\ AtEntry(s, "sameBar") /\ DoneWithBar(s)
           /\ \E exit \in Int : Closed(s, exit, label)
<1>1. label \in Instants /\ UNCHANGED <<label, order>>
  BY DEF Typed, SameBarExit
<1>2. PICK price \in Prices : ClosePosition(s, price, label)
  BY DEF SameBarExit
<1>. QED
  BY <1>1, <1>2, CloseIs DEF SameBarExit

\* A signal leads to an order only if the controller reserved its risk.
LEMMA SignalIs ==
    ASSUME Typed, NEW s \in Slots, NEW signal \in Signals, EntrySignal(s, signal)
    PROVE  /\ AtEntry(s, "begin") /\ ~HasPos(s) /\ MayEnter(s)
           /\ UNCHANGED <<label, accountVars, tradingDate>>
           /\ \/ /\ ContinueAs("fill") /\ UNCHANGED lastBarEnd
                 /\ order' \in Orders
                 /\ openPositions[TickerOf[s]] = -1
                 /\ openPositions' = [openPositions EXCEPT ![TickerOf[s]] = TradeRisk(order')]
              \/ DoneWithBar(s) /\ UNCHANGED <<order, openPositions>>
<1>. DEFINE o == Sized(signal)
            t == TickerOf[s]
<1>1. o \in Orders /\ t \in Tickers
  BY SizedIsOrder, BacktestAssumption DEF EntrySignal
<1>2. /\ AtEntry(s, "begin") /\ ~HasPos(s) /\ MayEnter(s) /\ Risk!TryOpen(t, TradeRisk(o))
      /\ UNCHANGED <<label, accountVars>>
  BY DEF EntrySignal, accountVars
<1>. HIDE DEF o
<1>3. CASE Risk!TryOpenResult(t, TradeRisk(o)) = "ok"
  <2>1. order' = o /\ ContinueAs("fill") /\ UNCHANGED lastBarEnd
    BY <1>3 DEF EntrySignal, o
  <2>2. t \notin Risk!Registered
    BY <1>3 DEF Risk!TryOpenResult
  <2>3. openPositions[t] = -1
    BY <1>1, <2>2 DEF Risk!Registered, Risk!NotOpen
  <2>4. /\ openPositions' = [openPositions EXCEPT ![t] = TradeRisk(o)]
        /\ UNCHANGED tradingDate
    BY <1>2, <1>3 DEF Risk!TryOpen
  <2>. QED
    BY <1>1, <1>2, <2>1, <2>3, <2>4
<1>4. CASE Risk!TryOpenResult(t, TradeRisk(o)) # "ok"
  <2>1. DoneWithBar(s) /\ UNCHANGED order
    BY <1>4 DEF EntrySignal, o
  <2>2. UNCHANGED <<openPositions, tradingDate>>
    BY <1>2, <1>4 DEF Risk!TryOpen
  <2>. QED
    BY <1>2, <2>1, <2>2
<1>. QED
  BY <1>3, <1>4

\* The controller's date changes only to a date.
LEMMA ResetIs ==
    ASSUME NEW date \in Nat, Risk!ResetDaily(date)
    PROVE  \/ date = tradingDate /\ UNCHANGED <<openPositions, tradingDate>>
           \/ /\ date # tradingDate /\ tradingDate' = date
              /\ openPositions' = [t \in Tickers |-> -1]
<1>1. CASE date = tradingDate
  BY <1>1 DEF Risk!ResetDaily, Risk!riskVars
<1>2. CASE date # tradingDate
  BY <1>2 DEF Risk!ResetDaily, Risk!NotOpen
<1>. QED
  BY <1>1, <1>2

\* Closing a position leaves the types alone.
LEMMA ClosedTypes ==
    ASSUME Typed, NEW s \in Slots, NEW exit \in Int, NEW closedAt \in Instants,
           Closed(s, exit, closedAt), stage' = "begin",
           exitsLeft' \subseteq entriesLeft', entriesLeft' \subseteq Slots,
           lastBarEnd' \in [Slots -> Instants]
    PROVE  Typed'
<1>. DEFINE t == TickerOf[s]
<1>1. t \in Tickers
  BY BacktestAssumption
<1>2. pos[s] \in Orders /\ positions[t] \in Held
  BY DEF Closed
<1>3. \A x \in Int, y \in Int : x * y \in Int
  OBVIOUS
<1>4. positions[t].quantity \in Int /\ positions[t].entryPrice \in Int
  BY <1>2 DEF Held
<1>5. Exec!Proceeds(positions[t], exit) \in Int
  <2>. DEFINE q == positions[t].quantity
  <2>1. CASE positions[t].direction = "BUY"
    BY <1>3, <1>4, <2>1 DEF Exec!Proceeds
  <2>2. CASE positions[t].direction # "BUY"
    <3>1. 2 * positions[t].entryPrice - exit \in Int
      BY <1>4
    <3>. QED
      BY <1>3, <1>4, <2>2, <3>1 DEF Exec!Proceeds
  <2>. QED
    BY <2>1, <2>2
<1>6. Commission(pos[s]) \in Int
  BY <1>2, <1>3, BacktestAssumption DEF Commission, Orders
<1>7. NetPnL(pos[s], exit) \in Int
  BY <1>2, OrderTypes
<1>8. balance' \in Int /\ reported' \in Int
  BY <1>5, <1>6, <1>7 DEF Closed, Typed
<1>9. NoInstant \in Instants
  BY BacktestAssumption DEF NoInstant, Instants
<1>10. trade' \in [openedAt : Instants, closedAt : Instants]
  BY DEF Closed, Typed
<1>11. /\ positions' \in [Tickers -> Held \cup {Exec!NoPosition}]
       /\ openPositions' \in [Tickers -> Int]
  <2>1. /\ positions' = [positions EXCEPT ![t] = Exec!NoPosition]
        /\ openPositions' = [openPositions EXCEPT ![t] = -1]
    BY DEF Closed
  <2>2. positions \in [Tickers -> Held \cup {Exec!NoPosition}] /\ openPositions \in [Tickers -> Int]
    BY DEF Typed
  <2>3. positions' \in [Tickers -> Held \cup {Exec!NoPosition}]
    BY <2>1, <2>2
  <2>4. openPositions' \in [Tickers -> Int]
    <3>1. -1 \in Int
      OBVIOUS
    <3>. QED
      BY <2>1, <2>2, <3>1
  <2>. QED
    BY <2>3, <2>4
<1>12. pos' \in [Slots -> Orders \cup {NoOrder}] /\ openedAt' \in [Slots -> Instants]
  BY <1>9 DEF Closed, Typed
<1>13. UNCHANGED <<tradingDate, label, order>>
  BY DEF Closed
<1>. QED
  BY <1>8, <1>10, <1>11, <1>12, <1>13 DEF Typed

\* When a slot is done with its bar it leaves the walk, and its bar is the
\* last one it saw.
LEMMA DoneTypes ==
    ASSUME Typed, NEW s \in Slots, DoneWithBar(s), exitsLeft = {}
    PROVE  /\ stage' = "begin" /\ exitsLeft' = {} /\ entriesLeft' \subseteq Slots
           /\ lastBarEnd' \in [Slots -> Instants]
<1>1. BarEnd(TickerOf[s]) \in Instants
  BY AfterType, BacktestAssumption DEF Typed, BarEnd
<1>. QED
  BY <1>1 DEF DoneWithBar, Typed

\* Every step keeps the types.
LEMMA TypedStep == Typed /\ [Next]_vars => Typed'
<1>. SUFFICES ASSUME Typed, [Next]_vars PROVE Typed'
  OBVIOUS
<1>1. CASE UNCHANGED vars
  BY <1>1 DEF vars, walk, ledgerVars, riskVars, positionVars, tradeVars, Typed
<1>2. CASE NextLabel
  <2>1. label' \in Instants
    BY <1>2, AfterType DEF NextLabel, Typed
  <2>2. exitsLeft' = entriesLeft' /\ entriesLeft' \subseteq Slots
    BY <1>2 DEF NextLabel, SlotsOf
  <2>. QED
    BY <1>2, <2>1, <2>2 DEF NextLabel, ledgerVars, riskVars, positionVars, tradeVars, Typed
<1>3. ASSUME NEW s \in Slots, CheckDailyReset(s) PROVE Typed'
  <2>. DEFINE end == BarEnd(TickerOf[s])
  <2>1. end.day \in Nat
    BY AfterType, BacktestAssumption DEF Typed, BarEnd, Instants
  <2>2. openPositions' \in [Tickers -> Int] /\ tradingDate' \in Int
    <3>1. CASE IsSessionOpen(Session[s], end)
      <4>1. Risk!ResetDaily(end.day)
        BY <1>3, <3>1 DEF CheckDailyReset
      <4>. QED
        BY <2>1, <4>1, ResetIs DEF Typed
    <3>2. CASE ~IsSessionOpen(Session[s], end)
      BY <1>3, <3>2 DEF CheckDailyReset, riskVars, Typed
    <3>. QED
      BY <3>1, <3>2
  <2>3. /\ stage' = "exits"
        /\ UNCHANGED <<exitsLeft, entriesLeft, label, ledgerVars, positionVars, order,
                       lastBarEnd, tradeVars>>
    BY <1>3 DEF CheckDailyReset, ContinueAs
  <2>. QED
    BY <2>2, <2>3 DEF ledgerVars, positionVars, tradeVars, Typed
<1>4. ASSUME NEW s \in Slots, CloseMissedEOD(s) \/ IntrabarExit(s) \/ CloseAtEOD(s)
      PROVE  Typed'
  <2>1. PICK exit \in Int, closedAt \in Instants : Closed(s, exit, closedAt)
    BY <1>4, ExitIs
  <2>2. ExitDone(s) /\ UNCHANGED lastBarEnd
    BY <1>4, ExitIs
  <2>. QED
    BY <2>1, <2>2, ClosedTypes DEF ExitDone, Typed
<1>5. ASSUME NEW s \in Slots, NoExit(s) PROVE Typed'
  BY <1>5 DEF NoExit, ExitDone, ledgerVars, riskVars, positionVars, tradeVars, Typed
<1>6. ASSUME NEW s \in Slots, EntrySkipped(s) \/ Kept(s) PROVE Typed'
  <2>1. DoneWithBar(s) /\ exitsLeft = {}
    BY <1>6 DEF EntrySkipped, Kept, AtEntry
  <2>2. UNCHANGED <<label, ledgerVars, riskVars, positionVars, order, tradeVars>>
    BY <1>6 DEF EntrySkipped, Kept
  <2>. QED
    BY <2>1, <2>2, DoneTypes DEF ledgerVars, riskVars, positionVars, tradeVars, Typed
<1>7. ASSUME NEW s \in Slots, NEW signal \in Signals, EntrySignal(s, signal) PROVE Typed'
  <2>. DEFINE t == TickerOf[s]
  <2>1. UNCHANGED <<label, accountVars, tradingDate>> /\ AtEntry(s, "begin")
    BY <1>7, SignalIs
  <2>2. \/ /\ ContinueAs("fill") /\ UNCHANGED lastBarEnd /\ order' \in Orders
           /\ openPositions' = [openPositions EXCEPT ![t] = TradeRisk(order')]
        \/ DoneWithBar(s) /\ UNCHANGED <<order, openPositions>>
    BY <1>7, SignalIs
  <2>3. CASE DoneWithBar(s) /\ UNCHANGED <<order, openPositions>>
    BY <2>1, <2>3, DoneTypes
       DEF AtEntry, accountVars, ledgerVars, positionVars, tradeVars, Typed
  <2>4. CASE /\ ContinueAs("fill") /\ UNCHANGED lastBarEnd /\ order' \in Orders
             /\ openPositions' = [openPositions EXCEPT ![t] = TradeRisk(order')]
    <3>1. TradeRisk(order') \in Int
      <4>1. \A o \in Orders : TradeRisk(o) \in Int
        BY OrderTypes
      <4>. QED
        BY <2>4, <4>1
    <3>2. openPositions' \in [Tickers -> Int]
      BY <2>4, <3>1 DEF Typed
    <3>. QED
      BY <2>1, <2>4, <3>2
         DEF ContinueAs, accountVars, ledgerVars, positionVars, tradeVars, Typed
  <2>. QED
    BY <2>2, <2>3, <2>4
<1>8. ASSUME NEW s \in Slots, Fill(s) PROVE Typed'
  <2>1. /\ order' = NoOrder /\ UNCHANGED <<label, tradeVars>> /\ exitsLeft = {}
    BY <1>8 DEF Fill, AtEntry
  <2>2. CASE Filled(s) /\ ContinueAs("sameBar")
    <3>1. balance' \in Int
      <4>1. order.price * order.quantity \in Int
        BY <2>2, OrderTypes DEF Filled
      <4>. QED
        BY <2>2, <4>1 DEF Filled, Typed
    <3>2. positions' \in [Tickers -> Held \cup {Exec!NoPosition}]
      BY <2>2 DEF Filled, Typed, Held, Orders
    <3>3. pos' \in [Slots -> Orders \cup {NoOrder}] /\ openedAt' \in [Slots -> Instants]
      BY <2>2 DEF Filled, Typed
    <3>. QED
      BY <2>1, <2>2, <3>1, <3>2, <3>3 DEF Filled, ContinueAs, tradeVars, Typed
  <2>3. CASE /\ DoneWithBar(s)
             /\ openPositions' = [openPositions EXCEPT ![TickerOf[s]] = -1]
             /\ UNCHANGED <<accountVars, tradingDate>>
    <3>1. openPositions' \in [Tickers -> Int]
      <4>1. -1 \in Int
        OBVIOUS
      <4>2. openPositions \in [Tickers -> Int]
        BY DEF Typed
      <4>. QED
        BY <2>3, <4>1, <4>2
    <3>2. /\ stage' = "begin" /\ exitsLeft' = {} /\ entriesLeft' \subseteq Slots
          /\ lastBarEnd' \in [Slots -> Instants]
      BY <2>1, <2>3, DoneTypes
    <3>3. UNCHANGED <<balance, positions, pos, openedAt, trade, reported, tradingDate, label>>
      BY <2>1, <2>3 DEF accountVars, ledgerVars, positionVars, tradeVars
    <3>. QED
      BY <2>1, <3>1, <3>2, <3>3
         DEF Typed
  <2>. QED
    BY <1>8, <2>2, <2>3, FillIs
<1>9. ASSUME NEW s \in Slots, SameBarExit(s) PROVE Typed'
  <2>1. PICK exit \in Int : Closed(s, exit, label)
    BY <1>9, SameBarExitIs
  <2>2. DoneWithBar(s) /\ exitsLeft = {} /\ label \in Instants
    BY <1>9, SameBarExitIs DEF AtEntry, Typed
  <2>. QED
    BY <2>1, <2>2, ClosedTypes, DoneTypes
<1>. QED
  BY <1>1, <1>2, <1>3, <1>4, <1>5, <1>6, <1>7, <1>8, <1>9
     DEF Next, ProcessExits, ProcessEntries, Finished

\* The types hold before the first bar.
LEMMA TypedInit == Init => Typed
<1>. SUFFICES ASSUME Init PROVE Typed
  OBVIOUS
<1>1. NoInstant \in Instants /\ [day |-> 0, minute |-> DayMinutes - 1] \in Instants
  BY BacktestAssumption DEF NoInstant, Instants
<1>. QED
  BY <1>1, BacktestAssumption
     DEF Init, Typed, Exec!Init, Risk!Init, Risk!NotOpen, NoTrade

-----------------------------------------------------------------------------
(* The report and the account                                              *)

\* The executor's record of a position held as o.
Recorded(o) == [direction |-> o.direction, quantity |-> o.quantity, entryPrice |-> o.price]

Notionals(q) == [t \in Tickers |-> q[t].entryPrice * q[t].quantity]

\* A slot's position is the executor's, and no two slots share one.
OwnersRecorded ==
    /\ \A s \in Slots : HasPos(s) => positions[TickerOf[s]] = Recorded(pos[s])
    /\ \A r, s \in Slots : HasPos(r) /\ HasPos(s) /\ TickerOf[r] = TickerOf[s] => r = s

AccountInv == Typed /\ OwnersRecorded /\ ReportIsTheAccount

\* Of the accounts, a step leaves all, fills one order or closes one position.
LEMMA StepIs ==
    ASSUME Typed, [Next]_vars
    PROVE  \/ UNCHANGED accountVars
           \/ \E s \in Slots : Filled(s)
           \/ \E s \in Slots, exit \in Int, closedAt \in Instants : Closed(s, exit, closedAt)
<1>. USE DEF accountVars
<1>1. CASE UNCHANGED vars \/ NextLabel
  BY <1>1 DEF vars, NextLabel
<1>2. ASSUME NEW s \in Slots, CheckDailyReset(s) \/ NoExit(s) \/ EntrySkipped(s) \/ Kept(s)
      PROVE  UNCHANGED accountVars
  BY <1>2 DEF CheckDailyReset, NoExit, EntrySkipped, Kept
<1>3. ASSUME NEW s \in Slots, CloseMissedEOD(s) \/ IntrabarExit(s) \/ CloseAtEOD(s)
      PROVE  \E exit \in Int, closedAt \in Instants : Closed(s, exit, closedAt)
  BY <1>3, ExitIs
<1>4. ASSUME NEW s \in Slots, NEW signal \in Signals, EntrySignal(s, signal)
      PROVE  UNCHANGED accountVars
  BY <1>4 DEF EntrySignal
<1>5. ASSUME NEW s \in Slots, Fill(s) PROVE Filled(s) \/ UNCHANGED accountVars
  BY <1>5, FillIs
<1>6. ASSUME NEW s \in Slots, SameBarExit(s)
      PROVE  \E exit \in Int, closedAt \in Instants : Closed(s, exit, closedAt)
  BY <1>6, SameBarExitIs DEF Typed
<1>. HIDE DEF accountVars
<1>. QED
  BY <1>1, <1>2, <1>3, <1>4, <1>5, <1>6 DEF Next, ProcessExits, ProcessEntries, Finished

\* A position that is closed brings back its notional and its result.
LEMMA ClosingPays ==
    ASSUME NEW o \in Orders, NEW price \in Int
    PROVE  Exec!Proceeds(Recorded(o), price) - Commission(o)
             = o.price * o.quantity + NetPnL(o, price)
<1>1. o.price \in Int /\ o.quantity \in Int
  BY DEF Orders
<1>2. \A x \in Int, y \in Int, q \in Int :
        /\ (x - y) * q = x * q - y * q
        /\ (2 * x - y) * q = 2 * (x * q) - y * q
        /\ x * q \in Int
  OBVIOUS
<1>3. Commission(o) \in Int
  BY <1>1, <1>2, BacktestAssumption DEF Commission
<1>4. CASE o.direction = "BUY"
  BY <1>1, <1>2, <1>3, <1>4 DEF Exec!Proceeds, Recorded, NetPnL, GrossPnL
<1>5. CASE o.direction # "BUY"
  BY <1>1, <1>2, <1>3, <1>5 DEF Exec!Proceeds, Recorded, NetPnL, GrossPnL
<1>. QED
  BY <1>4, <1>5

\* The summands of the account are integers.
LEMMA NotionalsType ==
    ASSUME NEW q \in [Tickers -> Held \cup {Exec!NoPosition}]
    PROVE  Notionals(q) \in [Tickers -> Int]
<1>1. \A x \in Int, y \in Int : x * y \in Int
  OBVIOUS
<1>2. ASSUME NEW t \in Tickers PROVE q[t].entryPrice * q[t].quantity \in Int
  <2>1. q[t].entryPrice \in Int /\ q[t].quantity \in Int
    BY DEF Held, Exec!NoPosition
  <2>. QED
    BY <1>1, <2>1
<1>. QED
  BY <1>2 DEF Notionals

\* Replacing the record of one ticker replaces one summand.
LEMMA AccountMoves ==
    ASSUME Typed, Typed', ReportIsTheAccount, NEW t \in Tickers, NEW v,
           positions' = [positions EXCEPT ![t] = v],
           balance' + v.entryPrice * v.quantity - reported'
             = balance + Notionals(positions)[t] - reported
    PROVE  ReportIsTheAccount'
<1>. DEFINE f == Notionals(positions)
            g == Notionals(positions')
            w == v.entryPrice * v.quantity
<1>1. f \in [Tickers -> Int] /\ g \in [Tickers -> Int]
  BY NotionalsType DEF Typed
<1>2. positions'[t] = v /\ \A u \in Tickers \ {t} : positions'[u] = positions[u]
  BY DEF Typed
<1>3. g[t] = w /\ \A u \in Tickers \ {t} : g[u] = f[u]
  BY <1>2 DEF Notionals
<1>. HIDE DEF f, g, w
<1>4. w \in Int /\ g = [f EXCEPT ![t] = w]
  <2>1. w \in Int
    BY <1>1, <1>3
  <2>2. [f EXCEPT ![t] = w] \in [Tickers -> Int]
    BY <1>1, <2>1
  <2>3. \A u \in Tickers : [f EXCEPT ![t] = w][u] = g[u]
    BY <1>1, <1>3
  <2>. QED
    BY <1>1, <2>1, <2>2, <2>3
<1>5. SumFunction(g) = SumFunction(f) - f[t] + w
  <2>1. IsFiniteSet(Tickers) /\ f \in [Tickers -> Int] /\ w \in Int
    BY <1>1, <1>4, BacktestAssumption
  <2>2. SumFunction([f EXCEPT ![t] = w]) = SumFunction(f) - f[t] + w
    BY ONLY <2>1, SumOfUpdate
  <2>. QED
    BY <1>4, <2>2
<1>6. SumFunction(f) \in Int /\ f[t] \in Int
  BY <1>1, BacktestAssumption, SumType
<1>7. balance + SumFunction(f) = InitialBalance + reported
  BY DEF ReportIsTheAccount, f, Notionals
<1>8. /\ balance \in Int /\ reported \in Int /\ balance' \in Int /\ reported' \in Int
      /\ InitialBalance \in Int
  BY BacktestAssumption DEF Typed
<1>9. balance' + w - reported' = balance + f[t] - reported
  BY DEF w, f
<1>10. balance' + SumFunction(g) = InitialBalance + reported'
  BY <1>4, <1>5, <1>6, <1>7, <1>8, <1>9
<1>. QED
  BY <1>10 DEF ReportIsTheAccount, g, Notionals

\* A slot stays the owner of its position, and the report the account.
LEMMA AccountStep == AccountInv /\ [Next]_vars => AccountInv'
<1>. SUFFICES ASSUME AccountInv, [Next]_vars PROVE AccountInv'
  OBVIOUS
<1>0. Typed /\ Typed'
  BY TypedStep DEF AccountInv
<1>1. CASE UNCHANGED accountVars
  BY <1>0, <1>1 DEF accountVars, ledgerVars, positionVars, tradeVars, AccountInv,
     OwnersRecorded, ReportIsTheAccount, HasPos
<1>2. ASSUME NEW s \in Slots, Filled(s) PROVE AccountInv'
  <2>. DEFINE t == TickerOf[s]
              v == Recorded(order)
  <2>1. t \in Tickers /\ order \in Orders /\ order # NoOrder /\ positions[t] = Exec!NoPosition
    BY <1>2, OrderTypes, BacktestAssumption DEF Filled
  <2>2. /\ positions' = [positions EXCEPT ![t] = v] /\ pos' = [pos EXCEPT ![s] = order]
        /\ balance' = balance - order.price * order.quantity /\ reported' = reported
    BY <1>2 DEF Filled, Recorded, tradeVars
  <2>3. v.direction \in {"BUY", "SELL"}
    BY <2>1 DEF Recorded, Orders
  <2>4. \A r \in Slots : HasPos(r) => TickerOf[r] # t
    <3>1. \A o \in Orders : Recorded(o) # Exec!NoPosition
      BY DEF Recorded, Orders, Exec!NoPosition
    <3>2. \A r \in Slots : HasPos(r) => pos[r] \in Orders
      BY <1>0 DEF Typed, HasPos
    <3>. QED
      BY <2>1, <3>1, <3>2 DEF AccountInv, OwnersRecorded
  <2>5. OwnersRecorded'
    <3>1. pos'[s] = order /\ positions'[t] = v
      BY <1>0, <2>1, <2>2 DEF Typed
    <3>2. \A r \in Slots \ {s} : pos'[r] = pos[r]
      BY <1>0, <2>2 DEF Typed
    <3>3. \A u \in Tickers \ {t} : positions'[u] = positions[u]
      BY <1>0, <2>2 DEF Typed
    <3>4. \A r \in Slots \ {s} : HasPos(r)' => HasPos(r) /\ TickerOf[r] \in Tickers \ {t}
      BY <2>4, <3>2, BacktestAssumption DEF HasPos
    <3>5. \A r \in Slots : HasPos(r)' => positions'[TickerOf[r]] = Recorded(pos'[r])
      BY <3>1, <3>2, <3>3, <3>4 DEF AccountInv, OwnersRecorded
    <3>6. \A r, q \in Slots :
             HasPos(r)' /\ HasPos(q)' /\ TickerOf[r] = TickerOf[q] => r = q
      BY <3>4 DEF AccountInv, OwnersRecorded
    <3>. QED
      BY <3>5, <3>6 DEF OwnersRecorded, Recorded
  <2>6. ReportIsTheAccount'
    <3>1. Notionals(positions)[t] = 0
      BY <2>1 DEF Notionals, Exec!NoPosition
    <3>2. v.entryPrice * v.quantity = order.price * order.quantity
      BY DEF Recorded
    <3>3. order.price * order.quantity \in Int /\ balance \in Int /\ reported \in Int
      BY <1>0, <2>1, OrderTypes DEF Typed
    <3>4. balance' + v.entryPrice * v.quantity - reported'
            = balance + Notionals(positions)[t] - reported
      BY <2>2, <3>1, <3>2, <3>3
    <3>. HIDE DEF v, t
    <3>. QED
      BY <1>0, <2>1, <2>2, <3>4, AccountMoves DEF AccountInv
  <2>. QED
    BY <1>0, <2>5, <2>6 DEF AccountInv
<1>3. ASSUME NEW s \in Slots, NEW exit \in Int, NEW closedAt \in Instants,
             Closed(s, exit, closedAt)
      PROVE  AccountInv'
  <2>. DEFINE t == TickerOf[s]
              o == pos[s]
              none == Exec!NoPosition
  <2>1. t \in Tickers /\ o \in Orders /\ o # NoOrder
    BY <1>3, OrderTypes, BacktestAssumption DEF Closed
  <2>2. positions[t] = Recorded(o)
    BY <2>1 DEF AccountInv, OwnersRecorded, HasPos
  <2>3. /\ positions' = [positions EXCEPT ![t] = none] /\ pos' = [pos EXCEPT ![s] = NoOrder]
        /\ balance' = balance + Exec!Proceeds(positions[t], exit) - Commission(o)
        /\ reported' = reported + NetPnL(o, exit)
    BY <1>3 DEF Closed
  <2>4. OwnersRecorded'
    <3>1. \A r \in Slots \ {s} : pos'[r] = pos[r]
      BY <1>0, <2>3 DEF Typed
    <3>2. ~HasPos(s)'
      BY <1>0, <2>3 DEF Typed, HasPos
    <3>3. \A u \in Tickers \ {t} : positions'[u] = positions[u]
      BY <1>0, <2>3 DEF Typed
    <3>4. \A r \in Slots : HasPos(r)' => r # s /\ HasPos(r) /\ TickerOf[r] \in Tickers \ {t}
      <4>1. \A r \in Slots \ {s} : HasPos(r) => TickerOf[r] # t
        BY <2>1 DEF AccountInv, OwnersRecorded, HasPos
      <4>. QED
        BY <3>1, <3>2, <4>1, BacktestAssumption DEF HasPos
    <3>5. \A r \in Slots : HasPos(r)' => positions'[TickerOf[r]] = Recorded(pos'[r])
      BY <3>1, <3>3, <3>4 DEF AccountInv, OwnersRecorded
    <3>6. \A r, q \in Slots :
             HasPos(r)' /\ HasPos(q)' /\ TickerOf[r] = TickerOf[q] => r = q
      BY <3>4 DEF AccountInv, OwnersRecorded
    <3>. QED
      BY <3>5, <3>6 DEF OwnersRecorded, Recorded
  <2>5. ReportIsTheAccount'
    <3>1. none.entryPrice * none.quantity = 0
      BY DEF Exec!NoPosition
    <3>2. Notionals(positions)[t] = o.price * o.quantity
      BY <2>1, <2>2 DEF Notionals, Recorded
    <3>3. /\ o.price * o.quantity \in Int /\ NetPnL(o, exit) \in Int
          /\ balance \in Int /\ reported \in Int /\ balance' \in Int /\ reported' \in Int
      BY <1>0, <2>1, OrderTypes DEF Typed
    <3>4. /\ Exec!Proceeds(Recorded(o), exit) \in Int /\ Commission(o) \in Int
          /\ Exec!Proceeds(Recorded(o), exit) - Commission(o)
               = o.price * o.quantity + NetPnL(o, exit)
      <4>1. /\ o.price \in Int /\ o.quantity \in Nat
            /\ \A x \in Int, y \in Int : x * y \in Int
        BY <2>1 DEF Orders
      <4>2. Commission(o) \in Int
        BY <4>1, BacktestAssumption DEF Commission
      <4>3. exit * o.quantity \in Int /\ (2 * o.price - exit) * o.quantity \in Int
        BY <4>1
      <4>4. Exec!Proceeds(Recorded(o), exit) \in Int
        BY <4>3 DEF Exec!Proceeds, Recorded
      <4>. QED
        BY <2>1, <4>2, <4>4, ClosingPays
    <3>5. balance' = balance + Exec!Proceeds(Recorded(o), exit) - Commission(o)
      BY <2>2, <2>3
    <3>6. balance' + none.entryPrice * none.quantity - reported'
            = balance + Notionals(positions)[t] - reported
      <4>. DEFINE a == Exec!Proceeds(Recorded(o), exit)
                  b == Commission(o)
                  c == o.price * o.quantity
                  d == NetPnL(o, exit)
      <4>1. /\ a \in Int /\ b \in Int /\ c \in Int /\ d \in Int /\ a - b = c + d
            /\ balance' = balance + a - b /\ reported' = reported + d
        BY <2>3, <3>3, <3>4, <3>5
      <4>. HIDE DEF a, b, c, d
      <4>2. balance' - reported' = balance + c - reported
        BY <3>3, <4>1
      <4>. QED
        BY <3>1, <3>2, <3>3, <4>2 DEF c
    <3>. HIDE DEF none, o, t
    <3>. QED
      BY <1>0, <2>1, <2>3, <3>6, AccountMoves DEF AccountInv
  <2>. QED
    BY <1>0, <2>4, <2>5 DEF AccountInv
<1>. QED
  BY <1>0, <1>1, <1>2, <1>3, StepIs

\* The account begins with the deposit, and the report with nothing.
LEMMA AccountInit == Init => AccountInv
<1>. SUFFICES ASSUME Init PROVE AccountInv
  OBVIOUS
<1>1. Typed
  BY TypedInit
<1>2. OwnersRecorded
  BY DEF Init, OwnersRecorded, HasPos
<1>3. balance = InitialBalance /\ reported = 0 /\ positions = [t \in Tickers |-> Exec!NoPosition]
  BY DEF Init, Exec!Init
<1>4. \A t \in Tickers : Notionals(positions)[t] = 0
  BY <1>3 DEF Notionals, Exec!NoPosition
<1>5. Notionals(positions) \in [Tickers -> Int]
  BY <1>1, NotionalsType DEF Typed
<1>6. SumFunction(Notionals(positions)) = 0
  BY <1>4, <1>5, BacktestAssumption, SumOfZeros
<1>7. InitialBalance \in Int
  BY BacktestAssumption
<1>8. balance + SumFunction(Notionals(positions)) = InitialBalance + reported
  BY <1>3, <1>6, <1>7
<1>. QED
  BY <1>1, <1>2, <1>8 DEF AccountInv, ReportIsTheAccount, Notionals

\* The account always agrees with what the slots hold and the report shows.
LEMMA AccountInvariant == Spec => []AccountInv
BY AccountInit, AccountStep, PTL DEF Spec

\* The report is the account, for any slots and any bars: what the executor
\* holds free and reserved is the deposit and every net result shown, although
\* the account and the report take the commission off at different times.
THEOREM ReportIsTrue == Spec => []ReportIsTheAccount
BY AccountInvariant, PTL DEF AccountInv

-----------------------------------------------------------------------------
(* Days                                                                    *)

\* The time before the first label; no bar is shown then.
InHistory == label.day = 0 => label.minute = DayMinutes - 1 /\ entriesLeft = {}

\* A bar in hand begins where bars of its time frame begin.
Aligned == \A s \in entriesLeft : label.minute % Frame[TickerOf[s]] = 0

WalkBegins == stage # "begin" => entriesLeft # {}

OpenedBefore ==
    \A s \in Slots : HasPos(s) => openedAt[s].day >= 1 /\ NotLater(openedAt[s], label)

\* A slot past its exits holds nothing from another day.
OldOnesAreGone ==
    \A s \in entriesLeft \ exitsLeft : HasPos(s) => openedAt[s].day = label.day

\* instant is not before the position was opened, nor after its day.
WithinDay(opened, instant) ==
    NotLater(opened, instant) /\ NotLater(instant, [day |-> opened.day + 1, minute |-> 0])

\* The last bar a slot saw ended within the day of its position; only in the
\* bar of its entry that bar is yet to come.
LastBarIsOfTheDay ==
    \A s \in Slots :
        HasPos(s) /\ ~AtEntry(s, "sameBar") => WithinDay(openedAt[s], lastBarEnd[s])

JustFilled == \A s \in Slots : AtEntry(s, "sameBar") => openedAt[s] = label

EntriesComeLast == \A s \in Slots : HasPos(s) /\ openedAt[s] = label => exitsLeft = {}

TimeInv ==
    /\ Typed /\ InHistory /\ Aligned /\ WalkBegins /\ OpenedBefore /\ OldOnesAreGone
    /\ LastBarIsOfTheDay /\ JustFilled /\ EntriesComeLast /\ TradesEndWithTheirDay

\* One slot at a time is in turn.
LEMMA OneInTurn ==
    ASSUME NEW left \in SUBSET Slots, NEW r, NEW s, InTurn(r, left), InTurn(s, left)
    PROVE  r = s
<1>1. r \in Slots /\ s \in Slots /\ Rank[r] <= Rank[s] /\ Rank[s] <= Rank[r]
  BY DEF InTurn
<1>2. Rank[r] \in Nat /\ Rank[s] \in Nat
  BY <1>1, BacktestAssumption
<1>3. Rank[r] = Rank[s]
  BY <1>1, <1>2
<1>4. \A x, y \in Slots : Rank[x] = Rank[y] => x = y
  BY BacktestAssumption
<1>. QED
  BY <1>1, <1>3, <1>4

\* A bar that begins on the day of a position ends within that day.
LEMMA BarIsOfTheDay ==
    ASSUME TimeInv, NEW s \in entriesLeft, HasPos(s), openedAt[s].day = label.day
    PROVE  /\ WithinDay(openedAt[s], label)
           /\ WithinDay(openedAt[s], BarEnd(TickerOf[s]))
<1>1. s \in Slots /\ TickerOf[s] \in Tickers
  BY BacktestAssumption DEF TimeInv, Typed
<1>2. Typed /\ label.minute % Frame[TickerOf[s]] = 0 /\ NotLater(openedAt[s], label)
  BY <1>1 DEF TimeInv, Aligned, OpenedBefore
<1>3. LET e == BarEnd(TickerOf[s]) IN
      \/ e.day = label.day /\ e.minute > label.minute
      \/ e.day = label.day + 1 /\ e.minute = 0
  BY <1>1, <1>2, BarEndIs
<1>4. openedAt[s] \in Instants /\ label \in Instants /\ BarEnd(TickerOf[s]) \in Instants
  BY <1>1, <1>2, BarEndIs DEF Typed
<1>. QED
  BY <1>2, <1>3, <1>4 DEF WithinDay, NotLater, Instants

\* A slot that is done with its exits.
LEMMA ExitKeepsTime ==
    ASSUME TimeInv, Typed', NEW s \in Slots, AtExit(s, "exits"), ExitDone(s),
           UNCHANGED <<label, lastBarEnd>>,
           \A r \in Slots : HasPos(r)' => HasPos(r) /\ openedAt'[r] = openedAt[r],
           HasPos(s)' => openedAt[s].day = label.day,
           TradesEndWithTheirDay'
    PROVE  TimeInv'
<1>1. /\ exitsLeft' = exitsLeft \ {s} /\ stage' = "begin" /\ entriesLeft' = entriesLeft
      /\ s \in exitsLeft /\ stage = "exits" /\ label' = label /\ lastBarEnd' = lastBarEnd
  BY DEF ExitDone, AtExit, InTurn
<1>2. entriesLeft \subseteq Slots
  BY DEF TimeInv, Typed
<1>3. InHistory' /\ Aligned' /\ WalkBegins' /\ OpenedBefore'
  BY <1>1 DEF TimeInv, InHistory, Aligned, WalkBegins, OpenedBefore
<1>4. OldOnesAreGone'
  BY <1>1, <1>2 DEF TimeInv, OldOnesAreGone
<1>5. LastBarIsOfTheDay'
  <2>1. \A r \in Slots : ~AtEntry(r, "sameBar")
    BY <1>1 DEF AtEntry
  <2>. QED
    BY <1>1, <2>1 DEF TimeInv, LastBarIsOfTheDay
<1>6. JustFilled'
  BY <1>1 DEF JustFilled, AtEntry
<1>7. EntriesComeLast'
  BY <1>1 DEF TimeInv, EntriesComeLast
<1>. QED
  BY <1>3, <1>4, <1>5, <1>6, <1>7 DEF TimeInv

\* A slot that is done with the bar.
LEMMA EntryKeepsTime ==
    ASSUME TimeInv, Typed', NEW s \in Slots, NEW place, AtEntry(s, place), DoneWithBar(s),
           label' = label,
           \A r \in Slots : HasPos(r)' => HasPos(r) /\ openedAt'[r] = openedAt[r],
           TradesEndWithTheirDay'
    PROVE  TimeInv'
<1>. DEFINE end == BarEnd(TickerOf[s])
<1>1. /\ entriesLeft' = entriesLeft \ {s} /\ stage' = "begin" /\ exitsLeft = {}
      /\ exitsLeft' = {} /\ s \in entriesLeft
      /\ lastBarEnd' = [lastBarEnd EXCEPT ![s] = end]
  BY DEF DoneWithBar, AtEntry, InTurn
<1>2. entriesLeft \subseteq Slots /\ lastBarEnd \in [Slots -> Instants]
  BY DEF TimeInv, Typed
<1>3. InHistory' /\ Aligned' /\ WalkBegins' /\ OpenedBefore'
  BY <1>1 DEF TimeInv, InHistory, Aligned, WalkBegins, OpenedBefore
<1>4. OldOnesAreGone'
  BY <1>1, <1>2 DEF TimeInv, OldOnesAreGone
<1>5. LastBarIsOfTheDay'
  <2>. SUFFICES ASSUME NEW r \in Slots, HasPos(r)' PROVE WithinDay(openedAt'[r], lastBarEnd'[r])
    BY DEF LastBarIsOfTheDay, WithinDay, NotLater
  <2>1. HasPos(r) /\ openedAt'[r] = openedAt[r]
    OBVIOUS
  <2>2. CASE r = s
    <3>1. openedAt[s].day = label.day
      BY <1>1, <2>1, <2>2 DEF TimeInv, OldOnesAreGone
    <3>2. WithinDay(openedAt[s], end)
      BY <1>1, <2>1, <2>2, <3>1, BarIsOfTheDay
    <3>. QED
      BY <1>1, <1>2, <2>1, <2>2, <3>2
  <2>3. CASE r # s
    <3>1. ~AtEntry(r, "sameBar")
      BY <1>2, <2>3, OneInTurn DEF AtEntry
    <3>. QED
      BY <1>1, <1>2, <2>1, <2>3, <3>1 DEF TimeInv, LastBarIsOfTheDay
  <2>. QED
    BY <2>2, <2>3
<1>6. JustFilled'
  BY <1>1 DEF JustFilled, AtEntry
<1>7. EntriesComeLast'
  BY <1>1 DEF EntriesComeLast
<1>. QED
  BY <1>3, <1>4, <1>5, <1>6, <1>7 DEF TimeInv

\* A slot that goes on within its bar, short of a fill.
LEMMA GoingOnKeepsTime ==
    ASSUME TimeInv, Typed', NEW place \in {"exits", "fill"}, ContinueAs(place),
           entriesLeft # {}, stage = "begin",
           UNCHANGED <<label, lastBarEnd, pos, openedAt, trade>>
    PROVE  TimeInv'
<1>1. /\ exitsLeft' = exitsLeft /\ entriesLeft' = entriesLeft
      /\ stage' # "sameBar" /\ stage # "sameBar"
  BY DEF ContinueAs
<1>2. \A r \in Slots : ~AtEntry(r, "sameBar") /\ ~AtEntry(r, "sameBar")'
  BY <1>1 DEF AtEntry
<1>. QED
  BY <1>1, <1>2 DEF TimeInv, InHistory, Aligned, WalkBegins, OpenedBefore, OldOnesAreGone,
     LastBarIsOfTheDay, JustFilled, EntriesComeLast, TradesEndWithTheirDay, HasPos

\* The next label is a later one.
LEMMA NextLabelKeepsTime == ASSUME TimeInv, Typed', NextLabel PROVE TimeInv'
<1>1. /\ exitsLeft = {} /\ entriesLeft = {} /\ exitsLeft' = entriesLeft'
      /\ stage' = stage /\ label' = After(label, 1)
      /\ UNCHANGED <<pos, openedAt, lastBarEnd, trade>>
  BY DEF NextLabel, positionVars, tradeVars
<1>2. stage = "begin"
  BY <1>1 DEF TimeInv, WalkBegins
<1>3. label \in Instants /\ label' \in Instants /\ 1 \in 1..DayMinutes
  BY BacktestAssumption DEF TimeInv, Typed
<1>4. \/ label'.day = label.day /\ label'.minute = label.minute + 1
      \/ label'.day = label.day + 1 /\ label.minute = DayMinutes - 1
  BY <1>1, <1>3, AfterIs, BacktestAssumption DEF Instants
<1>5. InHistory' /\ label'.day >= 1
  <2>1. label.day \in Nat /\ label.minute \in 0..(DayMinutes - 1) /\ label'.minute \in 0..(DayMinutes - 1)
    BY <1>3 DEF Instants
  <2>. QED
    BY <1>4, <2>1, BacktestAssumption DEF TimeInv, InHistory
<1>6. Aligned'
  <2>1. PICK bars \in SUBSET BarsAt(label') : entriesLeft' = SlotsOf(bars)
    BY DEF NextLabel
  <2>. QED
    BY <2>1 DEF SlotsOf, BarsAt, Aligned
<1>7. WalkBegins' /\ OldOnesAreGone' /\ JustFilled'
  BY <1>1, <1>2 DEF WalkBegins, OldOnesAreGone, JustFilled, AtEntry
<1>8. \A s \in Slots : HasPos(s) =>
         openedAt[s].day >= 1 /\ NotLater(openedAt[s], label') /\ openedAt[s] # label'
  <2>1. \A s \in Slots : openedAt[s] \in Instants
    BY DEF TimeInv, Typed
  <2>. QED
    BY <1>3, <1>4, <2>1 DEF TimeInv, OpenedBefore, NotLater, Instants
<1>9. OpenedBefore' /\ EntriesComeLast'
  BY <1>1, <1>8 DEF OpenedBefore, EntriesComeLast, HasPos
<1>10. LastBarIsOfTheDay'
  BY <1>1 DEF TimeInv, LastBarIsOfTheDay, AtEntry, InTurn, HasPos
<1>11. TradesEndWithTheirDay'
  BY <1>1 DEF TimeInv, TradesEndWithTheirDay
<1>. QED
  BY <1>5, <1>6, <1>7, <1>9, <1>10, <1>11 DEF TimeInv

\* A fill is dated by its bar.
LEMMA FillKeepsTime ==
    ASSUME TimeInv, Typed', NEW s \in Slots, AtEntry(s, "fill"), Filled(s),
           ContinueAs("sameBar"), label' = label
    PROVE  TimeInv'
<1>1. /\ exitsLeft = {} /\ InTurn(s, entriesLeft) /\ s \in entriesLeft /\ stage = "fill"
      /\ exitsLeft' = {} /\ entriesLeft' = entriesLeft /\ stage' = "sameBar"
  BY DEF AtEntry, InTurn, ContinueAs
<1>2. /\ pos' = [pos EXCEPT ![s] = order] /\ openedAt' = [openedAt EXCEPT ![s] = label]
      /\ UNCHANGED <<lastBarEnd, trade>>
  BY DEF Filled, tradeVars
<1>3. /\ entriesLeft \subseteq Slots /\ label \in Instants
      /\ openedAt'[s] = label
      /\ \A r \in Slots \ {s} : pos'[r] = pos[r] /\ openedAt'[r] = openedAt[r]
  BY <1>2 DEF TimeInv, Typed
<1>4. label.day >= 1 /\ NotLater(label, label)
  BY <1>1, <1>3 DEF TimeInv, InHistory, NotLater, Instants
<1>5. \A r \in Slots : AtEntry(r, "sameBar")' <=> r = s
  <2>1. \A r \in Slots : AtEntry(r, "sameBar")' <=> InTurn(r, entriesLeft)
    BY <1>1 DEF AtEntry, InTurn
  <2>. QED
    BY <1>1, <1>3, <2>1, OneInTurn
<1>6. InHistory' /\ Aligned' /\ WalkBegins' /\ TradesEndWithTheirDay'
  BY <1>1, <1>2 DEF TimeInv, InHistory, Aligned, WalkBegins, TradesEndWithTheirDay
<1>7. OpenedBefore'
  BY <1>3, <1>4 DEF TimeInv, OpenedBefore, HasPos
<1>8. OldOnesAreGone'
  BY <1>1, <1>3 DEF TimeInv, OldOnesAreGone, HasPos
<1>9. LastBarIsOfTheDay'
  <2>1. \A r \in Slots : ~AtEntry(r, "sameBar")
    BY <1>1 DEF AtEntry
  <2>. QED
    BY <1>2, <1>3, <1>5, <2>1 DEF TimeInv, LastBarIsOfTheDay, HasPos
<1>10. JustFilled' /\ EntriesComeLast'
  BY <1>1, <1>3, <1>5 DEF JustFilled, EntriesComeLast
<1>. QED
  BY <1>6, <1>7, <1>8, <1>9, <1>10 DEF TimeInv

\* A closed position has a trade of one day.
LEMMA ClosedWithinDay ==
    ASSUME TimeInv, NEW s \in Slots, NEW exit \in Int, NEW closedAt \in Instants,
           Closed(s, exit, closedAt), WithinDay(openedAt[s], closedAt)
    PROVE  /\ TradesEndWithTheirDay'
           /\ \A r \in Slots : HasPos(r)' => r # s /\ HasPos(r) /\ openedAt'[r] = openedAt[r]
<1>1. /\ trade' = [openedAt |-> openedAt[s], closedAt |-> closedAt]
      /\ pos' = [pos EXCEPT ![s] = NoOrder]
      /\ openedAt' = [openedAt EXCEPT ![s] = NoInstant]
  BY DEF Closed
<1>2. TradesEndWithTheirDay'
  BY <1>1 DEF TradesEndWithTheirDay, WithinDay
<1>. QED
  BY <1>1, <1>2 DEF TimeInv, Typed, HasPos

\* Every step keeps positions and trades within their day.
LEMMA TimeStep == TimeInv /\ [Next]_vars => TimeInv'
<1>. SUFFICES ASSUME TimeInv, [Next]_vars PROVE TimeInv'
  OBVIOUS
<1>0. Typed /\ Typed' /\ entriesLeft \subseteq Slots /\ exitsLeft \subseteq entriesLeft
  BY TypedStep DEF TimeInv, Typed
<1>1. CASE UNCHANGED vars
  BY <1>0, <1>1 DEF vars, walk, positionVars, tradeVars, TimeInv, InHistory, Aligned,
     WalkBegins, OpenedBefore, OldOnesAreGone, LastBarIsOfTheDay, JustFilled, EntriesComeLast,
     TradesEndWithTheirDay, HasPos, AtEntry, InTurn
<1>2. CASE NextLabel
  BY <1>0, <1>2, NextLabelKeepsTime
<1>3. ASSUME NEW s \in Slots, CheckDailyReset(s) PROVE TimeInv'
  <2>1. entriesLeft # {} /\ stage = "begin"
    BY <1>0, <1>3 DEF CheckDailyReset, AtExit, InTurn
  <2>2. UNCHANGED <<label, lastBarEnd, pos, openedAt, trade>> /\ ContinueAs("exits")
    BY <1>3 DEF CheckDailyReset, positionVars, tradeVars
  <2>. QED
    BY <1>0, <2>1, <2>2, GoingOnKeepsTime
<1>4. ASSUME NEW s \in Slots, CloseMissedEOD(s) \/ IntrabarExit(s) \/ CloseAtEOD(s)
      PROVE  TimeInv'
  <2>1. AtExit(s, "exits") /\ ExitDone(s) /\ UNCHANGED lastBarEnd
    BY <1>0, <1>4, ExitIs
  <2>2. PICK exit \in Int, closedAt \in Instants :
          /\ Closed(s, exit, closedAt)
          /\ \/ MissedEOD(s) /\ closedAt = lastBarEnd[s]
             \/ ~MissedEOD(s) /\ closedAt = label
             \/ ~MissedEOD(s) /\ closedAt = BarEnd(TickerOf[s])
    BY <1>0, <1>4, ExitIs
  <2>3. HasPos(s) /\ s \in exitsLeft /\ ~AtEntry(s, "sameBar") /\ UNCHANGED label
    BY <2>1, <2>2, OrderTypes DEF AtExit, AtEntry, InTurn, Closed, HasPos, NoOrder, Orders
  <2>4. WithinDay(openedAt[s], lastBarEnd[s])
    BY <2>3 DEF TimeInv, LastBarIsOfTheDay
  <2>5. WithinDay(openedAt[s], closedAt)
    <3>1. CASE closedAt = lastBarEnd[s]
      BY <2>4, <3>1
    <3>2. CASE ~MissedEOD(s) /\ (closedAt = label \/ closedAt = BarEnd(TickerOf[s]))
      <4>1. lastBarEnd[s] # NoInstant
        BY <1>0, <2>3, <2>4
           DEF WithinDay, NotLater, NoInstant, TimeInv, OpenedBefore, Typed, Instants
      <4>2. openedAt[s].day = label.day
        BY <3>2, <4>1 DEF MissedEOD
      <4>. QED
        BY <1>0, <2>3, <3>2, <4>2, BarIsOfTheDay
    <3>. QED
      BY <2>2, <3>1, <3>2
  <2>6. /\ TradesEndWithTheirDay'
        /\ \A r \in Slots : HasPos(r)' => r # s /\ HasPos(r) /\ openedAt'[r] = openedAt[r]
    BY <2>2, <2>5, ClosedWithinDay
  <2>. QED
    BY <1>0, <2>1, <2>3, <2>6, ExitKeepsTime
<1>5. ASSUME NEW s \in Slots, NoExit(s) PROVE TimeInv'
  <2>1. AtExit(s, "exits") /\ ExitDone(s) /\ UNCHANGED <<label, lastBarEnd, pos, openedAt, trade>>
    BY <1>5 DEF NoExit, positionVars, tradeVars
  <2>2. HasPos(s) => openedAt[s].day = label.day
    <3>. SUFFICES ASSUME HasPos(s) PROVE openedAt[s].day = label.day
      OBVIOUS
    <3>1. ~AtEntry(s, "sameBar")
      BY <2>1 DEF AtExit, AtEntry
    <3>2. WithinDay(openedAt[s], lastBarEnd[s])
      BY <3>1 DEF TimeInv, LastBarIsOfTheDay
    <3>3. lastBarEnd[s] # NoInstant
      BY <1>0, <3>2
         DEF WithinDay, NotLater, NoInstant, TimeInv, OpenedBefore, Typed, Instants
    <3>4. ~MissedEOD(s)
      BY <1>5 DEF NoExit
    <3>. QED
      BY <3>3, <3>4 DEF MissedEOD
  <2>3. TradesEndWithTheirDay'
    BY <2>1 DEF TimeInv, TradesEndWithTheirDay
  <2>. QED
    BY <1>0, <2>1, <2>2, <2>3, ExitKeepsTime DEF HasPos
<1>6. ASSUME NEW s \in Slots, EntrySkipped(s) \/ Kept(s) PROVE TimeInv'
  <2>1. DoneWithBar(s) /\ UNCHANGED <<label, pos, openedAt, trade>>
    BY <1>6 DEF EntrySkipped, Kept, positionVars, tradeVars
  <2>2. AtEntry(s, "begin") \/ AtEntry(s, "sameBar")
    BY <1>6 DEF EntrySkipped, Kept
  <2>3. TradesEndWithTheirDay'
    BY <2>1 DEF TimeInv, TradesEndWithTheirDay
  <2>. QED
    BY <1>0, <2>1, <2>2, <2>3, EntryKeepsTime DEF HasPos
<1>7. ASSUME NEW s \in Slots, NEW signal \in Signals, EntrySignal(s, signal) PROVE TimeInv'
  <2>1. AtEntry(s, "begin") /\ UNCHANGED <<label, pos, openedAt, trade>>
    BY <1>0, <1>7, SignalIs DEF accountVars, positionVars, tradeVars
  <2>2. (ContinueAs("fill") /\ UNCHANGED lastBarEnd) \/ DoneWithBar(s)
    BY <1>0, <1>7, SignalIs
  <2>3. CASE ContinueAs("fill") /\ UNCHANGED lastBarEnd
    <3>1. stage = "begin" /\ entriesLeft # {}
      BY <2>1 DEF AtEntry, InTurn
    <3>. QED
      BY <1>0, <2>1, <2>3, <3>1, GoingOnKeepsTime
  <2>4. CASE DoneWithBar(s)
    <3>1. TradesEndWithTheirDay'
      BY <2>1 DEF TimeInv, TradesEndWithTheirDay
    <3>. QED
      BY <1>0, <2>1, <2>4, <3>1, EntryKeepsTime DEF HasPos
  <2>. QED
    BY <2>2, <2>3, <2>4
<1>8. ASSUME NEW s \in Slots, Fill(s) PROVE TimeInv'
  <2>1. AtEntry(s, "fill") /\ UNCHANGED <<label, trade>>
    BY <1>8 DEF Fill, tradeVars
  <2>2. CASE Filled(s) /\ ContinueAs("sameBar")
    BY <1>0, <2>1, <2>2, FillKeepsTime
  <2>3. CASE DoneWithBar(s) /\ UNCHANGED accountVars
    <3>1. UNCHANGED <<pos, openedAt>> /\ TradesEndWithTheirDay'
      BY <2>1, <2>3 DEF accountVars, positionVars, TimeInv, TradesEndWithTheirDay
    <3>. QED
      BY <1>0, <2>1, <2>3, <3>1, EntryKeepsTime DEF HasPos
  <2>. QED
    BY <1>0, <1>8, <2>2, <2>3, FillIs
<1>9. ASSUME NEW s \in Slots, SameBarExit(s) PROVE TimeInv'
  <2>1. AtEntry(s, "sameBar") /\ DoneWithBar(s) /\ label \in Instants
    BY <1>0, <1>9, SameBarExitIs DEF Typed
  <2>2. PICK exit \in Int : Closed(s, exit, label)
    BY <1>0, <1>9, SameBarExitIs
  <2>3. WithinDay(openedAt[s], label) /\ UNCHANGED label
    <3>1. openedAt[s] = label
      BY <2>1 DEF TimeInv, JustFilled
    <3>. QED
      BY <2>1, <2>2, <3>1 DEF WithinDay, NotLater, Instants, Closed
  <2>4. /\ TradesEndWithTheirDay'
        /\ \A r \in Slots : HasPos(r)' => r # s /\ HasPos(r) /\ openedAt'[r] = openedAt[r]
    BY <2>1, <2>2, <2>3, ClosedWithinDay
  <2>. QED
    BY <1>0, <2>1, <2>3, <2>4, EntryKeepsTime
<1>. QED
  BY <1>1, <1>2, <1>3, <1>4, <1>5, <1>6, <1>7, <1>8, <1>9
     DEF Next, ProcessExits, ProcessEntries, Finished

\* Before the first bar nothing is held.
LEMMA TimeInit == Init => TimeInv
<1>. SUFFICES ASSUME Init PROVE TimeInv
  OBVIOUS
<1>1. Typed
  BY TypedInit
<1>2. \A s \in Slots : ~HasPos(s)
  BY DEF Init, HasPos
<1>3. exitsLeft = {} /\ entriesLeft = {} /\ stage = "begin" /\ trade = NoTrade
      /\ label.minute = DayMinutes - 1
  BY DEF Init
<1>. QED
  BY <1>1, <1>2, <1>3 DEF TimeInv, InHistory, Aligned, WalkBegins, OpenedBefore,
     OldOnesAreGone, LastBarIsOfTheDay, JustFilled, EntriesComeLast, TradesEndWithTheirDay,
     AtEntry, InTurn

\* Positions and trades always stay within their day.
LEMMA TimeInvariant == Spec => []TimeInv
BY TimeInit, TimeStep, PTL DEF Spec

\* Whatever bars are missing and however long they are, a trade takes no price
\* and no date from a later day (closeMissedEOD).
THEOREM TradesEndTheirDay == Spec => []TradesEndWithTheirDay
BY TimeInvariant, PTL DEF TimeInv

\* For any number of tickers and slots, no position is closed at a label once
\* one was opened at it, but on the bar of its own entry (Run).
THEOREM ExitsComeFirst == Spec => ExitsBeforeEntries
<1>1. TimeInv /\ [Next]_vars
        => [\A s \in Slots :
              HasPos(s) /\ ~HasPos(s)' /\ openedAt[s] # label
                => \A r \in Slots : HasPos(r) => openedAt[r] # label]_vars
  <2>. SUFFICES ASSUME TimeInv, [Next]_vars, NEW s \in Slots,
                       HasPos(s), ~HasPos(s)', openedAt[s] # label,
                       NEW r \in Slots, HasPos(r)
                PROVE  openedAt[r] # label
    OBVIOUS
  <2>0. Typed
    BY DEF TimeInv
  <2>1. ASSUME NEW q \in Slots, CloseMissedEOD(q) \/ IntrabarExit(q) \/ CloseAtEOD(q)
        PROVE  openedAt[r] # label
    <3>1. exitsLeft # {}
      BY <2>0, <2>1, ExitIs DEF AtExit, InTurn
    <3>. QED
      BY <3>1 DEF TimeInv, EntriesComeLast
  <2>2. ASSUME NEW q \in Slots, SameBarExit(q) PROVE FALSE
    <3>1. openedAt[q] = label
      BY <2>2 DEF SameBarExit, TimeInv, JustFilled
    <3>2. PICK exit \in Int : Closed(q, exit, label)
      BY <2>0, <2>2, SameBarExitIs
    <3>3. s # q => pos'[s] = pos[s]
      BY <2>0, <3>2 DEF Closed, Typed
    <3>. QED
      BY <3>1, <3>3 DEF HasPos
  <2>3. ASSUME NEW q \in Slots, Fill(q) PROVE FALSE
    <3>1. Filled(q) \/ UNCHANGED accountVars
      BY <2>0, <2>3, FillIs
    <3>2. CASE Filled(q)
      <4>1. pos' = [pos EXCEPT ![q] = order] /\ order # NoOrder
        BY <3>2, OrderTypes DEF Filled
      <4>. QED
        BY <2>0, <4>1 DEF Typed, HasPos
    <3>3. CASE UNCHANGED accountVars
      BY <3>3 DEF accountVars, positionVars, HasPos
    <3>. QED
      BY <3>1, <3>2, <3>3
  <2>4. ASSUME NEW q \in Slots, \/ CheckDailyReset(q) \/ NoExit(q) \/ EntrySkipped(q) \/ Kept(q)
                                \/ \E signal \in Signals : EntrySignal(q, signal)
        PROVE  FALSE
    BY <2>4 DEF CheckDailyReset, NoExit, EntrySkipped, Kept, EntrySignal, positionVars, HasPos
  <2>5. CASE UNCHANGED vars \/ NextLabel
    BY <2>5 DEF vars, NextLabel, positionVars, HasPos
  <2>. QED
    BY <2>1, <2>2, <2>3, <2>4, <2>5 DEF Next, ProcessExits, ProcessEntries, Finished
<1>. QED
  BY <1>1, TimeInvariant, PTL DEF Spec, ExitsBeforeEntries

-----------------------------------------------------------------------------
(* Reservations                                                            *)

\* No session opens at midnight.  With one that does, a bar that ends at
\* midnight resets the controller to the next day while shorter bars of the
\* old day are still to come; they reset it back, and the reservations of the
\* old day are gone.
OpenInTheMorning == \A s \in Slots : Session[s].open > 0

\* The slot has checked for a new day at this label.
PastReset(s) ==
    s \in entriesLeft /\ (s \in exitsLeft => InTurn(s, exitsLeft) /\ stage = "exits")

\* The controller's day is today once a slot whose session is open checked.
DayIsReset ==
    \A s \in Slots :
        PastReset(s) /\ IsSessionOpen(Session[s], BarEnd(TickerOf[s])) => tradingDate = label.day

\* The controller is never ahead of the bars, nor a position of the controller.
DatesInOrder ==
    /\ tradingDate <= label.day
    /\ \A s \in Slots : HasPos(s) => openedAt[s].day <= tradingDate

\* The order in hand is reserved, and nothing of today is held on its ticker.
OrderIsReserved ==
    \A s \in Slots : AtEntry(s, "fill") =>
        /\ tradingDate = label.day
        /\ openPositions[TickerOf[s]] = TradeRisk(order)
        /\ \A r \in Slots :
              HasPos(r) /\ TickerOf[r] = TickerOf[s] => openedAt[r].day # tradingDate

ReserveInv ==
    /\ TimeInv /\ AccountInv
    /\ DatesInOrder /\ DayIsReset /\ OrderIsReserved /\ ReservedWithinTheDay

\* A session that is open at a bar's end is open on the day of the bar.
LEMMA OpenToday ==
    ASSUME OpenInTheMorning, TimeInv, NEW s \in entriesLeft,
           IsSessionOpen(Session[s], BarEnd(TickerOf[s]))
    PROVE  BarEnd(TickerOf[s]).day = label.day
<1>1. s \in Slots /\ TickerOf[s] \in Tickers
  BY BacktestAssumption DEF TimeInv, Typed
<1>2. Typed /\ label.minute % Frame[TickerOf[s]] = 0
  BY DEF TimeInv, Aligned
<1>3. \/ BarEnd(TickerOf[s]).day = label.day
      \/ BarEnd(TickerOf[s]).minute = 0
  BY <1>1, <1>2, BarEndIs
<1>4. BarEnd(TickerOf[s]).minute >= Session[s].open /\ Session[s].open > 0
  BY <1>1 DEF OpenInTheMorning, IsSessionOpen
<1>5. Session[s].open \in Nat
  BY <1>1, BacktestAssumption
<1>. QED
  BY <1>3, <1>4, <1>5

\* Whatever leaves the controller alone and takes nobody past a reset.
LEMMA LeavesReserved ==
    ASSUME ReserveInv, TimeInv', AccountInv', label' = label, tradingDate' = tradingDate,
           \A r \in Slots : PastReset(r)' => PastReset(r),
           \A r \in Slots : HasPos(r)' =>
              /\ HasPos(r) /\ pos'[r] = pos[r] /\ openedAt'[r] = openedAt[r]
              /\ openPositions'[TickerOf[r]] = openPositions[TickerOf[r]],
           \A r \in Slots : ~AtEntry(r, "fill")'
    PROVE  ReserveInv'
<1>1. DatesInOrder'
  BY DEF ReserveInv, DatesInOrder
<1>2. DayIsReset'
  BY DEF ReserveInv, DayIsReset, BarEnd
<1>3. OrderIsReserved'
  BY DEF OrderIsReserved
<1>4. ReservedWithinTheDay'
  BY DEF ReserveInv, ReservedWithinTheDay
<1>. QED
  BY <1>1, <1>2, <1>3, <1>4 DEF ReserveInv

\* Closing frees the ticker of the position and no other's.
LEMMA ClosedFrees ==
    ASSUME ReserveInv, NEW s \in Slots, NEW exit \in Int, NEW closedAt \in Instants,
           Closed(s, exit, closedAt)
    PROVE  \A r \in Slots : HasPos(r)' =>
              /\ HasPos(r) /\ pos'[r] = pos[r] /\ openedAt'[r] = openedAt[r]
              /\ openPositions'[TickerOf[r]] = openPositions[TickerOf[r]]
<1>1. /\ pos[s] \in Orders
      /\ openPositions' = [openPositions EXCEPT ![TickerOf[s]] = -1]
      /\ pos' = [pos EXCEPT ![s] = NoOrder]
      /\ openedAt' = [openedAt EXCEPT ![s] = NoInstant]
  BY DEF Closed
<1>2. Typed /\ OwnersRecorded
  BY DEF ReserveInv, AccountInv
<1>3. HasPos(s)
  BY <1>1, OrderTypes DEF HasPos
<1>4. \A r \in Slots : HasPos(r)' =>
        r # s /\ HasPos(r) /\ pos'[r] = pos[r] /\ openedAt'[r] = openedAt[r]
  BY <1>1, <1>2 DEF Typed, HasPos
<1>5. \A r \in Slots : HasPos(r) /\ r # s => TickerOf[r] # TickerOf[s]
  BY <1>2, <1>3 DEF OwnersRecorded
<1>6. \A t \in Tickers \ {TickerOf[s]} : openPositions'[t] = openPositions[t]
  BY <1>1, <1>2 DEF Typed
<1>7. \A r \in Slots : TickerOf[r] \in Tickers
  BY BacktestAssumption
<1>. QED
  BY <1>4, <1>5, <1>6, <1>7

\* Who is past the reset stays so, and nobody new is, when a slot is done.
LEMMA DoneIsPast ==
    ASSUME Typed, NEW s \in Slots,
           \/ AtExit(s, "exits") /\ ExitDone(s)
           \/ exitsLeft = {} /\ DoneWithBar(s)
    PROVE  /\ \A r \in Slots : PastReset(r)' => PastReset(r)
           /\ \A r \in Slots : ~AtEntry(r, "fill")'
<1>1. stage' = "begin"
  BY DEF ExitDone, DoneWithBar
<1>2. CASE AtExit(s, "exits") /\ ExitDone(s)
  BY <1>1, <1>2 DEF AtExit, ExitDone, PastReset, AtEntry
<1>3. CASE exitsLeft = {} /\ DoneWithBar(s)
  BY <1>1, <1>3 DEF DoneWithBar, PastReset, AtEntry
<1>. QED
  BY <1>2, <1>3

\* Every step keeps what is held today reserved.
LEMMA ReserveStep ==
    ASSUME OpenInTheMorning PROVE ReserveInv /\ [Next]_vars => ReserveInv'
<1>. SUFFICES ASSUME ReserveInv, [Next]_vars PROVE ReserveInv'
  OBVIOUS
<1>0. /\ TimeInv /\ AccountInv /\ Typed /\ TimeInv' /\ AccountInv' /\ Typed'
      /\ entriesLeft \subseteq Slots /\ exitsLeft \subseteq entriesLeft
      /\ \A r \in Slots : TickerOf[r] \in Tickers
      /\ label.day \in Int /\ tradingDate \in Int
  BY TimeStep, AccountStep, BacktestAssumption
     DEF ReserveInv, TimeInv, AccountInv, Typed, Instants
<1>1. CASE UNCHANGED vars
  BY <1>0, <1>1 DEF vars, walk, riskVars, positionVars, ReserveInv, DatesInOrder, DayIsReset,
     OrderIsReserved, ReservedWithinTheDay, HasPos, AtEntry, InTurn, PastReset, BarEnd
<1>2. CASE NextLabel
  <2>1. /\ UNCHANGED <<pos, openedAt, openPositions, tradingDate>>
        /\ exitsLeft' = entriesLeft' /\ stage' = "begin"
    BY <1>0, <1>2 DEF NextLabel, positionVars, riskVars, TimeInv, WalkBegins
  <2>2. label'.day >= label.day /\ label'.day \in Int
    <3>1. label \in Instants /\ label' \in Instants /\ label' = After(label, 1) /\ 1 \in 1..DayMinutes
      BY <1>0, <1>2, BacktestAssumption DEF NextLabel, Typed
    <3>2. label'.day = label.day \/ label'.day = label.day + 1
      BY <3>1, AfterIs
    <3>. QED
      BY <1>0, <3>1, <3>2 DEF Instants
  <2>3. DatesInOrder'
    BY <1>0, <2>1, <2>2 DEF ReserveInv, DatesInOrder, HasPos
  <2>4. DayIsReset' /\ OrderIsReserved'
    BY <2>1 DEF DayIsReset, PastReset, OrderIsReserved, AtEntry
  <2>5. ReservedWithinTheDay'
    BY <2>1 DEF ReserveInv, ReservedWithinTheDay, HasPos
  <2>. QED
    BY <1>0, <2>3, <2>4, <2>5 DEF ReserveInv
<1>3. ASSUME NEW s \in Slots, CheckDailyReset(s) PROVE ReserveInv'
  <2>. DEFINE end == BarEnd(TickerOf[s])
  <2>1. /\ InTurn(s, exitsLeft) /\ s \in entriesLeft /\ stage' = "exits"
        /\ UNCHANGED <<label, pos, openedAt, exitsLeft, entriesLeft>>
    BY <1>0, <1>3 DEF CheckDailyReset, AtExit, InTurn, ContinueAs, positionVars
  <2>2. \A r \in Slots : ~AtEntry(r, "fill")'
    BY <2>1 DEF AtEntry
  <2>3. \A r \in Slots : PastReset(r)' => PastReset(r) \/ r = s
    <3>1. exitsLeft \subseteq Slots
      BY <1>0
    <3>2. \A r \in Slots : InTurn(r, exitsLeft) => r = s
      BY <2>1, <3>1, OneInTurn
    <3>. QED
      BY <2>1, <3>2 DEF PastReset, InTurn
  <2>4. CASE IsSessionOpen(Session[s], end)
    <3>1. end.day = label.day /\ label.day \in Nat
      BY <1>0, <2>1, <2>4, OpenToday DEF Typed, Instants
    <3>2. Risk!ResetDaily(label.day)
      BY <1>3, <2>4, <3>1 DEF CheckDailyReset
    <3>3. \/ label.day = tradingDate /\ UNCHANGED <<openPositions, tradingDate>>
          \/ label.day # tradingDate /\ tradingDate' = label.day
      BY <3>1, <3>2, ResetIs
    <3>4. tradingDate' = label.day
      BY <3>3
    <3>5. \A r \in Slots : HasPos(r) => openedAt[r].day <= tradingDate /\ openedAt[r].day \in Int
      BY <1>0 DEF ReserveInv, DatesInOrder, Typed, Instants
    <3>6. DatesInOrder'
      BY <1>0, <2>1, <3>4, <3>5 DEF ReserveInv, DatesInOrder, HasPos
    <3>7. DayIsReset' /\ OrderIsReserved'
      BY <2>1, <2>2, <3>4 DEF DayIsReset, OrderIsReserved
    <3>8. ReservedWithinTheDay'
      <4>1. CASE label.day = tradingDate /\ UNCHANGED <<openPositions, tradingDate>>
        BY <2>1, <4>1 DEF ReserveInv, ReservedWithinTheDay, HasPos
      <4>2. CASE label.day # tradingDate
        <5>1. tradingDate < label.day
          BY <1>0, <4>2 DEF ReserveInv, DatesInOrder
        <5>2. \A r \in Slots : HasPos(r) => openedAt[r].day # label.day
          BY <1>0, <3>5, <5>1
        <5>. QED
          BY <2>1, <3>4, <5>2 DEF ReservedWithinTheDay, HasPos
      <4>. QED
        BY <3>3, <4>1, <4>2
    <3>. QED
      BY <1>0, <3>6, <3>7, <3>8 DEF ReserveInv
  <2>5. CASE ~IsSessionOpen(Session[s], end)
    <3>1. UNCHANGED <<openPositions, tradingDate>>
      BY <1>3, <2>5 DEF CheckDailyReset, riskVars
    <3>2. DayIsReset'
      BY <2>1, <2>3, <2>5, <3>1 DEF ReserveInv, DayIsReset, BarEnd
    <3>3. DatesInOrder' /\ OrderIsReserved' /\ ReservedWithinTheDay'
      BY <2>1, <2>2, <3>1 DEF ReserveInv, DatesInOrder, OrderIsReserved, ReservedWithinTheDay, HasPos
    <3>. QED
      BY <1>0, <3>2, <3>3 DEF ReserveInv
  <2>. QED
    BY <2>4, <2>5
<1>4. ASSUME NEW s \in Slots, CloseMissedEOD(s) \/ IntrabarExit(s) \/ CloseAtEOD(s)
      PROVE  ReserveInv'
  <2>1. AtExit(s, "exits") /\ ExitDone(s)
    BY <1>0, <1>4, ExitIs
  <2>2. PICK exit \in Int, closedAt \in Instants : Closed(s, exit, closedAt)
    BY <1>0, <1>4, ExitIs
  <2>3. label' = label /\ tradingDate' = tradingDate
    BY <2>2 DEF Closed
  <2>. QED
    BY <1>0, <2>1, <2>2, <2>3, ClosedFrees, DoneIsPast, LeavesReserved
<1>5. ASSUME NEW s \in Slots, NoExit(s) PROVE ReserveInv'
  <2>1. /\ AtExit(s, "exits") /\ ExitDone(s)
        /\ UNCHANGED <<label, pos, openedAt, openPositions, tradingDate>>
    BY <1>5 DEF NoExit, positionVars, riskVars
  <2>. QED
    BY <1>0, <2>1, DoneIsPast, LeavesReserved DEF HasPos
<1>6. ASSUME NEW s \in Slots, EntrySkipped(s) \/ Kept(s) PROVE ReserveInv'
  <2>1. /\ exitsLeft = {} /\ DoneWithBar(s)
        /\ UNCHANGED <<label, pos, openedAt, openPositions, tradingDate>>
    BY <1>6 DEF EntrySkipped, Kept, AtEntry, positionVars, riskVars
  <2>. QED
    BY <1>0, <2>1, DoneIsPast, LeavesReserved DEF HasPos
<1>7. ASSUME NEW s \in Slots, NEW signal \in Signals, EntrySignal(s, signal) PROVE ReserveInv'
  <2>. DEFINE t == TickerOf[s]
  <2>1. /\ AtEntry(s, "begin") /\ MayEnter(s)
        /\ UNCHANGED <<label, pos, openedAt, tradingDate>>
    BY <1>0, <1>7, SignalIs DEF accountVars, positionVars
  <2>2. \/ /\ ContinueAs("fill") /\ order' \in Orders
           /\ openPositions[t] = -1
           /\ openPositions' = [openPositions EXCEPT ![t] = TradeRisk(order')]
        \/ DoneWithBar(s) /\ UNCHANGED openPositions
    BY <1>0, <1>7, SignalIs
  <2>3. CASE DoneWithBar(s) /\ UNCHANGED openPositions
    BY <1>0, <2>1, <2>3, DoneIsPast, LeavesReserved DEF HasPos, AtEntry
  <2>4. CASE /\ ContinueAs("fill") /\ order' \in Orders
             /\ openPositions[t] = -1
             /\ openPositions' = [openPositions EXCEPT ![t] = TradeRisk(order')]
    <3>1. s \in entriesLeft /\ exitsLeft = {} /\ exitsLeft' = {} /\ entriesLeft' = entriesLeft
      BY <2>1, <2>4 DEF AtEntry, InTurn, ContinueAs
    <3>2. IsSessionOpen(Session[s], BarEnd(t))
      <4>1. /\ BarEnd(t).minute >= Session[s].open + Session[s].delay
            /\ DayAllowed(Session[s], BarEnd(t))
        BY <2>1 DEF MayEnter, EntriesAllowed
      <4>2. Session[s].open \in Nat /\ Session[s].delay \in Nat
        BY BacktestAssumption
      <4>3. BarEnd(t).minute \in Int
        <5>1. label \in Instants /\ Frame[t] \in Nat
          BY <1>0, BacktestAssumption DEF Typed
        <5>2. BarEnd(t) \in Instants
          BY <5>1, AfterType DEF BarEnd
        <5>. QED
          BY <5>2 DEF Instants
      <4>. QED
        BY <4>1, <4>2, <4>3 DEF IsSessionOpen
    <3>3. tradingDate = label.day
      BY <3>1, <3>2 DEF ReserveInv, DayIsReset, PastReset
    <3>4. \A r \in Slots : HasPos(r) /\ TickerOf[r] = t => openedAt[r].day # tradingDate
      <4>1. \A o \in Orders : TradeRisk(o) # -1
        BY OrderTypes
      <4>2. \A r \in Slots : HasPos(r) => pos[r] \in Orders
        BY <1>0 DEF Typed, HasPos
      <4>. QED
        BY <2>4, <4>1, <4>2 DEF ReserveInv, ReservedWithinTheDay
    <3>5. openPositions'[t] = TradeRisk(order')
      BY <1>0, <2>4 DEF Typed
    <3>6. \A u \in Tickers \ {t} : openPositions'[u] = openPositions[u]
      BY <1>0, <2>4 DEF Typed
    <3>7. ReservedWithinTheDay'
      BY <1>0, <2>1, <3>4, <3>6 DEF ReserveInv, ReservedWithinTheDay, HasPos
    <3>8. DatesInOrder' /\ DayIsReset'
      BY <2>1, <3>1 DEF ReserveInv, DatesInOrder, DayIsReset, PastReset, BarEnd, HasPos
    <3>9. OrderIsReserved'
      <4>1. \A r \in Slots : AtEntry(r, "fill")' => r = s
        <5>1. \A r \in Slots : AtEntry(r, "fill")' => InTurn(r, entriesLeft)
          BY <3>1 DEF AtEntry, InTurn
        <5>2. InTurn(s, entriesLeft)
          BY <2>1 DEF AtEntry
        <5>. QED
          BY <1>0, <5>1, <5>2, OneInTurn
      <4>2. \A r \in Slots : HasPos(r)' <=> HasPos(r)
        BY <2>1 DEF HasPos
      <4>. QED
        BY <2>1, <3>3, <3>4, <3>5, <4>1, <4>2 DEF OrderIsReserved, TradeRisk
    <3>. QED
      BY <1>0, <3>7, <3>8, <3>9 DEF ReserveInv
  <2>. QED
    BY <2>2, <2>3, <2>4
<1>8. ASSUME NEW s \in Slots, Fill(s) PROVE ReserveInv'
  <2>. DEFINE t == TickerOf[s]
  <2>1. AtEntry(s, "fill") /\ label' = label
    BY <1>8 DEF Fill
  <2>2. /\ tradingDate = label.day /\ openPositions[t] = TradeRisk(order)
        /\ \A r \in Slots : HasPos(r) /\ TickerOf[r] = t => openedAt[r].day # tradingDate
    BY <2>1 DEF ReserveInv, OrderIsReserved
  <2>3. CASE Filled(s) /\ ContinueAs("sameBar")
    <3>1. /\ pos' = [pos EXCEPT ![s] = order] /\ openedAt' = [openedAt EXCEPT ![s] = label]
          /\ UNCHANGED <<openPositions, tradingDate>>
      BY <2>3 DEF Filled
    <3>2. /\ pos'[s] = order /\ openedAt'[s] = label
          /\ \A r \in Slots \ {s} : pos'[r] = pos[r] /\ openedAt'[r] = openedAt[r]
      BY <1>0, <3>1 DEF Typed
    <3>3. exitsLeft' = exitsLeft /\ entriesLeft' = entriesLeft /\ stage' = "sameBar" /\ exitsLeft = {}
      BY <2>1, <2>3 DEF ContinueAs, AtEntry
    <3>4. DatesInOrder'
      BY <1>0, <2>1, <2>2, <3>1, <3>2 DEF ReserveInv, DatesInOrder, HasPos
    <3>5. DayIsReset'
      BY <2>1, <2>2, <3>1 DEF DayIsReset
    <3>6. OrderIsReserved'
      BY <3>3 DEF OrderIsReserved, AtEntry
    <3>7. ReservedWithinTheDay'
      <4>. SUFFICES ASSUME NEW r \in Slots, HasPos(r)', openedAt'[r].day = tradingDate'
                    PROVE  openPositions'[TickerOf[r]] = TradeRisk(pos'[r])
        BY DEF ReservedWithinTheDay, TradeRisk
      <4>1. CASE r = s
        BY <2>2, <3>1, <3>2, <4>1
      <4>2. CASE r # s
        BY <3>1, <3>2, <4>2 DEF ReserveInv, ReservedWithinTheDay, HasPos
      <4>. QED
        BY <4>1, <4>2
    <3>. QED
      BY <1>0, <3>4, <3>5, <3>6, <3>7 DEF ReserveInv
  <2>4. CASE /\ DoneWithBar(s)
             /\ openPositions' = [openPositions EXCEPT ![t] = -1]
             /\ UNCHANGED <<accountVars, tradingDate>>
    <3>1. UNCHANGED <<pos, openedAt, tradingDate>> /\ exitsLeft = {}
      BY <2>1, <2>4 DEF accountVars, positionVars, AtEntry
    <3>2. /\ \A r \in Slots : PastReset(r)' => PastReset(r)
          /\ \A r \in Slots : ~AtEntry(r, "fill")'
      BY <1>0, <2>4, <3>1, DoneIsPast
    <3>3. \A u \in Tickers \ {t} : openPositions'[u] = openPositions[u]
      BY <1>0, <2>4 DEF Typed
    <3>4. DatesInOrder' /\ DayIsReset' /\ OrderIsReserved'
      BY <2>1, <3>1, <3>2
         DEF ReserveInv, DatesInOrder, DayIsReset, OrderIsReserved, HasPos, BarEnd
    <3>5. ReservedWithinTheDay'
      BY <1>0, <2>2, <3>1, <3>3 DEF ReserveInv, ReservedWithinTheDay, HasPos
    <3>. QED
      BY <1>0, <3>4, <3>5 DEF ReserveInv
  <2>. QED
    BY <1>0, <1>8, <2>3, <2>4, FillIs
<1>9. ASSUME NEW s \in Slots, SameBarExit(s) PROVE ReserveInv'
  <2>1. exitsLeft = {} /\ DoneWithBar(s) /\ label \in Instants
    BY <1>0, <1>9, SameBarExitIs DEF Typed, AtEntry
  <2>2. PICK exit \in Int : Closed(s, exit, label)
    BY <1>0, <1>9, SameBarExitIs
  <2>3. label' = label /\ tradingDate' = tradingDate
    BY <2>2 DEF Closed
  <2>. QED
    BY <1>0, <2>1, <2>2, <2>3, ClosedFrees, DoneIsPast, LeavesReserved
<1>. QED
  BY <1>1, <1>2, <1>3, <1>4, <1>5, <1>6, <1>7, <1>8, <1>9
     DEF Next, ProcessExits, ProcessEntries, Finished

\* Before the first bar nothing is held, and the controller has no date.
LEMMA ReserveInit == Init => ReserveInv
<1>. SUFFICES ASSUME Init PROVE ReserveInv
  OBVIOUS
<1>1. TimeInv /\ AccountInv
  BY TimeInit, AccountInit
<1>2. \A s \in Slots : ~HasPos(s)
  BY DEF Init, HasPos
<1>3. entriesLeft = {} /\ tradingDate = -1 /\ label.day = 0
  BY DEF Init, Risk!Init
<1>. QED
  BY <1>1, <1>2, <1>3 DEF ReserveInv, DatesInOrder, DayIsReset, OrderIsReserved,
     ReservedWithinTheDay, PastReset, AtEntry, InTurn

\* While the controller's day lasts, a position of that day is backed by its
\* own risk: the resets of the slots, each by its own session, do not lose it
\* (checkDailyReset, GlobalRiskController.ResetDaily).
THEOREM TodaysRiskIsReserved ==
    ASSUME OpenInTheMorning PROVE Spec => []ReservedWithinTheDay
<1>1. ReserveInv /\ [Next]_vars => ReserveInv'
  BY ReserveStep
<1>2. ReserveInv => ReservedWithinTheDay
  BY DEF ReserveInv
<1>. QED
  BY <1>1, <1>2, ReserveInit, PTL DEF Spec

-----------------------------------------------------------------------------
(* The download                                                            *)

Rows == [bar : Nat, final : BOOLEAN]
Jobs == [kind : {"none", "sync", "fetch"}, start : Nat, to : Nat,
         attempt : Nat, reauthed : BOOLEAN]
Results == [kind : {"none", "sync", "fetch"}, ok : BOOLEAN, to : Nat]

DownloadTypes ==
    /\ now \in Nat /\ traded \in SUBSET Nat
    /\ file \in Seq(Rows) /\ memory \in Seq(Rows) /\ answer \in Seq(Rows)
    /\ job \in Jobs /\ result \in Results

\* All that was traded up to the last bar kept, each once and in order.
Complete(rows) == Download!Lists(rows, traded \cap 0..Download!LastBar(rows))

\* Where the download that runs puts its bars.
Collected == IF job.kind = "sync" THEN file ELSE memory

\* Between what is kept and the next window nobody has traded.
NothingSkipped ==
    /\ Download!LastBar(Collected) < job.start
    /\ \A b \in traded : b <= Download!LastBar(Collected) \/ job.start <= b

JobIsSound ==
    Download!Running =>
        /\ job.kind \in {"sync", "fetch"} /\ ~result.ok
        /\ job.start <= job.to /\ job.to <= now
        /\ NothingSkipped

\* The first bars of the window, perhaps behind the last one kept.
AnswerIsSound ==
    answer # <<>> =>
        /\ Download!Running
        /\ Download!Ascending(answer)
        /\ Download!LastBar(answer) \in Download!Offered
        /\ Download!Bars(answer) \subseteq Download!Offered \cup Download!Seam
        /\ \A b \in Download!Offered :
              b <= Download!LastBar(answer) => b \in Download!Bars(answer)

\* The last download that succeeded got all up to its end.
ResultIsSound ==
    result.ok /\ ~Download!Running =>
        \/ result.kind = "sync" /\ Download!Lists(file, traded \cap 0..result.to)
        \/ result.kind = "fetch" /\ Download!Lists(memory, traded \cap 0..result.to)

DownloadInv ==
    /\ DownloadTypes
    /\ Complete(file) /\ Complete(memory)
    /\ JobIsSound /\ AnswerIsSound /\ ResultIsSound


\* The rows of a file and of the answers to come.
LEMMA RowsAre ==
    ASSUME NEW rows \in Seq(Rows)
    PROVE  /\ Len(rows) \in Nat /\ DOMAIN rows = 1..Len(rows)
           /\ \A i \in 1..Len(rows) : rows[i].bar \in Nat
           /\ Download!Bars(rows) = {rows[i].bar : i \in 1..Len(rows)}
           /\ Download!Bars(rows) \in SUBSET Nat
           /\ Download!Ascending(rows)
                <=> \A i, j \in 1..Len(rows) : i < j => rows[i].bar < rows[j].bar
           /\ rows = <<>> => Len(rows) = 0 /\ Download!LastBar(rows) = -1
           /\ rows # <<>> => /\ Len(rows) \in 1..Len(rows)
                             /\ Download!LastBar(rows) = rows[Len(rows)].bar
           /\ Download!LastBar(rows) \in Int
<1>1. Len(rows) \in Nat /\ DOMAIN rows = 1..Len(rows)
  BY LenProperties
<1>2. \A i \in 1..Len(rows) : rows[i].bar \in Nat
  <2>1. \A i \in 1..Len(rows) : rows[i] \in Rows
    BY ElementOfSeq
  <2>. QED
    BY <2>1 DEF Rows
<1>3. Download!Bars(rows) = {rows[i].bar : i \in 1..Len(rows)}
  BY <1>1 DEF Download!Bars
<1>4. Download!Bars(rows) \in SUBSET Nat
  BY <1>2, <1>3
<1>5. Download!Ascending(rows)
        <=> \A i, j \in 1..Len(rows) : i < j => rows[i].bar < rows[j].bar
  BY <1>1 DEF Download!Ascending
<1>6. rows = <<>> => Len(rows) = 0 /\ Download!LastBar(rows) = -1
  BY DEF Download!LastBar
<1>7. rows # <<>> => Len(rows) \in 1..Len(rows)
  BY <1>1, EmptySeq
<1>8. rows # <<>> => Download!LastBar(rows) = rows[Len(rows)].bar
  BY DEF Download!LastBar, Download!Last
<1>9. Download!LastBar(rows) \in Int
  BY <1>2, <1>6, <1>7, <1>8
<1>. QED
  BY <1>1, <1>2, <1>3, <1>4, <1>5, <1>6, <1>7, <1>8, <1>9

\* The last bar is the latest.
LEMMA LastIsLatest ==
    ASSUME NEW rows \in Seq(Rows), Download!Ascending(rows)
    PROVE  /\ \A b \in Download!Bars(rows) : b <= Download!LastBar(rows)
           /\ rows # <<>> => Download!LastBar(rows) \in Download!Bars(rows)
<1>1. ASSUME NEW b \in Download!Bars(rows) PROVE b <= Download!LastBar(rows)
  <2>1. PICK i \in 1..Len(rows) : b = rows[i].bar
    BY <1>1, RowsAre
  <2>2. rows # <<>> /\ Len(rows) \in 1..Len(rows)
    BY RowsAre
  <2>3. rows[i].bar <= rows[Len(rows)].bar
    <3>1. CASE i = Len(rows)
      BY <3>1, RowsAre
    <3>2. CASE i # Len(rows)
      <4>1. i < Len(rows)
        BY <3>2, RowsAre
      <4>. QED
        BY <2>2, <4>1, RowsAre
    <3>. QED
      BY <3>1, <3>2
  <2>. QED
    BY <2>1, <2>2, <2>3, RowsAre
<1>2. ASSUME rows # <<>> PROVE Download!LastBar(rows) \in Download!Bars(rows)
  BY <1>2, RowsAre
<1>. QED
  BY <1>1, <1>2

\* Later bars behind earlier ones.
LEMMA JoinedRows ==
    ASSUME NEW rows \in Seq(Rows), NEW more \in Seq(Rows),
           Download!Ascending(rows), Download!Ascending(more),
           \A b \in Download!Bars(more) : Download!LastBar(rows) < b
    PROVE  /\ rows \o more \in Seq(Rows)
           /\ Download!Ascending(rows \o more)
           /\ Download!Bars(rows \o more) = Download!Bars(rows) \cup Download!Bars(more)
           /\ more # <<>> => Download!LastBar(rows \o more) = Download!LastBar(more)
           /\ more = <<>> => Download!LastBar(rows \o more) = Download!LastBar(rows)
<1>. DEFINE all == rows \o more
            n == Len(rows)
            k == Len(more)
<1>1. /\ all \in Seq(Rows) /\ Len(all) = n + k /\ n \in Nat /\ k \in Nat
      /\ \A i \in 1..(n + k) : all[i] = IF i <= n THEN rows[i] ELSE more[i - n]
  BY ConcatProperties, LenProperties
<1>2. /\ \A i \in 1..n : all[i] = rows[i]
      /\ \A i \in 1..k : all[n + i] = more[i]
      /\ \A i \in 1..(n + k) : i \in 1..n \/ \E j \in 1..k : i = n + j
  <2>1. ASSUME NEW i \in 1..(n + k), i \notin 1..n PROVE \E j \in 1..k : i = n + j
    <3>1. i - n \in 1..k /\ i = n + (i - n)
      BY <1>1, <2>1
    <3>. QED
      BY <3>1
  <2>2. ASSUME NEW i \in 1..k PROVE all[n + i] = more[i]
    <3>1. n + i \in 1..(n + k) /\ ~(n + i <= n) /\ (n + i) - n = i
      BY <1>1
    <3>. QED
      BY <1>1, <3>1
  <2>3. \A i \in 1..n : i \in 1..(n + k) /\ i <= n
    BY <1>1
  <2>. QED
    BY <1>1, <2>1, <2>2, <2>3
<1>3. ASSUME NEW i \in 1..n, NEW j \in 1..k PROVE rows[i].bar < more[j].bar
  <2>1. rows[i].bar \in Download!Bars(rows) /\ more[j].bar \in Download!Bars(more)
    BY RowsAre
  <2>2. rows[i].bar <= Download!LastBar(rows) /\ Download!LastBar(rows) < more[j].bar
    BY <2>1, LastIsLatest
  <2>. QED
    BY <2>2, RowsAre
<1>. HIDE DEF all, n, k
<1>4. Download!Ascending(all)
  <2>. SUFFICES ASSUME NEW i \in 1..(n + k), NEW j \in 1..(n + k), i < j
                PROVE  all[i].bar < all[j].bar
    BY <1>1, RowsAre
  <2>1. CASE j \in 1..n
    <3>1. i \in 1..n
      BY <1>1, <2>1
    <3>. QED
      BY <1>2, <2>1, <3>1, RowsAre DEF n
  <2>2. CASE j \notin 1..n /\ i \in 1..n
    BY <1>2, <1>3, <2>2
  <2>3. CASE j \notin 1..n /\ i \notin 1..n
    <3>1. PICK p \in 1..k : i = n + p
      BY <1>2, <2>3
    <3>2. PICK q \in 1..k : j = n + q
      BY <1>2, <2>3
    <3>3. p < q
      BY <1>1, <3>1, <3>2
    <3>4. more[p].bar < more[q].bar
      BY <3>3, RowsAre DEF k
    <3>. QED
      BY <1>2, <3>1, <3>2, <3>4
  <2>. QED
    BY <2>1, <2>2, <2>3
<1>5. Download!Bars(all) = Download!Bars(rows) \cup Download!Bars(more)
  <2>1. Download!Bars(all) = {all[i].bar : i \in 1..(n + k)}
    BY <1>1, RowsAre
  <2>2. Download!Bars(rows) = {rows[i].bar : i \in 1..n}
        /\ Download!Bars(more) = {more[i].bar : i \in 1..k}
    BY RowsAre DEF n, k
  <2>3. \A i \in 1..n : i \in 1..(n + k)
    BY <1>1
  <2>4. \A i \in 1..k : n + i \in 1..(n + k)
    BY <1>1
  <2>. QED
    BY <1>2, <2>1, <2>2, <2>3, <2>4
<1>6. ASSUME more # <<>> PROVE Download!LastBar(all) = Download!LastBar(more)
  <2>1. k \in 1..k
    BY <1>6, RowsAre DEF k
  <2>2. Len(all) = n + k /\ all # <<>>
    BY <1>1, <2>1, EmptySeq
  <2>3. all[n + k] = more[k]
    BY <1>2, <2>1
  <2>. QED
    BY <1>1, <1>6, <2>2, <2>3, RowsAre DEF k
<1>7. ASSUME more = <<>> PROVE Download!LastBar(all) = Download!LastBar(rows)
  BY <1>7, ConcatEmptySeq DEF all
<1>. QED
  BY <1>1, <1>4, <1>5, <1>6, <1>7 DEF all

\* The first of them.
LEMMA FirstRows ==
    ASSUME NEW rows \in Seq(Rows), Download!Ascending(rows), NEW n \in 0..Len(rows)
    PROVE  /\ SubSeq(rows, 1, n) \in Seq(Rows)
           /\ Download!Ascending(SubSeq(rows, 1, n))
           /\ Download!Bars(SubSeq(rows, 1, n))
                = {b \in Download!Bars(rows) : b <= Download!LastBar(SubSeq(rows, 1, n))}
           /\ n = 0 => SubSeq(rows, 1, n) = <<>>
           /\ n # 0 => SubSeq(rows, 1, n) # <<>>
<1>. DEFINE some == SubSeq(rows, 1, n)
<1>1. /\ some \in Seq(Rows) /\ Len(some) = n /\ n \in Nat
      /\ \A i \in 1..n : some[i] = rows[i] /\ i \in 1..Len(rows)
  <2>1. Len(rows) \in Nat
    BY RowsAre
  <2>2. \A i \in 1..n : i \in 1..Len(rows) /\ rows[i] \in Rows
    BY <2>1, ElementOfSeq
  <2>3. n \in Int /\ n - 1 + 1 = n /\ (~(1 <= n) => n = 0) /\ \A i \in 1..n : 1 + i - 1 = i
    BY <2>1
  <2>4. /\ some \in Seq(Rows) /\ Len(some) = IF 1 <= n THEN n - 1 + 1 ELSE 0
        /\ \A i \in 1..(n - 1 + 1) : some[i] = rows[1 + i - 1]
    BY <2>2, <2>3, SubSeqProperties
  <2>. QED
    BY <2>1, <2>2, <2>3, <2>4
<1>2. some = <<>> <=> n = 0
  BY <1>1, EmptySeq
<1>. HIDE DEF some
<1>3. Download!Ascending(some)
  BY <1>1, RowsAre
<1>4. Download!Bars(some) = {b \in Download!Bars(rows) : b <= Download!LastBar(some)}
  <2>1. Download!Bars(some) = {some[i].bar : i \in 1..n}
        /\ Download!Bars(rows) = {rows[i].bar : i \in 1..Len(rows)}
    BY <1>1, RowsAre
  <2>2. \A b \in Download!Bars(some) : b \in Download!Bars(rows) /\ b <= Download!LastBar(some)
    BY <1>1, <1>3, <2>1, LastIsLatest
  <2>3. ASSUME NEW b \in Download!Bars(rows), b <= Download!LastBar(some)
        PROVE  b \in Download!Bars(some)
    <3>1. PICK i \in 1..Len(rows) : b = rows[i].bar
      BY <2>1
    <3>2. i \in Nat /\ b \in Nat /\ Len(rows) \in Nat
      BY <3>1, RowsAre
    <3>3. n # 0
      BY <1>1, <1>2, <2>3, <3>2, RowsAre
    <3>4. n \in 1..n /\ n \in 1..Len(rows) /\ Download!LastBar(some) = rows[n].bar
      BY <1>1, <1>2, <3>3, RowsAre
    <3>5. ~(n < i)
      BY <1>1, <2>3, <3>1, <3>4, RowsAre
    <3>6. i \in 1..n
      BY <1>1, <3>2, <3>5
    <3>. QED
      BY <1>1, <2>1, <3>1, <3>6
  <2>. QED
    BY <2>2, <2>3
<1>. QED
  BY <1>1, <1>2, <1>3, <1>4 DEF some

\* An empty file.
LEMMA NoRows ==
    /\ <<>> \in Seq(Rows) /\ Download!LastBar(<<>>) = -1
    /\ Download!Ascending(<<>>) /\ Download!Bars(<<>>) = {}
<1>1. <<>> \in Seq(Rows) /\ Len(<<>>) = 0 /\ 1..0 = {}
  OBVIOUS
<1>2. \A rows : rows = <<>> => Download!LastBar(rows) = -1
  BY DEF Download!LastBar
<1>. QED
  BY <1>1, <1>2, RowsAre


\* A set of numbers has a least one.
LEMMA LeastIs ==
    ASSUME NEW S \in SUBSET Nat, S # {}
    PROVE  \E n \in S : \A m \in S : n <= m
<1>1. PICK n \in S : \A m \in S : ~(<<m, n>> \in OpToRel(<, Nat))
  BY NatLessThanWellFounded, WFMin
<1>2. \A m \in S : ~(m < n)
  BY <1>1 DEF OpToRel
<1>. QED
  BY <1>2

\* What is newer than a bar, when the rows go on behind it.
LEMMA NewerRows ==
    ASSUME NEW rows \in Seq(Rows), Download!Ascending(rows), rows # <<>>,
           NEW last \in Int, last < Download!LastBar(rows)
    PROVE  /\ Download!CandlesAfter(last, rows) \in Seq(Rows)
           /\ Download!Ascending(Download!CandlesAfter(last, rows))
           /\ Download!Bars(Download!CandlesAfter(last, rows))
                = {b \in Download!Bars(rows) : last < b}
           /\ Download!CandlesAfter(last, rows) # <<>>
           /\ Download!LastBar(Download!CandlesAfter(last, rows)) = Download!LastBar(rows)
<1>. DEFINE I == {i \in 1..Len(rows) : rows[i].bar > last}
            n == Len(rows)
            new == Download!CandlesAfter(last, rows)
<1>1. n \in Nat /\ n \in 1..n /\ n \in I /\ I \in SUBSET Nat
  BY RowsAre
<1>2. PICK k \in I : \A i \in I : k <= i
  BY <1>1, LeastIs
<1>. DEFINE least == CHOOSE x \in I : \A y \in I : x <= y
<1>3. least \in I /\ \A i \in I : least <= i
  BY <1>2
<1>4. Download!SelectInSeq(rows, LAMBDA b : b.bar > last) = least
  BY <1>1 DEF Download!SelectInSeq, Download!Min
<1>. HIDE DEF least
<1>5. new = SubSeq(rows, least, n)
  <2>1. least # 0
    BY <1>3
  <2>. QED
    BY <1>4, <2>1 DEF Download!CandlesAfter
<1>6. least \in 1..n /\ last < rows[least].bar
      /\ \A i \in 1..n : i < least => ~(last < rows[i].bar)
  BY <1>1, <1>3, RowsAre
<1>. HIDE DEF I, new
<1>. DEFINE m == n - least + 1
<1>7. /\ new \in Seq(Rows) /\ Len(new) = m /\ m \in Nat /\ m # 0
      /\ \A i \in 1..m : new[i] = rows[least + i - 1] /\ least + i - 1 \in 1..n
                         /\ least <= least + i - 1
  <2>1. \A i \in least..n : i \in 1..n /\ rows[i] \in Rows
    BY <1>1, <1>6, ElementOfSeq
  <2>2. least \in Int /\ n \in Int /\ least <= n /\ m \in Nat /\ m # 0
    BY <1>1, <1>6
  <2>3. /\ new \in Seq(Rows) /\ Len(new) = m
        /\ \A i \in 1..m : new[i] = rows[least + i - 1]
    BY <1>5, <2>1, <2>2, SubSeqProperties
  <2>4. \A i \in 1..m : least + i - 1 \in 1..n /\ least <= least + i - 1
    BY <1>1, <1>6
  <2>. QED
    BY <2>2, <2>3, <2>4
<1>8. \A i \in 1..n : least <= i => i - least + 1 \in 1..m /\ new[i - least + 1] = rows[i]
  <2>. SUFFICES ASSUME NEW i \in 1..n, least <= i
                PROVE  i - least + 1 \in 1..m /\ new[i - least + 1] = rows[i]
    OBVIOUS
  <2>1. i - least + 1 \in 1..m /\ least + (i - least + 1) - 1 = i
    BY <1>1, <1>6
  <2>. QED
    BY <1>7, <2>1
<1>9. new # <<>>
  BY <1>7, EmptySeq
<1>10. \A i \in 1..n : least <= i => last < rows[i].bar
  <2>. SUFFICES ASSUME NEW i \in 1..n, least <= i PROVE last < rows[i].bar
    OBVIOUS
  <2>1. CASE i = least
    BY <1>6, <2>1
  <2>2. CASE i # least
    <3>1. least < i
      BY <1>6, <2>2
    <3>2. rows[least].bar < rows[i].bar /\ rows[least].bar \in Nat /\ rows[i].bar \in Nat
      BY <1>6, <3>1, RowsAre DEF n
    <3>. QED
      BY <1>6, <3>2
  <2>. QED
    BY <2>1, <2>2
<1>11. Download!Ascending(new)
  <2>1. ASSUME NEW i \in 1..m, NEW j \in 1..m, i < j PROVE new[i].bar < new[j].bar
    <3>1. least + i - 1 < least + j - 1
      BY <1>6, <1>7, <2>1
    <3>2. rows[least + i - 1].bar < rows[least + j - 1].bar
      BY <1>7, <3>1, RowsAre DEF n
    <3>. QED
      BY <1>7, <3>2
  <2>. QED
    BY <1>7, <2>1, RowsAre
<1>12. Download!Bars(new) = {b \in Download!Bars(rows) : last < b}
  <2>1. Download!Bars(new) = {new[i].bar : i \in 1..m}
        /\ Download!Bars(rows) = {rows[i].bar : i \in 1..n}
    BY <1>7, RowsAre DEF n
  <2>2. ASSUME NEW b \in Download!Bars(new) PROVE b \in Download!Bars(rows) /\ last < b
    <3>1. PICK i \in 1..m : b = new[i].bar
      BY <2>1
    <3>2. b = rows[least + i - 1].bar /\ least + i - 1 \in 1..n /\ least <= least + i - 1
      BY <1>7, <3>1
    <3>. QED
      BY <1>10, <2>1, <3>2
  <2>3. ASSUME NEW b \in Download!Bars(rows), last < b PROVE b \in Download!Bars(new)
    <3>1. PICK i \in 1..n : b = rows[i].bar
      BY <2>1
    <3>2. least <= i
      BY <1>1, <1>6, <2>3, <3>1
    <3>. QED
      BY <1>8, <2>1, <3>1, <3>2
  <2>. QED
    BY <2>2, <2>3
<1>13. Download!LastBar(new) = Download!LastBar(rows)
  <2>1. Download!LastBar(new) = new[m].bar /\ m \in 1..m
    BY <1>7, <1>9, RowsAre
  <2>2. least + m - 1 = n
    BY <1>1, <1>6
  <2>. QED
    BY <1>7, <2>1, <2>2, RowsAre DEF n
<1>. QED
  BY <1>7, <1>9, <1>11, <1>12, <1>13 DEF new

-----------------------------------------------------------------------------
(* The steps of the download                                               *)

\* What the invariant is made of, in the words of the steps.
LEMMA DownloadFacts ==
    ASSUME DownloadInv
    PROVE  /\ now \in Nat /\ traded \in SUBSET Nat
           /\ file \in Seq(Rows) /\ memory \in Seq(Rows) /\ answer \in Seq(Rows)
           /\ job \in Jobs /\ result \in Results
           /\ Complete(file) /\ Complete(memory)
           /\ job.start \in Nat /\ job.to \in Nat
           /\ Collected \in Seq(Rows) /\ Complete(Collected)
           /\ Download!LastBar(file) \in Int /\ -1 <= Download!LastBar(file)
           /\ Download!LastBar(memory) \in Int /\ -1 <= Download!LastBar(memory)
<1>1. DownloadTypes /\ Complete(file) /\ Complete(memory)
  BY DEF DownloadInv
<1>2. job.start \in Nat /\ job.to \in Nat
  BY <1>1 DEF DownloadTypes, Jobs
<1>3. ASSUME NEW rows \in Seq(Rows)
      PROVE  Download!LastBar(rows) \in Int /\ -1 <= Download!LastBar(rows)
  BY RowsAre
<1>. QED
  BY <1>1, <1>2, <1>3 DEF DownloadTypes, Collected

\* A step that changes nothing a property of the download is about.
LEMMA DownloadStutters ==
    ASSUME DownloadInv, now' \in Nat, now <= now',
           UNCHANGED <<traded, file, job, answer, memory, result>>
    PROVE  DownloadInv'
<1>1. DownloadTypes'
  BY DEF DownloadInv, DownloadTypes
<1>2. Complete(file)' /\ Complete(memory)'
  BY DEF DownloadInv, Complete, Download!Lists, Download!LastBar, Download!Ascending, Download!Bars
<1>3. JobIsSound'
  <2>1. Collected' = Collected
    BY DEF Collected
  <2>2. NothingSkipped => NothingSkipped'
    BY <2>1 DEF NothingSkipped, Download!LastBar
  <2>3. Download!Running' = Download!Running
    BY DEF Download!Running
  <2>4. job.to <= now => job'.to <= now'
    BY DEF DownloadInv, DownloadTypes, Jobs
  <2>. QED
    BY <2>2, <2>3, <2>4 DEF DownloadInv, JobIsSound
<1>4. AnswerIsSound'
  BY DEF DownloadInv, AnswerIsSound, Download!Running, Download!Ascending, Download!LastBar,
         Download!Offered, Download!Seam, Download!Window, Download!Bars
<1>5. ResultIsSound'
  BY DEF DownloadInv, ResultIsSound, Download!Running, Download!Lists, Download!Ascending,
         Download!Bars
<1>. QED
  BY <1>1, <1>2, <1>3, <1>4, <1>5 DEF DownloadInv

\* The start of a sync and of a fetch.
LEMMA DownloadBegins ==
    ASSUME DownloadInv, Download!Sync \/ Download!Fetch PROVE DownloadInv'
<1>1. PICK kind \in {"sync", "fetch"}, from \in Nat :
        /\ ~Download!Running /\ from <= now
        /\ job' = [kind |-> kind, start |-> from, to |-> now, attempt |-> 0, reauthed |-> FALSE]
        /\ result' = Download!NoResult /\ memory' = <<>>
        /\ UNCHANGED <<now, traded, token, file, tail, answer>>
        /\ \/ kind = "sync" /\ from = Download!LastBar(file) + 1
           \/ kind = "fetch" /\ from = 0
  <2>1. CASE Download!Sync
    <3>1. Download!LastBar(file) + 1 \in Nat
      BY DownloadFacts
    <3>. QED
      BY <2>1, <3>1 DEF Download!Sync, Download!Begin
  <2>2. CASE Download!Fetch
    <3>1. 0 \in Nat
      OBVIOUS
    <3>. QED
      BY <2>2, <3>1 DEF Download!Fetch, Download!Begin
  <2>. QED
    BY <2>1, <2>2
<1>2. /\ ~Download!Running /\ from <= now
      /\ job' = [kind |-> kind, start |-> from, to |-> now, attempt |-> 0, reauthed |-> FALSE]
      /\ result' = Download!NoResult /\ memory' = <<>>
      /\ UNCHANGED <<now, traded, token, file, tail, answer>>
  BY <1>1
<1>3. /\ job'.kind = kind /\ job'.start = from /\ job'.to = now
      /\ ~result'.ok
  BY <1>2 DEF Download!NoResult
<1>4. job' # Download!NoJob
  BY <1>1, <1>3 DEF Download!NoJob
<1>5. answer = <<>>
  BY <1>2 DEF DownloadInv, AnswerIsSound
<1>6. DownloadTypes'
  <2>1. job' \in Jobs
    BY <1>1, <1>2, DownloadFacts DEF Jobs
  <2>2. result' \in Results
    <3>1. 0 \in Nat
      OBVIOUS
    <3>. QED
      BY <1>2, <3>1 DEF Results, Download!NoResult
  <2>. QED
    BY <1>2, <2>1, <2>2, DownloadFacts DEF DownloadTypes
<1>7. Complete(file)'
  BY <1>2, DownloadFacts DEF Complete, Download!Lists, Download!LastBar, Download!Ascending, Download!Bars
<1>8. /\ Download!LastBar(memory') = -1 /\ Download!Ascending(memory')
      /\ Download!Bars(memory') = {}
  BY <1>2, NoRows
<1>9. Complete(memory)'
  <2>1. memory' = <<>> /\ traded \cap 0..-1 = {}
    BY <1>2, DownloadFacts
  <2>. QED
    BY <1>2, <2>1, NoRows DEF Complete, Download!Lists, Download!LastBar, Download!Ascending, Download!Bars
<1>10. JobIsSound'
  <2>1. CASE kind = "sync"
    <3>1. Collected' = file /\ from = Download!LastBar(file) + 1
      BY <1>1, <1>2, <1>3, <2>1 DEF Collected
    <3>2. /\ Download!LastBar(file) < from
          /\ \A b \in traded : b <= Download!LastBar(file) \/ from <= b
      BY <3>1, DownloadFacts
    <3>3. NothingSkipped'
      BY <1>2, <1>3, <3>1, <3>2 DEF NothingSkipped, Download!LastBar
    <3>. QED
      BY <1>2, <1>3, <2>1, <3>3, DownloadFacts DEF JobIsSound
  <2>2. CASE kind = "fetch"
    <3>1. Collected' = memory' /\ from = 0
      BY <1>1, <1>2, <1>3, <2>2 DEF Collected
    <3>2. Download!LastBar(memory') < from /\ \A b \in traded : from <= b
      BY <1>8, <3>1, DownloadFacts
    <3>3. NothingSkipped'
      BY <1>2, <1>3, <3>1, <3>2 DEF NothingSkipped, Download!LastBar
    <3>. QED
      BY <1>2, <1>3, <2>2, <3>3, DownloadFacts DEF JobIsSound
  <2>. QED
    BY <2>1, <2>2
<1>11. AnswerIsSound'
  BY <1>2, <1>5 DEF AnswerIsSound
<1>12. ResultIsSound'
  BY <1>3 DEF ResultIsSound
<1>. QED
  BY <1>6, <1>7, <1>9, <1>10, <1>11, <1>12 DEF DownloadInv

\* A download that ends in an error.
LEMMA DownloadFails ==
    ASSUME DownloadInv, Download!Fail, answer = <<>>,
           UNCHANGED <<now, traded, file, answer, memory>>
    PROVE  DownloadInv'
<1>1. job' = Download!NoJob
      /\ result' = [kind |-> job.kind, ok |-> FALSE, to |-> job.to]
  BY DEF Download!Fail
<1>2. job' \in Jobs
  BY <1>1 DEF Jobs, Download!NoJob
<1>3. result' \in Results /\ ~result'.ok
  BY <1>1, DownloadFacts DEF Jobs, Results
<1>4. DownloadTypes'
  BY <1>2, <1>3, DownloadFacts DEF DownloadTypes
<1>5. Complete(file)' /\ Complete(memory)'
  BY DownloadFacts DEF Complete, Download!Lists, Download!LastBar, Download!Ascending, Download!Bars
<1>6. JobIsSound'
  BY <1>1 DEF JobIsSound, Download!Running
<1>7. AnswerIsSound'
  BY DEF AnswerIsSound
<1>8. ResultIsSound'
  BY <1>3 DEF ResultIsSound
<1>. QED
  BY <1>4, <1>5, <1>6, <1>7, <1>8 DEF DownloadInv

\* The same request again.
LEMMA DownloadRetries ==
    ASSUME DownloadInv, Download!Asking, job' \in Jobs,
           job'.kind = job.kind, job'.start = job.start, job'.to = job.to,
           UNCHANGED <<now, traded, file, answer, memory, result>>
    PROVE  DownloadInv'
<1>1. Download!Running /\ answer = <<>>
  BY DEF Download!Asking
<1>2. job.kind \in {"sync", "fetch"} /\ ~result.ok /\ job.start <= job.to /\ job.to <= now
      /\ NothingSkipped
  BY <1>1 DEF DownloadInv, JobIsSound
<1>3. DownloadTypes'
  BY DownloadFacts DEF DownloadTypes
<1>4. Complete(file)' /\ Complete(memory)'
  BY DownloadFacts DEF Complete, Download!Lists, Download!LastBar, Download!Ascending, Download!Bars
<1>5. JobIsSound'
  <2>1. Collected' = Collected
    BY DEF Collected
  <2>2. NothingSkipped'
    BY <1>2, <2>1 DEF NothingSkipped, Download!LastBar
  <2>. QED
    BY <1>2, <2>2 DEF JobIsSound
<1>6. AnswerIsSound'
  BY <1>1 DEF AnswerIsSound
<1>7. ResultIsSound'
  BY <1>2 DEF ResultIsSound
<1>. QED
  BY <1>3, <1>4, <1>5, <1>6, <1>7 DEF DownloadInv

\* The next window, or the end: nobody traded between what is kept and there.
LEMMA DownloadProceeds ==
    ASSUME DownloadInv, Download!Running, NEW bars, Download!Proceed(bars),
           UNCHANGED <<now, traded>>, answer' = <<>>,
           file' \in Seq(Rows), memory' \in Seq(Rows), Complete(file)', Complete(memory)',
           NEW got, got = IF job.kind = "sync" THEN file' ELSE memory',
           Download!NextStart(bars) \in Nat,
           Download!LastBar(got) < Download!NextStart(bars), Download!LastBar(got) <= job.to,
           \A b \in traded : b <= Download!LastBar(got) \/ Download!NextStart(bars) <= b
    PROVE  DownloadInv'
<1>. DEFINE next == Download!NextStart(bars)
<1>1. /\ job.kind \in {"sync", "fetch"} /\ ~result.ok
      /\ job.start <= job.to /\ job.to <= now
  BY DEF DownloadInv, JobIsSound
<1>2. got \in Seq(Rows) /\ Download!Lists(got, traded \cap 0..Download!LastBar(got))
      /\ Download!LastBar(got) \in Int
  <2>1. got \in Seq(Rows)
    OBVIOUS
  <2>2. Download!Lists(got, traded \cap 0..Download!LastBar(got))
    BY DEF Complete, Download!Lists, Download!LastBar, Download!Ascending, Download!Bars
  <2>. QED
    BY <2>1, <2>2, RowsAre
<1>3. CASE next <= job.to
  <2>1. /\ job' = [job EXCEPT !.start = next, !.attempt = 0, !.reauthed = FALSE]
        /\ result' = result
    BY <1>3 DEF Download!Proceed
  <2>2. job' \in Jobs /\ job'.kind = job.kind /\ job'.start = next /\ job'.to = job.to
    BY <2>1, DownloadFacts DEF Jobs
  <2>3. DownloadTypes'
    BY <2>1, <2>2, DownloadFacts DEF DownloadTypes
  <2>4. NothingSkipped'
    <3>1. Collected' = got
      BY <2>2 DEF Collected
    <3>. QED
      BY <2>2, <3>1 DEF NothingSkipped, Download!LastBar
  <2>5. JobIsSound'
    BY <1>1, <1>3, <2>1, <2>2, <2>4 DEF JobIsSound
  <2>6. AnswerIsSound'
    BY DEF AnswerIsSound
  <2>7. ResultIsSound'
    BY <1>1, <2>1 DEF ResultIsSound
  <2>. QED
    BY <2>3, <2>5, <2>6, <2>7 DEF DownloadInv
<1>4. CASE ~(next <= job.to)
  <2>. DEFINE fine == job.kind = "fetch" \/ file \o bars # <<>>
  <2>1. /\ job' = Download!NoJob
        /\ result' = [kind |-> job.kind, to |-> job.to, ok |-> fine]
    BY <1>4 DEF Download!Proceed
  <2>2. job' \in Jobs
    BY <2>1 DEF Jobs, Download!NoJob
  <2>3. result' \in Results /\ result'.kind = job.kind /\ result'.to = job.to
    <3>1. fine \in BOOLEAN /\ job.kind \in {"none", "sync", "fetch"} /\ job.to \in Nat
      BY <1>1, DownloadFacts
    <3>. HIDE DEF fine
    <3>. QED
      BY <2>1, <3>1 DEF Results
  <2>4. DownloadTypes'
    BY <2>2, <2>3, DownloadFacts DEF DownloadTypes
  <2>5. JobIsSound'
    BY <2>1 DEF JobIsSound, Download!Running
  <2>6. AnswerIsSound'
    BY DEF AnswerIsSound
  <2>7. traded \cap 0..Download!LastBar(got) = traded \cap 0..job.to
    <3>1. traded \in SUBSET Nat /\ job.to \in Nat
      BY DownloadFacts
    <3>2. \A b \in traded : b <= Download!LastBar(got) <=> b <= job.to
      BY <1>2, <1>4, <3>1
    <3>. QED
      BY <1>2, <3>1, <3>2
  <2>8. ResultIsSound'
    <3>1. Download!Lists(got, traded \cap 0..job.to)
      BY <1>2, <2>7
    <3>. QED
      BY <1>1, <2>3, <3>1 DEF ResultIsSound, Download!Lists, Download!Ascending, Download!Bars
  <2>. QED
    BY <2>4, <2>5, <2>6, <2>8 DEF DownloadInv
<1>. QED
  BY <1>3, <1>4


\* Bars arrive.
LEMMA DownloadAnswered ==
    ASSUME DownloadInv, Download!Answered PROVE DownloadInv'
<1>1. /\ Download!Running /\ answer = <<>>
      /\ UNCHANGED <<now, traded, token, file, tail, job, memory, result>>
  BY DEF Download!Answered, Download!Asking
<1>2. PICK n \in 1..ChunkBars :
        \E bars \in [1..n -> Download!Offered \cup Download!Seam] :
           /\ bars[n] \in Download!Offered
           /\ \A i, j \in 1..n : i < j => bars[i] < bars[j]
           /\ \A b \in Download!Offered : b <= bars[n] => \E i \in 1..n : b = bars[i]
           /\ answer' = [i \in 1..n |-> [bar |-> bars[i], final |-> bars[i] < now]]
  BY DEF Download!Answered
<1>3. PICK bars \in [1..n -> Download!Offered \cup Download!Seam] :
           /\ bars[n] \in Download!Offered
           /\ \A i, j \in 1..n : i < j => bars[i] < bars[j]
           /\ \A b \in Download!Offered : b <= bars[n] => \E i \in 1..n : b = bars[i]
           /\ answer' = [i \in 1..n |-> [bar |-> bars[i], final |-> bars[i] < now]]
  BY <1>2
<1>4. n \in Nat \ {0} /\ bars \in [1..n -> Nat] /\ now \in Nat
  <2>1. n \in Nat \ {0}
    BY HistoryAssumption
  <2>2. Download!Offered \cup Download!Seam \subseteq Nat
    BY DownloadFacts DEF Download!Offered, Download!Seam
  <2>3. \A i \in 1..n : bars[i] \in Nat
    BY <2>2
  <2>. QED
    BY <2>1, <2>3, DownloadFacts
<1>5. /\ answer' \in Seq(Rows) /\ Download!Ascending(answer')
      /\ Download!LastBar(answer') = bars[n]
      /\ Download!Bars(answer') = {bars[i] : i \in 1..n}
  <2>1. ASSUME NEW i \in 1..n PROVE answer'[i] \in Rows /\ answer'[i].bar = bars[i]
    <3>. DEFINE old == bars[i] < now
    <3>1. bars[i] \in Nat /\ old \in BOOLEAN
      BY <1>4
    <3>2. answer'[i] = [bar |-> bars[i], final |-> old]
      BY <1>3
    <3>. HIDE DEF old
    <3>. QED
      BY <3>1, <3>2 DEF Rows
  <2>2. answer' \in [1..n -> Rows]
    BY <1>3, <2>1
  <2>3. \A i, j \in 1..n : i < j => bars[i] < bars[j]
    BY <1>3
  <2>4. ASSUME NEW rows \in [1..n -> Rows], \A i \in 1..n : rows[i].bar = bars[i]
        PROVE  /\ rows \in Seq(Rows) /\ Download!Ascending(rows)
               /\ Download!LastBar(rows) = bars[n]
               /\ Download!Bars(rows) = {bars[i] : i \in 1..n}
    <3>1. rows \in Seq(Rows)
      BY <1>4, SeqDef
    <3>2. Len(rows) = n /\ n \in Nat /\ n # 0
      BY <1>4, <3>1, LenProperties
    <3>3. rows # <<>>
      BY <3>2, EmptySeq
    <3>. QED
      BY <2>3, <2>4, <3>1, <3>2, <3>3, RowsAre
  <2>. QED
    BY <2>1, <2>2, <2>4
<1>6. DownloadTypes'
  BY <1>1, <1>5, DownloadFacts DEF DownloadTypes
<1>7. Complete(file)' /\ Complete(memory)'
  BY <1>1, DownloadFacts DEF Complete, Download!Lists, Download!LastBar, Download!Ascending,
                             Download!Bars
<1>8. JobIsSound'
  <2>1. Collected' = Collected
    BY <1>1 DEF Collected
  <2>. QED
    BY <1>1, <2>1 DEF DownloadInv, JobIsSound, NothingSkipped, Download!LastBar, Download!Running
<1>9. AnswerIsSound'
  <2>1. Download!Running'
    BY <1>1 DEF Download!Running
  <2>2. Download!Offered' = Download!Offered /\ Download!Seam' = Download!Seam
    BY <1>1 DEF Download!Offered, Download!Seam, Download!Window
  <2>3. {bars[i] : i \in 1..n} \subseteq Download!Offered \cup Download!Seam
    OBVIOUS
  <2>4. \A b \in Download!Offered : b <= bars[n] => b \in {bars[i] : i \in 1..n}
    BY <1>3
  <2>5. Download!Ascending(answer)'
    BY <1>5 DEF Download!Ascending
  <2>6. Download!LastBar(answer)' = bars[n]
    BY <1>5 DEF Download!LastBar
  <2>7. Download!Bars(answer)' = {bars[i] : i \in 1..n}
    BY <1>5 DEF Download!Bars
  <2>. QED
    BY <1>3, <2>1, <2>2, <2>3, <2>4, <2>5, <2>6, <2>7 DEF AnswerIsSound
<1>10. ResultIsSound'
  BY <1>1 DEF DownloadInv, JobIsSound, ResultIsSound
<1>. QED
  BY <1>6, <1>7, <1>8, <1>9, <1>10 DEF DownloadInv

\* A window in which nobody traded.
LEMMA DownloadNothing ==
    ASSUME DownloadInv, Download!NothingThere PROVE DownloadInv'
<1>1. /\ Download!Running /\ answer = <<>> /\ Download!Offered = {}
      /\ Download!Proceed(<<>>)
      /\ UNCHANGED <<now, traded, token, file, tail, answer, memory>>
  BY DEF Download!NothingThere, Download!Asking
<1>2. /\ job.start <= job.to /\ NothingSkipped
      /\ job.start \in Nat /\ job.to \in Nat /\ traded \in SUBSET Nat
      /\ ChunkBars \in Nat \ {0}
  BY <1>1, DownloadFacts, HistoryAssumption DEF DownloadInv, JobIsSound
<1>. DEFINE next == Download!NextStart(<<>>)
<1>3. next = IF job.start + ChunkBars <= job.to THEN job.start + ChunkBars ELSE job.to + 1
  BY DEF Download!NextStart
<1>4. next \in Nat /\ job.start <= next
  BY <1>2, <1>3
<1>5. \A b \in traded : job.start <= b => next <= b
  <2>. SUFFICES ASSUME NEW b \in traded, job.start <= b, ~(next <= b) PROVE FALSE
    OBVIOUS
  <2>1. b \in Nat /\ b \in job.start..job.to /\ b <= job.start + ChunkBars
    BY <1>2, <1>3
  <2>. QED
    BY <1>1, <2>1 DEF Download!Offered, Download!Window
<1>. HIDE DEF next
<1>6. /\ Download!LastBar(Collected) \in Int
      /\ Download!LastBar(Collected) < next /\ Download!LastBar(Collected) <= job.to
      /\ \A b \in traded : b <= Download!LastBar(Collected) \/ next <= b
  <2>1. Download!LastBar(Collected) \in Int
    BY DownloadFacts DEF Collected
  <2>2. /\ Download!LastBar(Collected) < job.start
        /\ \A b \in traded : b <= Download!LastBar(Collected) \/ job.start <= b
    BY <1>2 DEF NothingSkipped
  <2>. QED
    BY <1>2, <1>4, <1>5, <2>1, <2>2
<1>7. Collected = IF job.kind = "sync" THEN file' ELSE memory'
  BY <1>1 DEF Collected
<1>8. Complete(file)' /\ Complete(memory)' /\ file' \in Seq(Rows) /\ memory' \in Seq(Rows)
  BY <1>1, DownloadFacts DEF Complete, Download!Lists, Download!LastBar, Download!Ascending,
                             Download!Bars
<1>. QED
  BY <1>1, <1>4, <1>6, <1>7, <1>8, DownloadProceeds DEF next

\* What of the answer is new.
LEMMA NewOfAnswer ==
    ASSUME DownloadInv, answer # <<>>,
           NEW new, new = Download!CandlesAfter(Download!LastBar(Collected), answer)
    PROVE  /\ new \in Seq(Rows) /\ Download!Ascending(new) /\ new # <<>>
           /\ Download!LastBar(new) = Download!LastBar(answer)
           /\ Download!Bars(new) = {b \in traded : /\ Download!LastBar(Collected) < b
                                                   /\ b <= Download!LastBar(answer)}
           /\ Download!LastBar(answer) \in Nat /\ Download!LastBar(answer) <= job.to
           /\ Download!LastBar(Collected) \in Int
           /\ Download!LastBar(Collected) < Download!LastBar(answer)
<1>. DEFINE last == Download!LastBar(Collected)
            end == Download!LastBar(answer)
<1>1. /\ Download!Running /\ Download!Ascending(answer) /\ end \in Download!Offered
      /\ Download!Bars(answer) \subseteq Download!Offered \cup Download!Seam
      /\ \A b \in Download!Offered : b <= end => b \in Download!Bars(answer)
  BY DEF DownloadInv, AnswerIsSound
<1>2. /\ last < job.start /\ \A b \in traded : b <= last \/ job.start <= b
  BY <1>1 DEF DownloadInv, JobIsSound, NothingSkipped
<1>3. /\ traded \in SUBSET Nat /\ answer \in Seq(Rows) /\ Collected \in Seq(Rows)
      /\ job.start \in Nat /\ job.to \in Nat /\ last \in Int /\ ChunkBars \in Nat
  BY DownloadFacts, HistoryAssumption DEF Collected
<1>. HIDE DEF last, end
<1>4. /\ end \in traded /\ job.start <= end /\ end <= job.to /\ end <= job.start + ChunkBars
      /\ end \in Nat
  BY <1>1, <1>3 DEF Download!Offered, Download!Window
<1>5. last < end
  BY <1>2, <1>3, <1>4
<1>6. /\ new \in Seq(Rows) /\ Download!Ascending(new) /\ new # <<>>
      /\ Download!LastBar(new) = end
      /\ Download!Bars(new) = {b \in Download!Bars(answer) : last < b}
  BY <1>1, <1>3, <1>5, NewerRows DEF last, end
<1>7. \A b \in Download!Bars(answer) : b \in traded /\ b <= end
  BY <1>1, <1>3, LastIsLatest DEF Download!Offered, Download!Seam, end
<1>8. ASSUME NEW b \in traded, last < b, b <= end PROVE b \in Download!Bars(answer)
  <2>1. b \in Nat /\ job.start <= b
    BY <1>2, <1>3, <1>8
  <2>2. b \in job.start..job.to /\ b <= job.start + ChunkBars
    BY <1>3, <1>4, <1>8, <2>1
  <2>3. b \in Download!Offered
    BY <2>2 DEF Download!Offered, Download!Window
  <2>. QED
    BY <1>1, <1>8, <2>3
<1>9. Download!Bars(new) = {b \in traded : last < b /\ b <= end}
  BY <1>6, <1>7, <1>8
<1>. QED
  BY <1>3, <1>4, <1>5, <1>6, <1>9 DEF last, end

\* A complete file with the next bars behind it is complete.
LEMMA CompleteJoined ==
    ASSUME traded \in SUBSET Nat, NEW rows \in Seq(Rows), Complete(rows),
           NEW more \in Seq(Rows), Download!Ascending(more),
           Download!Bars(more) = {b \in traded : /\ Download!LastBar(rows) < b
                                                 /\ b <= Download!LastBar(more)}
    PROVE  rows \o more \in Seq(Rows) /\ Complete(rows \o more)
<1>1. /\ Download!Ascending(rows)
      /\ Download!Bars(rows) = traded \cap 0..Download!LastBar(rows)
  BY DEF Complete, Download!Lists
<1>2. /\ rows \o more \in Seq(Rows) /\ Download!Ascending(rows \o more)
      /\ Download!Bars(rows \o more) = Download!Bars(rows) \cup Download!Bars(more)
      /\ more # <<>> => Download!LastBar(rows \o more) = Download!LastBar(more)
      /\ more = <<>> => Download!LastBar(rows \o more) = Download!LastBar(rows)
  BY <1>1, JoinedRows
<1>3. /\ Download!LastBar(rows) \in Int /\ Download!LastBar(more) \in Int
      /\ more = <<>> => Download!Bars(more) = {}
  BY RowsAre, NoRows
<1>4. more # <<>> => Download!LastBar(rows) < Download!LastBar(more)
  BY <1>3, LastIsLatest
<1>5. Download!Bars(rows \o more) = traded \cap 0..Download!LastBar(rows \o more)
  <2>1. CASE more = <<>>
    BY <1>1, <1>2, <1>3, <2>1
  <2>2. CASE more # <<>>
    <3>1. ASSUME NEW b \in traded
          PROVE  (b \in 0..Download!LastBar(rows) \/
                    (Download!LastBar(rows) < b /\ b <= Download!LastBar(more)))
                 <=> b \in 0..Download!LastBar(more)
      BY <1>3, <1>4, <2>2
    <3>. QED
      BY <1>1, <1>2, <1>3, <2>2, <3>1
  <2>. QED
    BY <2>1, <2>2
<1>. QED
  BY <1>2, <1>5 DEF Complete, Download!Lists

\* The chunk is kept.
LEMMA DownloadKeeps ==
    ASSUME DownloadInv, Download!Keep PROVE DownloadInv'
<1>. DEFINE new == Download!CandlesAfter(Download!LastBar(Collected), answer)
            got == Collected \o new
<1>1. /\ Download!Running /\ answer # <<>> /\ Download!Proceed(answer) /\ answer' = <<>>
      /\ UNCHANGED <<now, traded, token>>
      /\ job.kind = "sync" => file' = got /\ memory' = memory
      /\ job.kind # "sync" => memory' = got /\ file' = file
  BY DEF Download!Keep, Collected
<1>2. /\ new \in Seq(Rows) /\ Download!Ascending(new) /\ new # <<>>
      /\ Download!LastBar(new) = Download!LastBar(answer)
      /\ Download!Bars(new) = {b \in traded : /\ Download!LastBar(Collected) < b
                                              /\ b <= Download!LastBar(answer)}
      /\ Download!LastBar(answer) \in Nat /\ Download!LastBar(answer) <= job.to
  BY <1>1, NewOfAnswer
<1>. HIDE DEF new
<1>3. /\ traded \in SUBSET Nat /\ Collected \in Seq(Rows) /\ Complete(Collected)
      /\ file \in Seq(Rows) /\ memory \in Seq(Rows) /\ Complete(file) /\ Complete(memory)
  BY DownloadFacts
<1>4. got \in Seq(Rows) /\ Complete(got)
  BY <1>2, <1>3, CompleteJoined
<1>5. Download!LastBar(got) = Download!LastBar(answer)
  <2>1. \A b \in Download!Bars(new) : Download!LastBar(Collected) < b
    BY <1>2
  <2>. QED
    BY <1>2, <1>3, <2>1, JoinedRows DEF Complete, Download!Lists
<1>. HIDE DEF got
<1>6. got = IF job.kind = "sync" THEN file' ELSE memory'
  BY <1>1
<1>7. /\ file' \in Seq(Rows) /\ memory' \in Seq(Rows)
      /\ Complete(file)' /\ Complete(memory)'
  <2>1. CASE job.kind = "sync"
    BY <1>1, <1>3, <1>4, <2>1 DEF Complete, Download!Lists, Download!LastBar, Download!Ascending,
                                  Download!Bars
  <2>2. CASE job.kind # "sync"
    BY <1>1, <1>3, <1>4, <2>2 DEF Complete, Download!Lists, Download!LastBar, Download!Ascending,
                                  Download!Bars
  <2>. QED
    BY <2>1, <2>2
<1>8. Download!NextStart(answer) = Download!LastBar(answer) + 1
  BY <1>1 DEF Download!NextStart
<1>9. /\ Download!NextStart(answer) \in Nat
      /\ Download!LastBar(got) < Download!NextStart(answer) /\ Download!LastBar(got) <= job.to
      /\ \A b \in traded : b <= Download!LastBar(got) \/ Download!NextStart(answer) <= b
  BY <1>2, <1>3, <1>5, <1>8
<1>. QED
  BY <1>1, <1>6, <1>7, <1>9, DownloadProceeds

\* The process dies, with some of the chunk in the file.
LEMMA DownloadCrashes ==
    ASSUME DownloadInv, Download!Crash PROVE DownloadInv'
<1>. DEFINE new == Download!CandlesAfter(Download!LastBar(Collected), answer)
<1>1. /\ Download!Running /\ job' = Download!NoJob /\ answer' = <<>> /\ memory' = <<>>
      /\ UNCHANGED <<now, traded, token, result>>
      /\ \/ file' = file
         \/ /\ job.kind = "sync" /\ answer # <<>>
            /\ \E n \in 0..Len(new) : file' = Collected \o SubSeq(new, 1, n)
  BY DEF Download!Crash, Collected
<1>2. file' \in Seq(Rows) /\ Complete(file')
  <2>1. CASE file' = file
    BY <2>1, DownloadFacts DEF Complete
  <2>2. CASE /\ job.kind = "sync" /\ answer # <<>>
             /\ \E n \in 0..Len(new) : file' = Collected \o SubSeq(new, 1, n)
    <3>. DEFINE last == Download!LastBar(Collected)
    <3>1. PICK n \in 0..Len(new) : file' = Collected \o SubSeq(new, 1, n)
      BY <2>2
    <3>. DEFINE some == SubSeq(new, 1, n)
    <3>2. /\ new \in Seq(Rows) /\ Download!Ascending(new) /\ new # <<>>
          /\ Download!LastBar(new) = Download!LastBar(answer)
          /\ Download!Bars(new) = {b \in traded : last < b /\ b <= Download!LastBar(answer)}
          /\ Download!LastBar(answer) \in Nat
      BY <2>2, NewOfAnswer
    <3>. HIDE DEF new
    <3>3. /\ some \in Seq(Rows) /\ Download!Ascending(some)
          /\ Download!Bars(some) = {b \in Download!Bars(new) : b <= Download!LastBar(some)}
          /\ Download!LastBar(some) \in Int
      BY <3>2, FirstRows, RowsAre
    <3>. HIDE DEF some
    <3>4. Download!LastBar(some) <= Download!LastBar(answer)
      <4>1. CASE some = <<>>
        BY <3>2, <4>1, NoRows
      <4>2. CASE some # <<>>
        BY <3>2, <3>3, <4>2, LastIsLatest
      <4>. QED
        BY <4>1, <4>2
    <3>5. traded \in SUBSET Nat /\ Collected \in Seq(Rows) /\ Complete(Collected)
      BY DownloadFacts
    <3>6. Download!Bars(some) = {b \in traded : last < b /\ b <= Download!LastBar(some)}
      <4>1. \A b \in traded : b <= Download!LastBar(some) => b <= Download!LastBar(answer)
        BY <3>2, <3>3, <3>4, <3>5
      <4>. QED
        BY <3>2, <3>3, <4>1
    <3>. QED
      BY <3>1, <3>3, <3>5, <3>6, CompleteJoined DEF some
  <2>. QED
    BY <1>1, <2>1, <2>2
<1>3. ~result.ok /\ result \in Results /\ now \in Nat /\ traded \in SUBSET Nat
  BY <1>1, DownloadFacts DEF DownloadInv, JobIsSound
<1>4. job' \in Jobs /\ ~Download!Running'
  BY <1>1 DEF Jobs, Download!NoJob, Download!Running
<1>5. DownloadTypes'
  BY <1>1, <1>2, <1>3, <1>4, NoRows DEF DownloadTypes
<1>6. Complete(file)'
  BY <1>1, <1>2 DEF Complete, Download!Lists, Download!LastBar, Download!Ascending,
                             Download!Bars
<1>7. Complete(memory)'
  <2>1. traded \cap 0..-1 = {}
    BY <1>3
  <2>. QED
    BY <1>1, <2>1, NoRows DEF Complete, Download!Lists, Download!LastBar, Download!Ascending,
                              Download!Bars
<1>8. JobIsSound' /\ AnswerIsSound' /\ ResultIsSound'
  BY <1>1, <1>3, <1>4 DEF JobIsSound, AnswerIsSound, ResultIsSound
<1>. QED
  BY <1>5, <1>6, <1>7, <1>8 DEF DownloadInv

\* Every step of the download.
LEMMA DownloadStep ==
    ASSUME DownloadInv, Download!Next PROVE DownloadInv'
<1>1. ASSUME Download!Unauthorized PROVE DownloadInv'
  <2>1. /\ Download!Asking
        /\ UNCHANGED <<now, traded, file, tail, answer, memory>>
        /\ \/ job' = [job EXCEPT !.reauthed = TRUE] /\ result' = result
           \/ Download!Fail
    BY <1>1 DEF Download!Unauthorized
  <2>2. CASE job' = [job EXCEPT !.reauthed = TRUE] /\ result' = result
    <3>1. /\ job' \in Jobs /\ job'.kind = job.kind /\ job'.start = job.start
          /\ job'.to = job.to
      BY <2>2, DownloadFacts DEF Jobs
    <3>. QED
      BY <2>1, <2>2, <3>1, DownloadRetries
  <2>3. CASE Download!Fail
    BY <2>1, <2>3, DownloadFails DEF Download!Asking
  <2>. QED
    BY <2>1, <2>2, <2>3
<1>2. ASSUME Download!RateLimited PROVE DownloadInv'
  <2>1. /\ Download!Asking
        /\ UNCHANGED <<now, traded, file, tail, answer, memory>>
        /\ \/ job' = [job EXCEPT !.attempt = @ + 1] /\ result' = result
           \/ Download!Fail
    BY <1>2 DEF Download!RateLimited
  <2>2. CASE job' = [job EXCEPT !.attempt = @ + 1] /\ result' = result
    <3>1. job \in Jobs /\ job.attempt + 1 \in Nat
      BY DownloadFacts DEF Jobs
    <3>2. job' = [job EXCEPT !.attempt = job.attempt + 1]
      BY <2>2, <3>1
    <3>3. /\ job' \in Jobs /\ job'.kind = job.kind /\ job'.start = job.start
          /\ job'.to = job.to
      BY <3>1, <3>2 DEF Jobs
    <3>. QED
      BY <2>1, <2>2, <3>3, DownloadRetries
  <2>3. CASE Download!Fail
    BY <2>1, <2>3, DownloadFails DEF Download!Asking
  <2>. QED
    BY <2>1, <2>2, <2>3
<1>3. ASSUME Download!Broken PROVE DownloadInv'
  BY <1>3, DownloadFails DEF Download!Broken, Download!Asking
<1>4. ASSUME Download!TimePasses PROVE DownloadInv'
  <2>1. now' \in Nat /\ now <= now'
    BY <1>4, DownloadFacts DEF Download!TimePasses
  <2>. QED
    BY <1>4, <2>1, DownloadStutters DEF Download!TimePasses
<1>5. ASSUME Download!TokenExpires PROVE DownloadInv'
  <2>1. now' \in Nat /\ now <= now'
    BY <1>5, DownloadFacts DEF Download!TokenExpires
  <2>. QED
    BY <1>5, <2>1, DownloadStutters DEF Download!TokenExpires
<1>. QED
  BY <1>1, <1>2, <1>3, <1>4, <1>5, DownloadBegins, DownloadAnswered, DownloadNothing,
     DownloadKeeps, DownloadCrashes DEF Download!Next

\* Nothing is there at first.
LEMMA DownloadStarts ==
    ASSUME Download!Init PROVE DownloadInv
<1>1. /\ now = 0 /\ traded \in SUBSET (0..MaxNow) /\ file = <<>> /\ memory = <<>>
      /\ answer = <<>> /\ job = Download!NoJob /\ result = Download!NoResult
  BY DEF Download!Init
<1>2. traded \in SUBSET Nat /\ now \in Nat
  BY <1>1, HistoryAssumption
<1>3. job \in Jobs /\ result \in Results /\ ~result.ok
  BY DEF Download!Init, Jobs, Results, Download!NoJob, Download!NoResult
<1>4. DownloadTypes
  BY <1>1, <1>2, <1>3, NoRows DEF DownloadTypes
<1>5. Complete(file) /\ Complete(memory)
  <2>1. traded \cap 0..-1 = {}
    BY <1>2
  <2>. QED
    BY <1>1, <2>1, NoRows DEF Complete, Download!Lists
<1>. QED
  BY <1>1, <1>3, <1>4, <1>5 DEF DownloadInv, JobIsSound, AnswerIsSound, ResultIsSound,
                                Download!Running

\* The invariant of the download, on the instance that holds it.
LEMMA DownloadIsSound == MCSpec => []DownloadInv
<1>1. MCInit => DownloadInv
  BY DownloadStarts DEF MCInit
<1>2. DownloadInv /\ [MCNext]_<<program, vars, historyVars, recorderVars>> => DownloadInv'
  <2>. SUFFICES ASSUME DownloadInv, [MCNext]_<<program, vars, historyVars, recorderVars>>
                PROVE  DownloadInv'
    OBVIOUS
  <2>1. CASE Download!Next
    BY <2>1, DownloadStep
  <2>2. CASE UNCHANGED historyVars
    <3>1. now' \in Nat /\ now <= now'
      BY <2>2, DownloadFacts DEF historyVars
    <3>. QED
      BY <2>2, <3>1, DownloadStutters DEF historyVars
  <2>. QED
    BY <2>1, <2>2 DEF MCNext
<1>. QED
  BY <1>1, <1>2, PTL DEF MCSpec

\* A download that reports success has every bar of its range, each once and in
\* order, whatever answers were cut short, windows empty, requests refused or
\* processes killed, in this download or in earlier ones that wrote the same file.
THEOREM DownloadsAreComplete == MCSpec => []HistoryIsComplete
<1>1. DownloadInv => HistoryIsComplete
  BY DEF DownloadInv, ResultIsSound, HistoryIsComplete, Download!HistoryIsComplete
<1>. QED
  BY <1>1, DownloadIsSound, PTL

-----------------------------------------------------------------------------
(* The recording                                                           *)

RecordedDays == 1..RecordingDays

Members == [text : Seq(Nat), closed : BOOLEAN]
OpenFiles == [day : RecordedDays, disk : Seq(Nat), buffer : Seq(Nat), broken : BOOLEAN]

RecordingTypes ==
    /\ today \in RecordedDays /\ received \in Seq(RecordedDays)
    /\ queue \in Seq(Nat)
    /\ current \in OpenFiles \cup {Recording!NoFile}
    /\ files \in [RecordedDays -> Seq(Members)]

\* What is written of each day: in the members of its file, and in the open one.
TextOf(fs, cur) ==
    [d \in RecordedDays |->
        IF cur # Recording!NoFile /\ cur.day = d
        THEN Recording!Text(fs[d]) \o (cur.disk \o cur.buffer)
        ELSE Recording!Text(fs[d])]

\* Each message received is in the text of its day, waits behind all that is
\* written, or is gone: dropped or lost.
Account(written, rec, q, gone) ==
    /\ Recording!InOrder(q)
    /\ Recording!ToSet(q) \subseteq 1..Len(rec) /\ gone \subseteq 1..Len(rec)
    /\ Recording!ToSet(q) \cap gone = {}
    /\ \A d \in RecordedDays :
          /\ Recording!InOrder(written[d])
          /\ Recording!ToSet(written[d])
               = {m \in 1..Len(rec) : rec[m] = d /\ m \notin Recording!ToSet(q) \cup gone}
          /\ \A m \in Recording!ToSet(written[d]), x \in Recording!ToSet(q) : m < x

\* Only a day on which a writer failed or died has a member that was cut.
ClosedUnlessSpoilt(fs, sp) ==
    \A d \in RecordedDays : d \notin sp => \A i \in DOMAIN fs[d] : fs[d][i].closed

\* more has one member more than fs, of day d.
Joins(fs, more, d, m) == more = [fs EXCEPT ![d] = Append(@, m)]

\* What of the buffer is lost when k of its messages remain, and what is then
\* written of each day.
Rest(cur, k) == {cur.buffer[i] : i \in (k + 1)..Len(cur.buffer)}

CutAt(fs, cur, k, written) ==
    \A d \in RecordedDays :
       written[d] = IF d = cur.day
                    THEN Recording!Text(fs[d]) \o (cur.disk \o SubSeq(cur.buffer, 1, k))
                    ELSE Recording!Text(fs[d])

RecordingInv ==
    /\ RecordingTypes
    /\ Account(TextOf(files, current), received, queue, dropped \cup lost)
    /\ ClosedUnlessSpoilt(files, spoilt)
    /\ phase = "closed" => queue = <<>>


\* The numbers in a text.
LEMMA ItemsAre ==
    ASSUME NEW s \in Seq(Nat)
    PROVE  /\ Len(s) \in Nat /\ DOMAIN s = 1..Len(s)
           /\ \A i \in 1..Len(s) : s[i] \in Nat
           /\ Recording!ToSet(s) = {s[i] : i \in 1..Len(s)}
           /\ Recording!ToSet(s) \in SUBSET Nat
           /\ Recording!InOrder(s) <=> \A i, j \in 1..Len(s) : i < j => s[i] < s[j]
           /\ s = <<>> => Recording!ToSet(s) = {} /\ Recording!InOrder(s)
<1>1. Len(s) \in Nat /\ DOMAIN s = 1..Len(s)
  BY LenProperties
<1>2. \A i \in 1..Len(s) : s[i] \in Nat
  BY ElementOfSeq
<1>3. Recording!ToSet(s) = {s[i] : i \in 1..Len(s)}
  BY <1>1 DEF Recording!ToSet
<1>4. Recording!ToSet(s) \in SUBSET Nat
  BY <1>2, <1>3
<1>5. Recording!InOrder(s) <=> \A i, j \in 1..Len(s) : i < j => s[i] < s[j]
  BY <1>1 DEF Recording!InOrder
<1>6. s = <<>> => Len(s) = 0
  OBVIOUS
<1>7. s = <<>> => Recording!ToSet(s) = {} /\ Recording!InOrder(s)
  BY <1>3, <1>5, <1>6
<1>. QED
  BY <1>1, <1>2, <1>3, <1>4, <1>5, <1>7

\* One text behind another.
LEMMA JoinedText ==
    ASSUME NEW s \in Seq(Nat), NEW t \in Seq(Nat)
    PROVE  /\ s \o t \in Seq(Nat)
           /\ Recording!ToSet(s \o t) = Recording!ToSet(s) \cup Recording!ToSet(t)
           /\ Recording!InOrder(s \o t)
                <=> /\ Recording!InOrder(s) /\ Recording!InOrder(t)
                    /\ \A x \in Recording!ToSet(s), y \in Recording!ToSet(t) : x < y
<1>. DEFINE all == s \o t
            n == Len(s)
            k == Len(t)
<1>1. /\ all \in Seq(Nat) /\ Len(all) = n + k /\ n \in Nat /\ k \in Nat
      /\ \A i \in 1..(n + k) : all[i] = IF i <= n THEN s[i] ELSE t[i - n]
  BY ConcatProperties, LenProperties
<1>2. /\ \A i \in 1..n : all[i] = s[i] /\ i \in 1..(n + k)
      /\ \A i \in 1..k : all[n + i] = t[i] /\ n + i \in 1..(n + k)
      /\ \A i \in 1..(n + k) : i \in 1..n \/ \E j \in 1..k : i = n + j
  <2>1. ASSUME NEW i \in 1..(n + k), i \notin 1..n PROVE \E j \in 1..k : i = n + j
    <3>1. i - n \in 1..k /\ i = n + (i - n)
      BY <1>1, <2>1
    <3>. QED
      BY <3>1
  <2>2. ASSUME NEW i \in 1..k PROVE all[n + i] = t[i] /\ n + i \in 1..(n + k)
    <3>1. n + i \in 1..(n + k) /\ ~(n + i <= n) /\ (n + i) - n = i
      BY <1>1
    <3>. QED
      BY <1>1, <3>1
  <2>3. \A i \in 1..n : i \in 1..(n + k) /\ i <= n
    BY <1>1
  <2>. QED
    BY <1>1, <2>1, <2>2, <2>3
<1>3. /\ Recording!ToSet(s) = {s[i] : i \in 1..n} /\ Recording!ToSet(t) = {t[i] : i \in 1..k}
      /\ Recording!ToSet(all) = {all[i] : i \in 1..(n + k)}
      /\ Recording!InOrder(s) <=> \A i, j \in 1..n : i < j => s[i] < s[j]
      /\ Recording!InOrder(t) <=> \A i, j \in 1..k : i < j => t[i] < t[j]
      /\ Recording!InOrder(all) <=> \A i, j \in 1..(n + k) : i < j => all[i] < all[j]
  BY <1>1, ItemsAre
<1>. HIDE DEF all, n, k
<1>4. Recording!ToSet(all) = Recording!ToSet(s) \cup Recording!ToSet(t)
  <2>1. ASSUME NEW i \in 1..(n + k) PROVE all[i] \in {s[j] : j \in 1..n} \cup {t[j] : j \in 1..k}
    <3>1. CASE i \in 1..n
      BY <1>2, <3>1
    <3>2. CASE i \notin 1..n
      <4>1. PICK j \in 1..k : i = n + j
        BY <1>2, <3>2
      <4>. QED
        BY <1>2, <4>1
    <3>. QED
      BY <3>1, <3>2
  <2>2. ASSUME NEW i \in 1..n PROVE s[i] \in {all[j] : j \in 1..(n + k)}
    BY <1>2
  <2>3. ASSUME NEW i \in 1..k PROVE t[i] \in {all[j] : j \in 1..(n + k)}
    BY <1>2
  <2>. QED
    BY <1>3, <2>1, <2>2, <2>3
<1>5. ASSUME Recording!InOrder(all)
      PROVE  /\ Recording!InOrder(s) /\ Recording!InOrder(t)
             /\ \A x \in Recording!ToSet(s), y \in Recording!ToSet(t) : x < y
  <2>1. Recording!InOrder(s)
    BY <1>2, <1>3, <1>5
  <2>2. \A i, j \in 1..k : i < j => n + i < n + j
    BY <1>1
  <2>3. Recording!InOrder(t)
    BY <1>2, <1>3, <1>5, <2>2
  <2>4. \A i \in 1..n, j \in 1..k : i < n + j
    BY <1>1
  <2>5. \A i \in 1..n, j \in 1..k : s[i] < t[j]
    BY <1>2, <1>3, <1>5, <2>4
  <2>. QED
    BY <1>3, <2>1, <2>3, <2>5
<1>6. ASSUME Recording!InOrder(s), Recording!InOrder(t),
             \A x \in Recording!ToSet(s), y \in Recording!ToSet(t) : x < y
      PROVE  Recording!InOrder(all)
  <2>. SUFFICES ASSUME NEW i \in 1..(n + k), NEW j \in 1..(n + k), i < j
                PROVE  all[i] < all[j]
    BY <1>3
  <2>1. CASE j \in 1..n
    <3>1. i \in 1..n
      BY <1>1, <2>1
    <3>. QED
      BY <1>2, <1>3, <1>6, <2>1, <3>1
  <2>2. CASE j \notin 1..n /\ i \in 1..n
    <3>1. PICK q \in 1..k : j = n + q
      BY <1>2, <2>2
    <3>2. s[i] \in Recording!ToSet(s) /\ t[q] \in Recording!ToSet(t)
      BY <1>3, <2>2
    <3>. QED
      BY <1>2, <1>6, <2>2, <3>1, <3>2
  <2>3. CASE j \notin 1..n /\ i \notin 1..n
    <3>1. PICK p \in 1..k : i = n + p
      BY <1>2, <2>3
    <3>2. PICK q \in 1..k : j = n + q
      BY <1>2, <2>3
    <3>3. p < q
      BY <1>1, <3>1, <3>2
    <3>. QED
      BY <1>2, <1>3, <1>6, <3>1, <3>2, <3>3
  <2>. QED
    BY <2>1, <2>2, <2>3
<1>. QED
  BY <1>1, <1>4, <1>5, <1>6 DEF all

\* The beginning of a text, and what is cut off.
LEMMA CutText ==
    ASSUME NEW t \in Seq(Nat), NEW k \in 0..Len(t), Recording!InOrder(t)
    PROVE  /\ SubSeq(t, 1, k) \in Seq(Nat) /\ Recording!InOrder(SubSeq(t, 1, k))
           /\ {t[i] : i \in (k + 1)..Len(t)} \subseteq Recording!ToSet(t)
           /\ Recording!ToSet(SubSeq(t, 1, k))
                = Recording!ToSet(t) \ {t[i] : i \in (k + 1)..Len(t)}
<1>. DEFINE some == SubSeq(t, 1, k)
            n == Len(t)
            rest == {t[i] : i \in (k + 1)..n}
<1>1. /\ n \in Nat /\ k \in Nat /\ k <= n
      /\ Recording!ToSet(t) = {t[i] : i \in 1..n}
      /\ \A i, j \in 1..n : i < j => t[i] < t[j]
      /\ \A i \in 1..n : t[i] \in Nat
  BY ItemsAre
<1>2. /\ some \in Seq(Nat) /\ Len(some) = k
      /\ \A i \in 1..k : some[i] = t[i] /\ i \in 1..n
  <2>1. \A i \in 1..k : i \in 1..n /\ t[i] \in Nat
    BY <1>1
  <2>2. k \in Int /\ k - 1 + 1 = k /\ (~(1 <= k) => k = 0) /\ \A i \in 1..k : 1 + i - 1 = i
    BY <1>1
  <2>3. /\ some \in Seq(Nat) /\ Len(some) = IF 1 <= k THEN k - 1 + 1 ELSE 0
        /\ \A i \in 1..(k - 1 + 1) : some[i] = t[1 + i - 1]
    BY <2>1, <2>2, SubSeqProperties
  <2>. QED
    BY <2>1, <2>2, <2>3
<1>. HIDE DEF some, n, rest
<1>3. Recording!InOrder(some) /\ Recording!ToSet(some) = {t[i] : i \in 1..k}
  <2>1. Recording!ToSet(some) = {some[i] : i \in 1..k}
    BY <1>2, ItemsAre
  <2>2. Recording!InOrder(some) <=> \A i, j \in 1..k : i < j => some[i] < some[j]
    BY <1>2, ItemsAre
  <2>. QED
    BY <1>1, <1>2, <2>1, <2>2
<1>4. \A i \in 1..n : i \in 1..k \/ i \in (k + 1)..n
  BY <1>1
<1>5. \A i \in (k + 1)..n : i \in 1..n
  BY <1>1
<1>6. \A i \in 1..k, j \in (k + 1)..n : t[i] # t[j]
  <2>. SUFFICES ASSUME NEW i \in 1..k, NEW j \in (k + 1)..n PROVE t[i] # t[j]
    OBVIOUS
  <2>1. i \in 1..n /\ j \in 1..n /\ i < j
    BY <1>1
  <2>. QED
    BY <1>1, <2>1
<1>7. rest \subseteq Recording!ToSet(t)
  BY <1>1, <1>5 DEF rest
<1>8. {t[i] : i \in 1..k} = Recording!ToSet(t) \ rest
  BY <1>1, <1>2, <1>4, <1>6 DEF rest
<1>. QED
  BY <1>2, <1>3, <1>7, <1>8 DEF some, rest, n

\* The first number, and the others.
LEMMA HeadOfText ==
    ASSUME NEW s \in Seq(Nat), s # <<>>, Recording!InOrder(s)
    PROVE  /\ Tail(s) \in Seq(Nat) /\ Recording!InOrder(Tail(s))
           /\ Head(s) \in Recording!ToSet(s)
           /\ Recording!ToSet(Tail(s)) = Recording!ToSet(s) \ {Head(s)}
           /\ \A x \in Recording!ToSet(Tail(s)) : Head(s) < x
<1>. DEFINE n == Len(s)
            rest == Tail(s)
<1>1. /\ n \in Nat \ {0} /\ Recording!ToSet(s) = {s[i] : i \in 1..n}
      /\ \A i, j \in 1..n : i < j => s[i] < s[j]
      /\ \A i \in 1..n : s[i] \in Nat
  BY ItemsAre, EmptySeq
<1>2. /\ rest \in Seq(Nat) /\ Len(rest) = n - 1
      /\ \A i \in 1..(n - 1) : rest[i] = s[i + 1]
  BY HeadTailProperties
<1>3. Head(s) = s[1]
  OBVIOUS
<1>. HIDE DEF rest, n
<1>4. /\ Recording!ToSet(rest) = {rest[i] : i \in 1..(n - 1)}
      /\ Recording!InOrder(rest) <=> \A i, j \in 1..(n - 1) : i < j => rest[i] < rest[j]
  BY <1>2, ItemsAre
<1>5. \A i \in 1..(n - 1) : i + 1 \in 1..n /\ 1 < i + 1
  BY <1>1
<1>6. \A i, j \in 1..(n - 1) : i < j => i + 1 < j + 1
  BY <1>1
<1>7. \A j \in 1..n : j # 1 => j - 1 \in 1..(n - 1) /\ (j - 1) + 1 = j
  BY <1>1
<1>8. 1 \in 1..n
  BY <1>1
<1>9. Recording!InOrder(rest)
  <2>1. \A i, j \in 1..(n - 1) : i < j => rest[i] < rest[j]
    BY <1>1, <1>2, <1>5, <1>6
  <2>. QED
    BY <1>4, <2>1
<1>10. \A i \in 1..(n - 1) : s[1] < rest[i] /\ rest[i] # s[1] /\ rest[i] \in Recording!ToSet(s)
  <2>. SUFFICES ASSUME NEW i \in 1..(n - 1)
                PROVE  s[1] < rest[i] /\ rest[i] # s[1] /\ rest[i] \in Recording!ToSet(s)
    OBVIOUS
  <2>1. s[1] < s[i + 1] /\ s[1] \in Nat /\ s[i + 1] \in Nat /\ s[i + 1] \in Recording!ToSet(s)
    BY <1>1, <1>5, <1>8
  <2>. QED
    BY <1>2, <2>1
<1>11. \A j \in 1..n : j # 1 => s[j] \in Recording!ToSet(rest)
  <2>. SUFFICES ASSUME NEW j \in 1..n, j # 1 PROVE s[j] \in Recording!ToSet(rest)
    OBVIOUS
  <2>1. j - 1 \in 1..(n - 1) /\ rest[j - 1] = s[j]
    BY <1>2, <1>7
  <2>. QED
    BY <1>4, <2>1
<1>12. Recording!ToSet(rest) = Recording!ToSet(s) \ {s[1]}
  BY <1>1, <1>4, <1>10, <1>11
<1>. QED
  BY <1>1, <1>2, <1>3, <1>4, <1>8, <1>9, <1>10, <1>12 DEF rest

\* One more.
LEMMA AppendedText ==
    ASSUME NEW s \in Seq(Nat), NEW m \in Nat, Recording!InOrder(s),
           \A x \in Recording!ToSet(s) : x < m
    PROVE  /\ Append(s, m) = s \o <<m>> /\ s \o <<m>> \in Seq(Nat)
           /\ Recording!InOrder(s \o <<m>>)
           /\ Recording!ToSet(s \o <<m>>) = Recording!ToSet(s) \cup {m}
<1>1. Append(s, m) = s \o <<m>>
  BY AppendIsConcat
<1>. DEFINE one == <<m>>
<1>2. one \in Seq(Nat) /\ Len(one) = 1 /\ one[1] = m /\ 1..1 = {1}
  OBVIOUS
<1>. HIDE DEF one
<1>3. /\ Recording!ToSet(one) = {one[i] : i \in 1..1}
      /\ Recording!InOrder(one) <=> \A i, j \in 1..1 : i < j => one[i] < one[j]
  BY <1>2, ItemsAre
<1>4. Recording!ToSet(one) = {m}
  BY <1>2, <1>3
<1>5. Recording!InOrder(one)
  BY <1>2, <1>3
<1>6. /\ s \o one \in Seq(Nat) /\ Recording!InOrder(s \o one)
      /\ Recording!ToSet(s \o one) = Recording!ToSet(s) \cup {m}
  BY <1>2, <1>4, <1>5, JoinedText
<1>. QED
  BY <1>1, <1>6 DEF one

-----------------------------------------------------------------------------
(* The text of a file                                                      *)

\* f is what FlattenSeq builds up: the first i texts, for every i.
Flattening(texts, f) ==
    f = [i \in 1..Len(texts) |-> IF i = 1 THEN texts[i] ELSE f[i - 1] \o texts[i]]

\* How the first n texts are put together.
Builds(texts, f, n) ==
    \A i \in 1..n : f[i] = IF i = 1 THEN texts[i] ELSE f[i - 1] \o texts[i]

\* It exists, by induction on the number of texts.
LEMMA FlatteningExists ==
    ASSUME NEW texts \in Seq(Seq(Nat))
    PROVE  \E f \in [1..Len(texts) -> Seq(Nat)] : Flattening(texts, f)
<1>. DEFINE T == {n \in Nat : n <= Len(texts) => \E f \in [1..n -> Seq(Nat)] : Builds(texts, f, n)}
<1>1. Len(texts) \in Nat /\ \A i \in 1..Len(texts) : texts[i] \in Seq(Nat)
  BY LenProperties, ElementOfSeq
<1>2. 0 \in T
  <2>1. 1..0 = {}
    OBVIOUS
  <2>2. [i \in 1..0 |-> <<>>] \in [1..0 -> Seq(Nat)]
    BY <2>1
  <2>3. Builds(texts, [i \in 1..0 |-> <<>>], 0)
    BY <2>1 DEF Builds
  <2>. QED
    BY <2>2, <2>3
<1>3. ASSUME NEW n \in T PROVE n + 1 \in T
  <2>0. n \in Nat /\ n + 1 \in Nat
    OBVIOUS
  <2>. SUFFICES ASSUME n + 1 <= Len(texts)
                PROVE  \E f \in [1..(n + 1) -> Seq(Nat)] : Builds(texts, f, n + 1)
    BY <2>0
  <2>1. n \in Nat /\ n <= Len(texts) /\ n + 1 \in 1..Len(texts)
    BY <1>1, <2>0
  <2>2. PICK f \in [1..n -> Seq(Nat)] : Builds(texts, f, n)
    BY <1>3, <2>1
  <2>. DEFINE t == IF n = 0 THEN texts[n + 1] ELSE f[n] \o texts[n + 1]
              g == [i \in 1..(n + 1) |-> IF i = n + 1 THEN t ELSE f[i]]
  <2>3. t \in Seq(Nat)
    <3>1. texts[n + 1] \in Seq(Nat)
      BY <1>1, <2>1
    <3>2. n # 0 => f[n] \in Seq(Nat)
      BY <2>1
    <3>. QED
      BY <3>1, <3>2, ConcatProperties
  <2>. HIDE DEF t
  <2>4. /\ \A i \in 1..(n + 1) : i # n + 1 => i \in 1..n
        /\ \A i \in 1..n : i \in 1..(n + 1) /\ i # n + 1
        /\ n + 1 \in 1..(n + 1)
        /\ \A i \in 1..n : i # 1 => i - 1 \in 1..n
        /\ (n + 1) - 1 = n /\ (n # 0 => n \in 1..n) /\ (n = 0 <=> n + 1 = 1)
    <3>1. /\ \A i \in 1..(n + 1) : i # n + 1 => i \in 1..n
          /\ \A i \in 1..n : i \in 1..(n + 1) /\ i # n + 1
      BY <2>0
    <3>2. \A i \in 1..n : i # 1 => i - 1 \in 1..n
      BY <2>0
    <3>3. /\ n + 1 \in 1..(n + 1)
          /\ (n + 1) - 1 = n /\ (n # 0 => n \in 1..n) /\ (n = 0 <=> n + 1 = 1)
      BY <2>0
    <3>. QED
      BY <3>1, <3>2, <3>3
  <2>5. g \in [1..(n + 1) -> Seq(Nat)]
    BY <2>3, <2>4
  <2>6. g[n + 1] = t /\ \A i \in 1..n : g[i] = f[i]
    BY <2>4
  <2>. HIDE DEF g
  <2>7. Builds(texts, g, n + 1)
    <3>. USE DEF Builds
    <3>. SUFFICES ASSUME NEW i \in 1..(n + 1)
                  PROVE  g[i] = IF i = 1 THEN texts[i] ELSE g[i - 1] \o texts[i]
      OBVIOUS
    <3>1. CASE i = n + 1
      <4>1. CASE n = 0
        BY <2>4, <2>6, <3>1, <4>1 DEF t
      <4>2. CASE n # 0
        <5>1. g[n] = f[n] /\ i # 1 /\ i - 1 = n
          BY <2>4, <2>6, <3>1, <4>2
        <5>. QED
          BY <2>6, <3>1, <4>2, <5>1 DEF t
      <4>. QED
        BY <4>1, <4>2
    <3>2. CASE i # n + 1
      <4>1. i \in 1..n /\ g[i] = f[i] /\ (i # 1 => g[i - 1] = f[i - 1])
        BY <2>4, <2>6, <3>2
      <4>. QED
        BY <2>2, <4>1
    <3>. QED
      BY <3>1, <3>2
  <2>. QED
    BY <2>5, <2>7
<1>4. T = Nat
  <2>1. T \in SUBSET Nat
    OBVIOUS
  <2>. HIDE DEF T
  <2>. QED
    BY <1>2, <1>3, <2>1, NaturalInduction
<1>5. PICK f \in [1..Len(texts) -> Seq(Nat)] : Builds(texts, f, Len(texts))
  BY <1>1, <1>4
<1>6. Flattening(texts, f)
  BY <1>5 DEF Flattening, Builds
<1>. QED
  BY <1>6

\* There is one way.
LEMMA BuiltOnce ==
    ASSUME NEW n \in Nat, NEW texts, NEW f, NEW g,
           Builds(texts, f, n), Builds(texts, g, n)
    PROVE  \A i \in 1..n : f[i] = g[i]
<1>. DEFINE T == {i \in Nat : i \in 1..n => f[i] = g[i]}
<1>1. \A i \in 1..n : /\ f[i] = IF i = 1 THEN texts[i] ELSE f[i - 1] \o texts[i]
                      /\ g[i] = IF i = 1 THEN texts[i] ELSE g[i - 1] \o texts[i]
  BY DEF Builds
<1>2. 0 \in T
  OBVIOUS
<1>3. ASSUME NEW i \in T PROVE i + 1 \in T
  <2>. SUFFICES ASSUME i + 1 \in 1..n PROVE f[i + 1] = g[i + 1]
    OBVIOUS
  <2>1. i \in Nat /\ (i + 1) - 1 = i /\ (i + 1 # 1 => i \in 1..n)
    BY <1>1
  <2>2. i + 1 # 1 => f[i] = g[i]
    BY <2>1
  <2>. QED
    BY <1>1, <2>1, <2>2
<1>4. T = Nat
  <2>1. T \in SUBSET Nat
    OBVIOUS
  <2>. HIDE DEF T
  <2>. QED
    BY <1>2, <1>3, <2>1, NaturalInduction
<1>5. \A i \in 1..n : i \in T
  BY <1>1, <1>4
<1>. QED
  BY <1>5

\* FlattenSeq, its definition expanded.
LEMMA FlattenIs ==
    ASSUME NEW texts
    PROVE  Recording!FlattenSeq(texts)
             = IF Len(texts) = 0 THEN texts
               ELSE (CHOOSE f : Flattening(texts, f))[Len(texts)]
  BY DEF Recording!FlattenSeq, Flattening

\* A text more goes behind the others.
LEMMA FlattenAppended ==
    ASSUME NEW texts \in Seq(Seq(Nat)), NEW t \in Seq(Nat)
    PROVE  /\ Recording!FlattenSeq(texts) \in Seq(Nat)
           /\ Recording!FlattenSeq(Append(texts, t)) = Recording!FlattenSeq(texts) \o t
<1>. DEFINE more == Append(texts, t)
            n == Len(texts)
            f == CHOOSE h : Flattening(texts, h)
            g == CHOOSE h : Flattening(more, h)
<1>1. /\ n \in Nat /\ more \in Seq(Seq(Nat)) /\ Len(more) = n + 1
      /\ \A i \in 1..n : more[i] = texts[i]
      /\ more[n + 1] = t
  BY LenProperties, AppendProperties
<1>. HIDE DEF more
<1>2. Flattening(texts, f) /\ Flattening(more, g)
  BY <1>1, FlatteningExists
<1>3. \E h \in [1..n -> Seq(Nat)] : Flattening(texts, h)
  BY FlatteningExists
<1>. HIDE DEF f, g
<1>4. n # 0 => f[n] \in Seq(Nat)
  <2>1. PICK h \in [1..n -> Seq(Nat)] : Flattening(texts, h)
    BY <1>3
  <2>2. Builds(texts, f, n) /\ Builds(texts, h, n)
    BY <1>2, <2>1, ZenonT(40) DEF Builds, Flattening
  <2>3. \A i \in 1..n : f[i] = h[i]
    BY <1>1, <2>2, BuiltOnce
  <2>4. n # 0 => n \in 1..n
    BY <1>1
  <2>. QED
    BY <2>3, <2>4
<1>5. \A i \in 1..n : f[i] = g[i]
  <2>1. Builds(texts, f, n)
    BY <1>2 DEF Builds, Flattening
  <2>2. Builds(texts, g, n)
    <3>1. \A i \in 1..n : i \in 1..Len(more) /\ more[i] = texts[i]
      BY <1>1
    <3>. QED
      BY <1>2, <3>1 DEF Builds, Flattening
  <2>. QED
    BY <1>1, <2>1, <2>2, BuiltOnce
<1>6. g[n + 1] = IF n + 1 = 1 THEN t ELSE g[n] \o t
  <2>1. n + 1 \in 1..Len(more) /\ (n + 1) - 1 = n
    BY <1>1
  <2>. QED
    BY <1>1, <1>2, <2>1 DEF Flattening
<1>7. Recording!FlattenSeq(more) = g[n + 1]
  BY <1>1, FlattenIs DEF g
<1>8. CASE n = 0
  <2>1. texts = <<>> /\ Recording!FlattenSeq(texts) = texts
    BY <1>8, EmptySeq, FlattenIs
  <2>2. Recording!FlattenSeq(texts) = <<>> /\ <<>> \in Seq(Nat)
    BY <2>1
  <2>3. <<>> \o t = t
    BY ConcatEmptySeq
  <2>4. Recording!FlattenSeq(more) = t
    BY <1>6, <1>7, <1>8
  <2>. QED
    BY <2>2, <2>3, <2>4 DEF more
<1>9. CASE n # 0
  <2>1. Recording!FlattenSeq(texts) = f[n]
    BY <1>9, FlattenIs DEF f
  <2>2. n \in 1..n /\ n + 1 # 1
    BY <1>1, <1>9
  <2>. QED
    BY <1>4, <1>5, <1>6, <1>7, <1>9, <2>1, <2>2 DEF more
<1>. QED
  BY <1>8, <1>9

\* Nothing is in a file without members, and the text of a member that joins
\* is behind the others.
LEMMA TextOfFile ==
    ASSUME NEW members \in Seq(Members)
    PROVE  /\ Recording!Text(members) \in Seq(Nat)
           /\ members = <<>> => Recording!Text(members) = <<>>
           /\ \A m \in Members :
                 Recording!Text(Append(members, m)) = Recording!Text(members) \o m.text
<1>. DEFINE texts(ms) == [i \in DOMAIN ms |-> ms[i].text]
<1>1. ASSUME NEW ms \in Seq(Members)
      PROVE  /\ texts(ms) \in Seq(Seq(Nat)) /\ Len(texts(ms)) = Len(ms)
             /\ Len(ms) \in Nat /\ DOMAIN ms = 1..Len(ms)
             /\ \A i \in 1..Len(ms) : texts(ms)[i] = ms[i].text
  <2>1. Len(ms) \in Nat /\ DOMAIN ms = 1..Len(ms)
    BY LenProperties
  <2>2. \A i \in 1..Len(ms) : ms[i].text \in Seq(Nat)
    <3>1. \A i \in 1..Len(ms) : ms[i] \in Members
      BY ElementOfSeq
    <3>. QED
      BY <3>1 DEF Members
  <2>3. texts(ms) \in [1..Len(ms) -> Seq(Nat)]
    BY <2>1, <2>2
  <2>4. texts(ms) \in Seq(Seq(Nat))
    BY <2>1, <2>3, SeqDef
  <2>5. Len(texts(ms)) = Len(ms)
    BY <2>1, <2>3, <2>4, LenProperties
  <2>. QED
    BY <2>1, <2>4, <2>5
<1>2. \A ms : Recording!Text(ms) = Recording!FlattenSeq(texts(ms))
  BY DEF Recording!Text
<1>3. Recording!Text(members) \in Seq(Nat)
  BY <1>1, <1>2, FlattenAppended, EmptySeq
<1>4. ASSUME members = <<>> PROVE Recording!Text(members) = <<>>
  <2>1. Len(members) = 0
    BY <1>4
  <2>2. texts(members) = <<>>
    BY <1>1, <2>1, EmptySeq
  <2>. QED
    BY <1>2, <2>2, FlattenIs, EmptySeq
<1>5. ASSUME NEW m \in Members
      PROVE  Recording!Text(Append(members, m)) = Recording!Text(members) \o m.text
  <2>. DEFINE more == Append(members, m)
              n == Len(members)
  <2>1. /\ more \in Seq(Members) /\ Len(more) = n + 1 /\ n \in Nat
        /\ \A i \in 1..n : more[i] = members[i]
        /\ more[n + 1] = m
    BY AppendProperties, LenProperties
  <2>. HIDE DEF more
  <2>2. m.text \in Seq(Nat)
    BY DEF Members
  <2>. DEFINE old == texts(members)
              new == texts(more)
              goal == Append(old, m.text)
  <2>3. /\ old \in Seq(Seq(Nat)) /\ Len(old) = n
        /\ \A i \in 1..n : old[i] = members[i].text
        /\ new \in Seq(Seq(Nat)) /\ Len(new) = n + 1
        /\ \A i \in 1..(n + 1) : new[i] = more[i].text
    BY <1>1, <2>1
  <2>. HIDE DEF old, new
  <2>4. /\ goal \in Seq(Seq(Nat)) /\ Len(goal) = n + 1
        /\ \A i \in 1..n : goal[i] = old[i]
        /\ goal[n + 1] = m.text
    BY <2>2, <2>3, AppendProperties
  <2>5. \A i \in 1..(n + 1) : i = n + 1 \/ i \in 1..n
    BY <2>1
  <2>6. \A i \in 1..(n + 1) : new[i] = goal[i]
    BY <2>1, <2>3, <2>4, <2>5
  <2>. HIDE DEF goal
  <2>7. new = goal
    BY <2>3, <2>4, <2>6, SeqEqual
  <2>8. Recording!FlattenSeq(goal) = Recording!FlattenSeq(old) \o m.text
    BY <2>2, <2>3, FlattenAppended DEF goal
  <2>. QED
    BY <1>2, <2>7, <2>8 DEF old, new, more
<1>. QED
  BY <1>3, <1>4, <1>5

-----------------------------------------------------------------------------
(* The account of the messages                                             *)

\* Some of what is written or waits is lost.
LEMMA AccountOfLoss ==
    ASSUME NEW w, NEW rec, NEW q, NEW gone, Account(w, rec, q, gone),
           NEW X, X \subseteq 1..Len(rec),
           NEW q2, Recording!InOrder(q2), Recording!ToSet(q2) = Recording!ToSet(q) \ X,
           NEW w2,
           \A d \in RecordedDays :
              /\ Recording!InOrder(w2[d])
              /\ Recording!ToSet(w2[d]) = Recording!ToSet(w[d]) \ X
    PROVE  Account(w2, rec, q2, gone \cup X)
<1>1. Recording!ToSet(q2) \cap (gone \cup X) = {}
  BY DEF Account
<1>2. Recording!ToSet(q2) \subseteq 1..Len(rec) /\ gone \cup X \subseteq 1..Len(rec)
  BY DEF Account
<1>3. ASSUME NEW d \in RecordedDays
      PROVE  /\ Recording!ToSet(w2[d]) = {m \in 1..Len(rec) :
                    rec[m] = d /\ m \notin Recording!ToSet(q2) \cup (gone \cup X)}
             /\ \A m \in Recording!ToSet(w2[d]), x \in Recording!ToSet(q2) : m < x
  <2>1. /\ Recording!ToSet(w[d])
             = {m \in 1..Len(rec) : rec[m] = d /\ m \notin Recording!ToSet(q) \cup gone}
        /\ \A m \in Recording!ToSet(w[d]), x \in Recording!ToSet(q) : m < x
    BY DEF Account
  <2>. QED
    BY <2>1
<1>. QED
  BY <1>1, <1>2, <1>3 DEF Account

\* The first that waits is written.
LEMMA AccountOfWrite ==
    ASSUME NEW w \in [RecordedDays -> Seq(Nat)], NEW rec, NEW q \in Seq(Nat), NEW gone,
           Account(w, rec, q, gone), q # <<>>,
           NEW w2,
           \A d \in RecordedDays :
              w2[d] = IF d = rec[Head(q)] THEN w[d] \o <<Head(q)>> ELSE w[d]
    PROVE  Account(w2, rec, Tail(q), gone)
<1>. DEFINE h == Head(q)
            rest == Tail(q)
<1>1. /\ rest \in Seq(Nat) /\ Recording!InOrder(rest) /\ h \in Recording!ToSet(q)
      /\ Recording!ToSet(rest) = Recording!ToSet(q) \ {h}
      /\ \A x \in Recording!ToSet(rest) : h < x
  BY HeadOfText DEF Account
<1>2. h \in Nat
  BY <1>1, ItemsAre
<1>. HIDE DEF h, rest
<1>3. /\ Recording!ToSet(q) \subseteq 1..Len(rec) /\ gone \subseteq 1..Len(rec)
      /\ Recording!ToSet(q) \cap gone = {}
  BY DEF Account
<1>4. ASSUME NEW d \in RecordedDays
      PROVE  /\ Recording!InOrder(w2[d])
             /\ Recording!ToSet(w2[d]) = {m \in 1..Len(rec) :
                    rec[m] = d /\ m \notin Recording!ToSet(rest) \cup gone}
             /\ \A m \in Recording!ToSet(w2[d]), x \in Recording!ToSet(rest) : m < x
  <2>1. /\ w[d] \in Seq(Nat) /\ Recording!InOrder(w[d])
        /\ Recording!ToSet(w[d])
             = {m \in 1..Len(rec) : rec[m] = d /\ m \notin Recording!ToSet(q) \cup gone}
        /\ \A m \in Recording!ToSet(w[d]), x \in Recording!ToSet(q) : m < x
    BY DEF Account
  <2>2. CASE d = rec[h]
    <3>1. w2[d] = w[d] \o <<h>>
      BY <2>2 DEF h
    <3>2. Recording!InOrder(w2[d]) /\ Recording!ToSet(w2[d]) = Recording!ToSet(w[d]) \cup {h}
      BY <1>1, <1>2, <2>1, <3>1, AppendedText, SMTT(20)
    <3>3. Recording!ToSet(w[d]) \cup {h}
            = {m \in 1..Len(rec) : rec[m] = d /\ m \notin Recording!ToSet(rest) \cup gone}
      BY <1>1, <1>3, <2>1, <2>2
    <3>4. \A m \in Recording!ToSet(w[d]) \cup {h}, x \in Recording!ToSet(rest) : m < x
      BY <1>1, <2>1
    <3>. QED
      BY <3>2, <3>3, <3>4
  <2>3. CASE d # rec[h]
    <3>1. w2[d] = w[d]
      BY <2>3 DEF h
    <3>2. Recording!ToSet(w[d])
            = {m \in 1..Len(rec) : rec[m] = d /\ m \notin Recording!ToSet(rest) \cup gone}
      BY <1>1, <2>1, <2>3
    <3>. QED
      BY <1>1, <2>1, <3>1, <3>2
  <2>. QED
    BY <2>2, <2>3
<1>. QED
  BY <1>1, <1>3, <1>4 DEF Account, rest

\* One more is received: it goes, or waits behind the others.
LEMMA AccountOfMessage ==
    ASSUME NEW w, NEW rec \in Seq(RecordedDays), NEW q \in Seq(Nat), NEW gone,
           Account(w, rec, q, gone), NEW day \in RecordedDays
    PROVE  /\ Account(w, Append(rec, day), q, gone \cup {Len(rec) + 1})
           /\ Account(w, Append(rec, day), Append(q, Len(rec) + 1), gone)
<1>. DEFINE n == Len(rec)
            m == n + 1
            more == Append(rec, day)
            q2 == Append(q, m)
<1>1. /\ n \in Nat /\ Len(more) = m /\ \A i \in 1..n : more[i] = rec[i]
      /\ \A i \in 1..n : i \in 1..m /\ i < m /\ i # m
      /\ \A i \in 1..m : i = m \/ i \in 1..n
      /\ m \in 1..m /\ m \in Nat
  <2>1. n \in Nat /\ Len(more) = m /\ \A i \in 1..n : more[i] = rec[i]
    BY AppendProperties, LenProperties
  <2>2. \A i \in 1..n : i \in 1..m /\ i < m /\ i # m
    BY <2>1
  <2>3. \A i \in 1..m : i = m \/ i \in 1..n
    BY <2>1
  <2>. QED
    BY <2>1, <2>2, <2>3
<1>2. /\ Recording!InOrder(q)
      /\ Recording!ToSet(q) \subseteq 1..n /\ gone \subseteq 1..n
      /\ Recording!ToSet(q) \cap gone = {}
  BY DEF Account
<1>3. ASSUME NEW d \in RecordedDays
      PROVE  /\ Recording!InOrder(w[d])
             /\ Recording!ToSet(w[d])
                  = {i \in 1..n : rec[i] = d /\ i \notin Recording!ToSet(q) \cup gone}
             /\ \A i \in Recording!ToSet(w[d]), x \in Recording!ToSet(q) : i < x
  BY DEF Account
<1>. HIDE DEF n, m, more
<1>4. \A x \in Recording!ToSet(q) : x < m
  BY <1>1, <1>2
<1>5. Recording!InOrder(q2) /\ Recording!ToSet(q2) = Recording!ToSet(q) \cup {m}
  BY <1>1, <1>2, <1>4, AppendedText
<1>. HIDE DEF q2
<1>6. ASSUME NEW d \in RecordedDays, NEW out, out \cap 1..n = (Recording!ToSet(q) \cup gone) \cap 1..n,
             m \in out
      PROVE  Recording!ToSet(w[d]) = {i \in 1..Len(more) : more[i] = d /\ i \notin out}
  <2>1. ASSUME NEW i \in 1..m, more[i] = d, i \notin out PROVE i \in Recording!ToSet(w[d])
    BY <1>1, <1>3, <1>6, <2>1
  <2>2. ASSUME NEW i \in Recording!ToSet(w[d]) PROVE i \in 1..m /\ more[i] = d /\ i \notin out
    BY <1>1, <1>3, <1>6, <2>2
  <2>. QED
    BY <1>1, <2>1, <2>2
<1>7. Account(w, more, q, gone \cup {m})
  <2>1. Recording!ToSet(q) \subseteq 1..Len(more) /\ gone \cup {m} \subseteq 1..Len(more)
        /\ Recording!ToSet(q) \cap (gone \cup {m}) = {}
    BY <1>1, <1>2
  <2>2. (Recording!ToSet(q) \cup (gone \cup {m})) \cap 1..n = (Recording!ToSet(q) \cup gone) \cap 1..n
    BY <1>1
  <2>3. \A d \in RecordedDays : Recording!ToSet(w[d]) =
           {i \in 1..Len(more) : more[i] = d /\ i \notin Recording!ToSet(q) \cup (gone \cup {m})}
    BY <1>6, <2>2
  <2>. QED
    BY <1>2, <1>3, <2>1, <2>3 DEF Account
<1>8. Account(w, more, q2, gone)
  <2>1. Recording!ToSet(q2) \subseteq 1..Len(more) /\ gone \subseteq 1..Len(more)
        /\ Recording!ToSet(q2) \cap gone = {}
    BY <1>1, <1>2, <1>5
  <2>2. (Recording!ToSet(q2) \cup gone) \cap 1..n = (Recording!ToSet(q) \cup gone) \cap 1..n
    BY <1>1, <1>5
  <2>3. \A d \in RecordedDays : Recording!ToSet(w[d]) =
           {i \in 1..Len(more) : more[i] = d /\ i \notin Recording!ToSet(q2) \cup gone}
    BY <1>5, <1>6, <2>2
  <2>4. \A d \in RecordedDays :
           \A i \in Recording!ToSet(w[d]), x \in Recording!ToSet(q2) : i < x
    <3>. SUFFICES ASSUME NEW d \in RecordedDays, NEW i \in Recording!ToSet(w[d]),
                         NEW x \in Recording!ToSet(q2)
                  PROVE  i < x
      OBVIOUS
    <3>1. i \in 1..n
      BY <1>3
    <3>. QED
      BY <1>1, <1>3, <1>5, <3>1
  <2>. QED
    BY <1>3, <1>5, <2>1, <2>3, <2>4 DEF Account
<1>. QED
  BY <1>7, <1>8 DEF n, m, more, q2

-----------------------------------------------------------------------------
(* The open file                                                           *)

\* The texts of the days, and what the open file is made of.
LEMMA TextsAre ==
    ASSUME NEW fs \in [RecordedDays -> Seq(Members)],
           NEW cur \in OpenFiles \cup {Recording!NoFile}
    PROVE  /\ TextOf(fs, cur) \in [RecordedDays -> Seq(Nat)]
           /\ \A d \in RecordedDays :
                 /\ Recording!Text(fs[d]) \in Seq(Nat)
                 /\ TextOf(fs, cur)[d] =
                      IF cur # Recording!NoFile /\ cur.day = d
                      THEN Recording!Text(fs[d]) \o (cur.disk \o cur.buffer)
                      ELSE Recording!Text(fs[d])
           /\ cur # Recording!NoFile =>
                 /\ cur \in OpenFiles /\ cur.day \in RecordedDays
                 /\ cur.disk \in Seq(Nat) /\ cur.buffer \in Seq(Nat)
                 /\ cur.disk \o cur.buffer \in Seq(Nat)
<1>1. \A d \in RecordedDays : fs[d] \in Seq(Members) /\ Recording!Text(fs[d]) \in Seq(Nat)
  BY TextOfFile
<1>2. cur # Recording!NoFile =>
        /\ cur \in OpenFiles /\ cur.day \in RecordedDays
        /\ cur.disk \in Seq(Nat) /\ cur.buffer \in Seq(Nat)
  BY DEF OpenFiles
<1>3. cur # Recording!NoFile => cur.disk \o cur.buffer \in Seq(Nat)
  BY <1>2, ConcatProperties
<1>4. \A d \in RecordedDays :
         TextOf(fs, cur)[d] =
            IF cur # Recording!NoFile /\ cur.day = d
            THEN Recording!Text(fs[d]) \o (cur.disk \o cur.buffer)
            ELSE Recording!Text(fs[d])
  BY DEF TextOf
<1>5. \A d \in RecordedDays : TextOf(fs, cur)[d] \in Seq(Nat)
  BY <1>1, <1>3, <1>4, ConcatProperties
<1>6. TextOf(fs, cur) \in [RecordedDays -> Seq(Nat)]
  BY <1>5 DEF TextOf
<1>. QED
  BY <1>1, <1>2, <1>3, <1>4, <1>6

\* Three texts in a row.
LEMMA ThreeTexts ==
    ASSUME NEW s \in Seq(Nat), NEW t \in Seq(Nat), NEW u \in Seq(Nat)
    PROVE  (s \o t) \o u = s \o (t \o u)
  BY ConcatAssociative, SMTT(20)

-----------------------------------------------------------------------------
(* The steps of the recording                                              *)

\* What the invariant is made of, in the words of the steps.
LEMMA RecordingFacts ==
    ASSUME RecordingInv
    PROVE  /\ today \in RecordedDays /\ received \in Seq(RecordedDays) /\ queue \in Seq(Nat)
           /\ current \in OpenFiles \cup {Recording!NoFile}
           /\ files \in [RecordedDays -> Seq(Members)]
           /\ Account(TextOf(files, current), received, queue, dropped \cup lost)
           /\ Recording!InOrder(queue)
           /\ Recording!ToSet(queue) \subseteq 1..Len(received)
           /\ TextOf(files, current) \in [RecordedDays -> Seq(Nat)]
           /\ ClosedUnlessSpoilt(files, spoilt)
           /\ phase = "closed" => queue = <<>>
           /\ queue # <<>> =>
                 /\ Tail(queue) \in Seq(Nat) /\ Recording!InOrder(Tail(queue))
                 /\ Head(queue) \in Recording!ToSet(queue)
                 /\ Recording!ToSet(Tail(queue)) = Recording!ToSet(queue) \ {Head(queue)}
                 /\ received[Head(queue)] \in RecordedDays
<1>1. /\ RecordingTypes
      /\ Account(TextOf(files, current), received, queue, dropped \cup lost)
      /\ ClosedUnlessSpoilt(files, spoilt) /\ (phase = "closed" => queue = <<>>)
  BY DEF RecordingInv
<1>2. /\ today \in RecordedDays /\ received \in Seq(RecordedDays) /\ queue \in Seq(Nat)
      /\ current \in OpenFiles \cup {Recording!NoFile}
      /\ files \in [RecordedDays -> Seq(Members)]
  BY <1>1 DEF RecordingTypes
<1>3. TextOf(files, current) \in [RecordedDays -> Seq(Nat)]
  BY <1>2, TextsAre
<1>4. /\ Recording!InOrder(queue)
      /\ Recording!ToSet(queue) \subseteq 1..Len(received)
  BY <1>1 DEF Account
<1>5. ASSUME queue # <<>>
      PROVE  /\ Tail(queue) \in Seq(Nat) /\ Recording!InOrder(Tail(queue))
             /\ Head(queue) \in Recording!ToSet(queue)
             /\ Recording!ToSet(Tail(queue)) = Recording!ToSet(queue) \ {Head(queue)}
             /\ received[Head(queue)] \in RecordedDays
  <2>1. /\ Tail(queue) \in Seq(Nat) /\ Recording!InOrder(Tail(queue))
        /\ Head(queue) \in Recording!ToSet(queue)
        /\ Recording!ToSet(Tail(queue)) = Recording!ToSet(queue) \ {Head(queue)}
    BY <1>2, <1>4, <1>5, HeadOfText
  <2>2. Head(queue) \in 1..Len(received)
    BY <1>4, <2>1
  <2>. QED
    BY <1>2, <2>1, <2>2, ElementOfSeq
<1>. QED
  BY <1>1, <1>2, <1>3, <1>4, <1>5

\* A member joins the file of its day.
LEMMA MemberJoins ==
    ASSUME RecordingInv, NEW d \in RecordedDays, NEW m \in Members,
           Joins(files, files', d, m)
    PROVE  /\ files' \in [RecordedDays -> Seq(Members)]
           /\ \A e \in RecordedDays :
                 Recording!Text(files'[e]) = IF e = d THEN Recording!Text(files[d]) \o m.text
                                           ELSE Recording!Text(files[e])
           /\ ClosedUnlessSpoilt(files, spoilt') /\ (m.closed \/ d \in spoilt')
                 => ClosedUnlessSpoilt(files', spoilt')
<1>1. /\ Append(files[d], m) \in Seq(Members) /\ Len(Append(files[d], m)) = Len(files[d]) + 1
      /\ \A i \in 1..Len(files[d]) : Append(files[d], m)[i] = files[d][i]
      /\ Append(files[d], m)[Len(files[d]) + 1] = m
      /\ Recording!Text(Append(files[d], m)) = Recording!Text(files[d]) \o m.text
  <2>1. files[d] \in Seq(Members)
    BY RecordingFacts
  <2>2. Recording!Text(Append(files[d], m)) = Recording!Text(files[d]) \o m.text
    BY <2>1, TextOfFile
  <2>. QED
    BY <2>1, <2>2, AppendProperties
<1>2. \A e \in RecordedDays : files'[e] = IF e = d THEN Append(files[d], m) ELSE files[e]
  BY RecordingFacts DEF Joins
<1>3. files' \in [RecordedDays -> Seq(Members)]
  BY <1>1, RecordingFacts DEF Joins
<1>4. \A e \in RecordedDays :
         Recording!Text(files'[e]) = IF e = d THEN Recording!Text(files[d]) \o m.text
                                   ELSE Recording!Text(files[e])
  BY <1>1, <1>2
<1>5. ASSUME ClosedUnlessSpoilt(files, spoilt'), m.closed \/ d \in spoilt'
      PROVE  ClosedUnlessSpoilt(files', spoilt')
  <2>. SUFFICES ASSUME NEW e \in RecordedDays, e \notin spoilt', NEW i \in DOMAIN files'[e]
                PROVE  files'[e][i].closed
    BY DEF ClosedUnlessSpoilt
  <2>1. CASE e # d
    BY <1>2, <1>5, <2>1 DEF ClosedUnlessSpoilt
  <2>2. CASE e = d
    <3>1. m.closed /\ files'[e] = Append(files[d], m)
      BY <1>2, <1>5, <2>2
    <3>2. Len(files[d]) \in Nat /\ DOMAIN files[d] = 1..Len(files[d])
      BY RecordingFacts, LenProperties
    <3>3. DOMAIN files'[e] = 1..(Len(files[d]) + 1)
      BY <1>1, <3>1, LenProperties
    <3>4. i = Len(files[d]) + 1 \/ i \in 1..Len(files[d])
      BY <3>2, <3>3
    <3>5. i \in 1..Len(files[d]) => files[d][i].closed
      BY <1>5, <2>2, <3>2 DEF ClosedUnlessSpoilt
    <3>. QED
      BY <1>1, <3>1, <3>4, <3>5
  <2>. QED
    BY <2>1, <2>2
<1>. QED
  BY <1>3, <1>4, <1>5

\* Of the open file only the first k messages of the buffer remain.
LEMMA BufferCut ==
    ASSUME RecordingInv, current # Recording!NoFile,
           NEW k \in 0..Len(current.buffer),
           NEW w, CutAt(files, current, k, w)
    PROVE  /\ Rest(current, k) \subseteq 1..Len(received) /\ Rest(current, k) \cap Recording!ToSet(queue) = {}
           /\ \A d \in RecordedDays :
                 /\ Recording!InOrder(w[d])
                 /\ Recording!ToSet(w[d]) = Recording!ToSet(TextOf(files, current)[d]) \ Rest(current, k)
<1>. DEFINE X == Rest(current, k)
            day == current.day
            old == TextOf(files, current)
            before == Recording!Text(files[day])
            front == before \o current.disk
            some == SubSeq(current.buffer, 1, k)
<1>1. /\ day \in RecordedDays /\ before \in Seq(Nat)
      /\ current.disk \in Seq(Nat) /\ current.buffer \in Seq(Nat)
      /\ old[day] = before \o (current.disk \o current.buffer)
      /\ \A d \in RecordedDays : d # day => old[d] = Recording!Text(files[d])
  BY RecordingFacts, TextsAre
<1>2. front \in Seq(Nat) /\ old[day] = front \o current.buffer
  <2>. HIDE DEF before, old
  <2>1. front \in Seq(Nat)
    BY <1>1, ConcatProperties
  <2>2. front \o current.buffer = before \o (current.disk \o current.buffer)
    BY <1>1, ThreeTexts, Zenon
  <2>. QED
    BY <1>1, <2>1, <2>2
<1>3. \A d \in RecordedDays :
        /\ Recording!InOrder(old[d])
        /\ Recording!ToSet(old[d])
             = {m \in 1..Len(received) : received[m] = d /\ m \notin Recording!ToSet(queue) \cup (dropped \cup lost)}
  <2>1. Account(old, received, queue, dropped \cup lost)
    BY RecordingFacts
  <2>. HIDE DEF old
  <2>. QED
    BY <2>1 DEF Account
<1>. HIDE DEF old, front, before
<1>4. /\ Recording!InOrder(front) /\ Recording!InOrder(current.buffer)
      /\ Recording!ToSet(old[day]) = Recording!ToSet(front) \cup Recording!ToSet(current.buffer)
      /\ \A x \in Recording!ToSet(front), y \in Recording!ToSet(current.buffer) : x < y
  <2>1. Recording!InOrder(front \o current.buffer)
    BY <1>1, <1>2, <1>3
  <2>. QED
    BY <1>1, <1>2, <2>1, JoinedText
<1>5. /\ some \in Seq(Nat) /\ Recording!InOrder(some)
      /\ X \subseteq Recording!ToSet(current.buffer)
      /\ Recording!ToSet(some) = Recording!ToSet(current.buffer) \ X
  BY <1>1, <1>4, CutText DEF Rest
<1>. HIDE DEF some, X
<1>6. X \subseteq Recording!ToSet(old[day])
  BY <1>4, <1>5
<1>7. X \subseteq 1..Len(received) /\ X \cap Recording!ToSet(queue) = {}
  BY <1>1, <1>3, <1>6
<1>8. ASSUME NEW d \in RecordedDays
      PROVE  /\ Recording!InOrder(w[d])
             /\ Recording!ToSet(w[d]) = Recording!ToSet(old[d]) \ X
  <2>1. CASE d # day
    <3>1. w[d] = old[d]
      BY <1>1, <2>1 DEF CutAt
    <3>2. Recording!ToSet(old[d]) \cap X = {}
      BY <1>1, <1>3, <1>6, <2>1
    <3>. QED
      BY <1>3, <3>1, <3>2
  <2>2. CASE d = day
    <3>1. w[d] = before \o (current.disk \o some)
      BY <2>2 DEF some, before, CutAt
    <3>2. w[d] = front \o some
      <4>1. (before \o current.disk) \o some = before \o (current.disk \o some)
        BY <1>1, <1>5, ThreeTexts, Zenon
      <4>. QED
        BY <3>1, <4>1 DEF front
    <3>3. \A x \in Recording!ToSet(front), y \in Recording!ToSet(some) : x < y
      BY <1>4, <1>5
    <3>4. Recording!InOrder(front \o some)
          /\ Recording!ToSet(front \o some) = Recording!ToSet(front) \cup Recording!ToSet(some)
      BY <1>2, <1>4, <1>5, <3>3, JoinedText
    <3>5. Recording!ToSet(front) \subseteq Nat /\ Recording!ToSet(current.buffer) \subseteq Nat
      BY <1>1, <1>2, ItemsAre
    <3>6. Recording!ToSet(front) \cap X = {}
      <4>. SUFFICES ASSUME NEW x \in Recording!ToSet(front), x \in X PROVE FALSE
        OBVIOUS
      <4>1. x \in Nat /\ x < x
        BY <1>4, <1>5, <3>5
      <4>. QED
        BY <4>1
    <3>. QED
      BY <1>4, <1>5, <2>2, <3>2, <3>4, <3>6
  <2>. QED
    BY <2>1, <2>2
<1>. QED
  BY <1>7, <1>8 DEF old, X

\* A step that only loses messages, of those that wait: the texts are the same.
LEMMA RecordingLoses ==
    ASSUME RecordingInv, UNCHANGED <<received, dropped, files, current>>,
           today' \in RecordedDays,
           NEW X, X \subseteq Recording!ToSet(queue), lost' = lost \cup X,
           queue' \in Seq(Nat), Recording!InOrder(queue'),
           Recording!ToSet(queue') = Recording!ToSet(queue) \ X,
           spoilt' = spoilt, phase' = "closed" => queue' = <<>>
    PROVE  RecordingInv'
<1>. DEFINE w == TextOf(files, current)
<1>1. Account(w, received, queue, dropped \cup lost)
  BY RecordingFacts
<1>2. X \subseteq 1..Len(received)
  BY RecordingFacts
<1>3. \A d \in RecordedDays :
        /\ Recording!InOrder(w[d])
        /\ Recording!ToSet(w[d]) = Recording!ToSet(w[d]) \ X
  <2>. HIDE DEF w
  <2>. QED
    BY <1>1 DEF Account
<1>4. Account(w, received, queue', (dropped \cup lost) \cup X)
  <2>. HIDE DEF w
  <2>. QED
    BY <1>1, <1>2, <1>3, AccountOfLoss
<1>5. w' = w /\ (dropped \cup lost)' = (dropped \cup lost) \cup X
  BY DEF TextOf
<1>6. Account(TextOf(files, current), received, queue, dropped \cup lost)'
  BY <1>4, <1>5
<1>7. RecordingTypes'
  BY RecordingFacts DEF RecordingTypes
<1>8. ClosedUnlessSpoilt(files, spoilt)'
  BY RecordingFacts DEF ClosedUnlessSpoilt
<1>. QED
  BY <1>6, <1>7, <1>8 DEF RecordingInv

\* The open file is cut behind the first k messages of its buffer, and ends
\* there or goes on; the rest is lost, and also some that wait.
LEMMA RecordingCuts ==
    ASSUME RecordingInv, current # Recording!NoFile,
           UNCHANGED <<today, received, dropped>>,
           NEW k \in 0..Len(current.buffer),
           NEW also, also \subseteq Recording!ToSet(queue),
           lost' = lost \cup also \cup Rest(current, k),
           queue' \in Seq(Nat), Recording!InOrder(queue'),
           Recording!ToSet(queue') = Recording!ToSet(queue) \ also,
           phase' = "closed" => queue' = <<>>,
           files' \in [RecordedDays -> Seq(Members)],
           current' \in OpenFiles \cup {Recording!NoFile},
           CutAt(files, current, k, TextOf(files', current')),
           ClosedUnlessSpoilt(files', spoilt')
    PROVE  RecordingInv'
<1>. DEFINE rest == Rest(current, k)
            X == also \cup rest
            w == TextOf(files, current)
            w2 == TextOf(files', current')
<1>1. /\ files \in [RecordedDays -> Seq(Members)] /\ current \in OpenFiles
      /\ queue \in Seq(Nat) /\ Account(w, received, queue, dropped \cup lost)
      /\ also \subseteq 1..Len(received)
  BY RecordingFacts
<1>2. /\ rest \subseteq 1..Len(received) /\ rest \cap Recording!ToSet(queue) = {}
      /\ \A d \in RecordedDays :
            /\ Recording!InOrder(w2[d])
            /\ Recording!ToSet(w2[d]) = Recording!ToSet(w[d]) \ rest
  BY <1>1, BufferCut
<1>. HIDE DEF rest, w, w2
<1>3. \A d \in RecordedDays :
        Recording!ToSet(w[d]) \cap Recording!ToSet(queue) = {}
  BY <1>1 DEF Account
<1>4. \A d \in RecordedDays :
        /\ Recording!InOrder(w2[d])
        /\ Recording!ToSet(w2[d]) = Recording!ToSet(w[d]) \ X
  BY <1>2, <1>3
<1>5. Recording!ToSet(queue') = Recording!ToSet(queue) \ X
  BY <1>2
<1>6. X \subseteq 1..Len(received)
  BY <1>1, <1>2
<1>. HIDE DEF X
<1>7. Account(w2, received, queue', (dropped \cup lost) \cup X)
  BY <1>1, <1>4, <1>5, <1>6, AccountOfLoss
<1>8. (dropped \cup lost)' = (dropped \cup lost) \cup X
  BY DEF X, rest
<1>9. Account(TextOf(files, current), received, queue, dropped \cup lost)'
  BY <1>7, <1>8 DEF w2
<1>10. RecordingTypes'
  BY RecordingFacts DEF RecordingTypes
<1>. QED
  BY <1>9, <1>10 DEF RecordingInv

\* The writer ends its file with a member that lost its end, and also some that
\* wait.
LEMMA RecordingAbandons ==
    ASSUME RecordingInv, current # Recording!NoFile, current' = Recording!NoFile,
           UNCHANGED <<today, received, dropped>>,
           NEW k \in 0..Len(current.buffer),
           \/ files' = Recording!Put(Recording!Cut(k))
           \/ Recording!Cut(k).text = <<>> /\ files' = files,
           NEW also, also \subseteq Recording!ToSet(queue),
           lost' = lost \cup also \cup Rest(current, k),
           spoilt' = spoilt \cup {current.day},
           queue' \in Seq(Nat), Recording!InOrder(queue'),
           Recording!ToSet(queue') = Recording!ToSet(queue) \ also,
           phase' = "closed" => queue' = <<>>
    PROVE  RecordingInv'
<1>. DEFINE day == current.day
            kept == current.disk \o SubSeq(current.buffer, 1, k)
            member == [text |-> kept, closed |-> FALSE]
<1>1. /\ files \in [RecordedDays -> Seq(Members)] /\ current \in OpenFiles
      /\ day \in RecordedDays /\ current.disk \in Seq(Nat) /\ current.buffer \in Seq(Nat)
      /\ ClosedUnlessSpoilt(files, spoilt)
      /\ \A d \in RecordedDays : Recording!Text(files[d]) \in Seq(Nat)
  BY RecordingFacts, TextsAre
<1>2. kept \in Seq(Nat)
  <2>1. \A i \in 1..k : current.buffer[i] \in Nat
    <3>1. \A i \in 1..k : i \in 1..Len(current.buffer)
      BY <1>1, LenProperties
    <3>. QED
      BY <1>1, <3>1, ElementOfSeq
  <2>2. SubSeq(current.buffer, 1, k) \in Seq(Nat)
    <3>1. k \in Int /\ 1 \in Int
      BY <1>1, LenProperties
    <3>. QED
      BY <2>1, <3>1, SubSeqProperties
  <2>. QED
    BY <1>1, <2>2, ConcatProperties
<1>3. Recording!Cut(k) = member
  BY DEF Recording!Cut
<1>. HIDE DEF kept
<1>4. member \in Members /\ member.text = kept /\ ~member.closed
  BY <1>2 DEF Members
<1>. HIDE DEF member
<1>5. ClosedUnlessSpoilt(files, spoilt')
  BY <1>1 DEF ClosedUnlessSpoilt
<1>6. /\ files' \in [RecordedDays -> Seq(Members)]
      /\ \A d \in RecordedDays :
            Recording!Text(files'[d]) = IF d = day THEN Recording!Text(files[d]) \o kept
                                        ELSE Recording!Text(files[d])
      /\ ClosedUnlessSpoilt(files', spoilt')
  <2>1. CASE files' = Recording!Put(Recording!Cut(k))
    <3>1. Joins(files, files', day, member)
      BY <1>3, <2>1 DEF Recording!Put, Joins
    <3>2. day \in spoilt'
      OBVIOUS
    <3>. QED
      BY <1>1, <1>4, <1>5, <3>1, <3>2, MemberJoins
  <2>2. CASE Recording!Cut(k).text = <<>> /\ files' = files
    <3>1. kept = <<>>
      BY <1>3, <1>4, <2>2
    <3>2. \A d \in RecordedDays : Recording!Text(files[d]) \o kept = Recording!Text(files[d])
      BY <1>1, <3>1, ConcatEmptySeq
    <3>. QED
      BY <1>1, <1>5, <2>2, <3>2
  <2>. QED
    BY <2>1, <2>2
<1>7. current' \in OpenFiles \cup {Recording!NoFile}
  OBVIOUS
<1>8. CutAt(files, current, k, TextOf(files', current'))
  BY <1>6 DEF TextOf, CutAt, kept
<1>. QED
  BY <1>6, <1>7, <1>8, RecordingCuts

\* closeDay, when the day turns and when the queue is empty at the end.
LEMMA RecordingClosesDay ==
    ASSUME RecordingInv, current # Recording!NoFile, Recording!CloseDay,
           current' = Recording!NoFile, UNCHANGED <<today, received, dropped, queue>>,
           phase' = "closed" => queue = <<>>
    PROVE  RecordingInv'
<1>1. /\ files \in [RecordedDays -> Seq(Members)] /\ current \in OpenFiles
      /\ current.day \in RecordedDays
      /\ current.disk \in Seq(Nat) /\ current.buffer \in Seq(Nat)
      /\ current.disk \o current.buffer \in Seq(Nat)
      /\ queue \in Seq(Nat) /\ Recording!InOrder(queue)
      /\ ClosedUnlessSpoilt(files, spoilt)
  BY RecordingFacts, TextsAre
<1>2. CASE Recording!ClosedWell
  <2>. DEFINE member == [text |-> current.disk \o current.buffer, closed |-> TRUE]
              k == Len(current.buffer)
  <2>1. /\ Joins(files, files', current.day, member)
        /\ lost' = lost /\ spoilt' = spoilt
    BY <1>2 DEF Recording!ClosedWell, Recording!Put, Recording!Whole, Joins
  <2>2. member \in Members /\ member.text = current.disk \o current.buffer /\ member.closed
    BY <1>1 DEF Members
  <2>. HIDE DEF member
  <2>3. /\ files' \in [RecordedDays -> Seq(Members)]
        /\ \A d \in RecordedDays :
              Recording!Text(files'[d])
                = IF d = current.day
                  THEN Recording!Text(files[d]) \o (current.disk \o current.buffer)
                  ELSE Recording!Text(files[d])
        /\ ClosedUnlessSpoilt(files', spoilt)
    BY <1>1, <2>1, <2>2, MemberJoins
  <2>4. /\ k \in 0..Len(current.buffer) /\ SubSeq(current.buffer, 1, k) = current.buffer
        /\ (k + 1)..Len(current.buffer) = {}
    BY <1>1, LenProperties, SubSeqFull
  <2>5. CutAt(files, current, k, TextOf(files', current'))
    BY <2>3, <2>4 DEF TextOf, CutAt
  <2>6. {} \subseteq Recording!ToSet(queue)
        /\ lost' = lost \cup {} \cup Rest(current, k)
    BY <2>1, <2>4 DEF Rest
  <2>7. /\ queue' \in Seq(Nat) /\ Recording!InOrder(queue')
        /\ Recording!ToSet(queue') = Recording!ToSet(queue) \ {}
        /\ phase' = "closed" => queue' = <<>>
        /\ current' \in OpenFiles \cup {Recording!NoFile}
        /\ ClosedUnlessSpoilt(files', spoilt')
    BY <1>1, <2>1, <2>3
  <2>. HIDE DEF k
  <2>. QED
    BY <2>3, <2>4, <2>5, <2>6, <2>7, RecordingCuts
<1>3. CASE Recording!Abandoned({})
  <2>1. PICK k \in 0..Len(current.buffer) :
          /\ \/ files' = Recording!Put(Recording!Cut(k))
             \/ Recording!Cut(k).text = <<>> /\ files' = files
          /\ lost' = lost \cup {} \cup Rest(current, k)
          /\ spoilt' = spoilt \cup {current.day}
    BY <1>3 DEF Recording!Abandoned, Rest
  <2>2. /\ {} \subseteq Recording!ToSet(queue)
        /\ queue' \in Seq(Nat) /\ Recording!InOrder(queue')
        /\ Recording!ToSet(queue') = Recording!ToSet(queue) \ {}
        /\ phase' = "closed" => queue' = <<>>
    BY <1>1
  <2>. QED
    BY <2>1, <2>2, RecordingAbandons
<1>. QED
  BY <1>2, <1>3 DEF Recording!CloseDay


\* Record.
LEMMA RecordingReceives ==
    ASSUME RecordingInv, Recording!Record PROVE RecordingInv'
<1>. DEFINE m == Len(received) + 1
            w == TextOf(files, current)
<1>1. /\ received' = Append(received, today)
      /\ UNCHANGED <<today, current, files, phase, faults, spoilt>>
      /\ \/ lost' = lost \cup {m} /\ UNCHANGED <<queue, dropped>>
         \/ phase # "closed" /\ queue' = Append(queue, m) /\ UNCHANGED <<lost, dropped>>
         \/ dropped' = dropped \cup {m} /\ UNCHANGED <<lost, queue>>
  BY DEF Recording!Record
<1>2. /\ today \in RecordedDays /\ received \in Seq(RecordedDays) /\ queue \in Seq(Nat)
      /\ Account(w, received, queue, dropped \cup lost) /\ m \in Nat
  <2>1. m \in Nat
    BY RecordingFacts, LenProperties
  <2>. QED
    BY <2>1, RecordingFacts
<1>3. w' = w
  BY <1>1 DEF TextOf
<1>. HIDE DEF w
<1>4. /\ Account(w, received', queue, (dropped \cup lost) \cup {m})
      /\ Account(w, received', Append(queue, m), dropped \cup lost)
  BY <1>1, <1>2, AccountOfMessage
<1>5. received' \in Seq(RecordedDays) /\ Append(queue, m) \in Seq(Nat)
  BY <1>1, <1>2, AppendProperties
<1>. HIDE DEF m
<1>6. /\ Account(w', received', queue', dropped' \cup lost') /\ queue' \in Seq(Nat)
      /\ phase' = "closed" => queue' = <<>>
  <2>1. CASE lost' = lost \cup {m} /\ UNCHANGED <<queue, dropped>>
    <3>1. dropped' \cup lost' = (dropped \cup lost) \cup {m}
      BY <2>1
    <3>. QED
      BY <1>1, <1>2, <1>3, <1>4, <2>1, <3>1, RecordingFacts
  <2>2. CASE phase # "closed" /\ queue' = Append(queue, m) /\ UNCHANGED <<lost, dropped>>
    BY <1>1, <1>3, <1>4, <1>5, <2>2
  <2>3. CASE dropped' = dropped \cup {m} /\ UNCHANGED <<lost, queue>>
    <3>1. dropped' \cup lost' = (dropped \cup lost) \cup {m}
      BY <2>3
    <3>. QED
      BY <1>1, <1>2, <1>3, <1>4, <2>3, <3>1, RecordingFacts
  <2>. QED
    BY <1>1, <2>1, <2>2, <2>3
<1>7. RecordingTypes'
  BY <1>1, <1>5, <1>6, RecordingFacts DEF RecordingTypes
<1>8. ClosedUnlessSpoilt(files, spoilt)'
  BY <1>1, RecordingFacts DEF ClosedUnlessSpoilt
<1>. QED
  BY <1>6, <1>7, <1>8 DEF RecordingInv, w

\* The first that waits reaches the buffer of its day's file.
LEMMA RecordingWrites ==
    ASSUME RecordingInv, queue # <<>>, queue' = Tail(queue),
           UNCHANGED <<today, received, dropped, lost, files, spoilt, phase>>,
           current' \in OpenFiles, current'.day = received[Head(queue)],
           \/ /\ current # Recording!NoFile /\ current.day = received[Head(queue)]
              /\ current'.disk = current.disk
              /\ current'.buffer = Append(current.buffer, Head(queue))
           \/ /\ current = Recording!NoFile
              /\ current'.disk = <<>> /\ current'.buffer = <<Head(queue)>>
    PROVE  RecordingInv'
<1>. DEFINE h == Head(queue)
            day == received[h]
            w == TextOf(files, current)
            w2 == TextOf(files', current')
<1>1. /\ queue \in Seq(Nat) /\ w \in [RecordedDays -> Seq(Nat)]
      /\ Account(w, received, queue, dropped \cup lost)
      /\ Tail(queue) \in Seq(Nat) /\ h \in Nat /\ day \in RecordedDays
      /\ files \in [RecordedDays -> Seq(Members)]
      /\ current \in OpenFiles \cup {Recording!NoFile}
  BY RecordingFacts, ItemsAre
<1>2. current' # Recording!NoFile
  <2>1. current'.day # 0
    BY <1>1 DEF RecordedDays
  <2>. QED
    BY <2>1 DEF Recording!NoFile
<1>3. \A d \in RecordedDays :
        w2[d] = IF d = day THEN Recording!Text(files[d]) \o (current'.disk \o current'.buffer)
                ELSE Recording!Text(files[d])
  BY <1>2 DEF TextOf
<1>4. \A d \in RecordedDays : w2[d] = IF d = day THEN w[d] \o <<h>> ELSE w[d]
  <2>1. CASE /\ current # Recording!NoFile /\ current.day = day
             /\ current'.disk = current.disk
             /\ current'.buffer = Append(current.buffer, h)
    <3>. DEFINE text == Recording!Text(files[day])
                one == <<h>>
                disk == current.disk
                buffer == current.buffer
    <3>1. /\ \A d \in RecordedDays : d # day => w[d] = Recording!Text(files[d])
          /\ w[day] = text \o (disk \o buffer)
          /\ text \in Seq(Nat) /\ disk \in Seq(Nat) /\ buffer \in Seq(Nat)
      BY <1>1, <2>1, TextsAre
    <3>2. Append(buffer, h) = buffer \o one /\ one \in Seq(Nat)
      <4>1. one \in Seq(Nat)
        BY <1>1
      <4>2. \A s \in Seq(Nat), x \in Nat : Append(s, x) = s \o <<x>>
        BY AppendIsConcat
      <4>. QED
        BY <1>1, <3>1, <4>1, <4>2, Zenon
    <3>3. current'.disk = disk /\ current'.buffer = buffer \o one
      BY <2>1, <3>2
    <3>. HIDE DEF one, text, disk, buffer
    <3>4. disk \o buffer \in Seq(Nat)
      BY <3>1, ConcatProperties
    <3>5. (disk \o buffer) \o one = disk \o (buffer \o one)
      BY <3>1, <3>2, ThreeTexts, Zenon
    <3>6. (text \o (disk \o buffer)) \o one = text \o ((disk \o buffer) \o one)
      BY <3>1, <3>2, <3>4, ThreeTexts, Zenon
    <3>7. text \o (current'.disk \o current'.buffer) = w[day] \o one
      BY <3>1, <3>3, <3>5, <3>6
    <3>. HIDE DEF w, w2
    <3>. QED
      BY <1>1, <1>3, <3>1, <3>7 DEF text, one
  <2>2. CASE /\ current = Recording!NoFile
             /\ current'.disk = <<>> /\ current'.buffer = <<h>>
    <3>. DEFINE one == <<h>>
    <3>1. \A d \in RecordedDays : w[d] = Recording!Text(files[d])
      BY <1>1, <2>2, TextsAre
    <3>2. <<>> \o one = one
      <4>1. one \in Seq(Nat)
        BY <1>1
      <4>. QED
        BY <4>1, ConcatEmptySeq
    <3>3. current'.disk \o current'.buffer = one
      BY <2>2, <3>2
    <3>. HIDE DEF w, w2
    <3>. QED
      BY <1>1, <1>3, <3>1, <3>3
  <2>. QED
    BY <2>1, <2>2
<1>. HIDE DEF w, w2
<1>5. Account(w2, received, Tail(queue), dropped \cup lost)
  <2>1. queue # <<>>
    OBVIOUS
  <2>. QED
    BY <1>1, <1>4, <2>1, AccountOfWrite
<1>6. Account(TextOf(files, current), received, queue, dropped \cup lost)'
  BY <1>5 DEF w2
<1>7. RecordingTypes'
  BY <1>1, RecordingFacts DEF RecordingTypes
<1>8. ClosedUnlessSpoilt(files, spoilt)'
  BY RecordingFacts DEF ClosedUnlessSpoilt
<1>9. phase' # "closed"
  BY RecordingFacts
<1>. QED
  BY <1>6, <1>7, <1>8, <1>9 DEF RecordingInv

\* The first that waits is lost.
LEMMA RecordingLosesFirst ==
    ASSUME RecordingInv, queue # <<>>, queue' = Tail(queue),
           UNCHANGED <<today, received, dropped, files, current, spoilt, phase>>,
           lost' = lost \cup {Head(queue)}
    PROVE  RecordingInv'
<1>1. /\ today \in RecordedDays /\ {Head(queue)} \subseteq Recording!ToSet(queue)
      /\ queue' \in Seq(Nat) /\ Recording!InOrder(queue')
      /\ Recording!ToSet(queue') = Recording!ToSet(queue) \ {Head(queue)}
      /\ phase' # "closed"
  BY RecordingFacts
<1>. QED
  BY <1>1, RecordingLoses

\* The writer's step.
LEMMA WriteStep ==
    ASSUME RecordingInv, Recording!Write PROVE RecordingInv'
<1>. DEFINE h == Head(queue)
<1>1. /\ queue # <<>> /\ phase # "closed"
      /\ UNCHANGED <<today, received, dropped, phase>>
      /\ \/ (Recording!WriteOn(h) \/ Recording!OpenDay(h)) /\ queue' = Tail(queue)
         \/ Recording!TurnPage(h) /\ UNCHANGED queue
  BY DEF Recording!Write
<1>2. /\ received[h] \in RecordedDays /\ h \in Nat /\ queue \in Seq(Nat)
      /\ current \in OpenFiles \cup {Recording!NoFile}
  BY <1>1, RecordingFacts, ItemsAre
<1>. HIDE DEF h
<1>3. CASE Recording!WriteOn(h) /\ queue' = Tail(queue)
  <2>1. /\ current # Recording!NoFile /\ current.day = received[h]
        /\ UNCHANGED <<files, spoilt>>
        /\ \/ lost' = lost \cup {h} /\ current' = current
           \/ current' = [current EXCEPT !.buffer = Append(@, h)] /\ lost' = lost
    BY <1>3 DEF Recording!WriteOn
  <2>2. CASE lost' = lost \cup {h} /\ current' = current
    BY <1>1, <1>3, <2>1, <2>2, RecordingLosesFirst DEF h
  <2>3. CASE current' = [current EXCEPT !.buffer = Append(@, h)] /\ lost' = lost
    <3>1. current \in OpenFiles /\ Append(current.buffer, h) \in Seq(Nat)
      <4>1. current \in OpenFiles /\ current.buffer \in Seq(Nat)
        BY <1>2, <2>1 DEF OpenFiles
      <4>. QED
        BY <1>2, <4>1, AppendProperties
    <3>2. /\ current' \in OpenFiles /\ current'.day = current.day
          /\ current'.disk = current.disk
          /\ current'.buffer = Append(current.buffer, h)
      BY <2>3, <3>1 DEF OpenFiles
    <3>. QED
      BY <1>1, <1>3, <2>1, <2>3, <3>2, RecordingWrites DEF h
  <2>. QED
    BY <2>1, <2>2, <2>3
<1>4. CASE Recording!OpenDay(h) /\ queue' = Tail(queue)
  <2>1. /\ current = Recording!NoFile
        /\ UNCHANGED <<files, spoilt>>
        /\ \/ current' = [Recording!Opened(received[h]) EXCEPT !.buffer = <<h>>] /\ lost' = lost
           \/ lost' = lost \cup {h} /\ current' = current
    BY <1>4 DEF Recording!OpenDay
  <2>2. CASE lost' = lost \cup {h} /\ current' = current
    BY <1>1, <1>4, <2>1, <2>2, RecordingLosesFirst DEF h
  <2>3. CASE /\ current' = [Recording!Opened(received[h]) EXCEPT !.buffer = <<h>>]
             /\ lost' = lost
    <3>1. current' = [day |-> received[h], disk |-> <<>>, buffer |-> <<h>>, broken |-> FALSE]
      BY <2>3 DEF Recording!Opened
    <3>2. <<h>> \in Seq(Nat) /\ <<>> \in Seq(Nat)
      BY <1>2
    <3>3. /\ current' \in OpenFiles /\ current'.day = received[h]
          /\ current'.disk = <<>> /\ current'.buffer = <<h>>
      BY <1>2, <3>1, <3>2 DEF OpenFiles
    <3>. QED
      BY <1>1, <1>4, <2>1, <2>3, <3>3, RecordingWrites DEF h
  <2>. QED
    BY <2>1, <2>2, <2>3
<1>5. CASE Recording!TurnPage(h) /\ UNCHANGED queue
  <2>1. /\ current # Recording!NoFile /\ Recording!CloseDay /\ current' = Recording!NoFile
    BY <1>5 DEF Recording!TurnPage
  <2>. QED
    BY <1>1, <1>5, <2>1, RecordingClosesDay
<1>. QED
  BY <1>1, <1>3, <1>4, <1>5

\* The ticker of five seconds.
LEMMA FlushStep ==
    ASSUME RecordingInv, Recording!Flush PROVE RecordingInv'
<1>1. /\ current # Recording!NoFile /\ phase = "running"
      /\ UNCHANGED <<today, received, queue, dropped, files, phase>>
  BY DEF Recording!Flush
<1>2. PICK k \in 0..Len(current.buffer) :
        /\ current' = [current EXCEPT !.disk = @ \o SubSeq(current.buffer, 1, k),
                                      !.buffer = <<>>, !.broken = k < Len(current.buffer)]
        /\ lost' = lost \cup Rest(current, k)
        /\ spoilt' = spoilt \/ spoilt' = spoilt \cup {current.day}
  BY DEF Recording!Flush, Rest
<1>3. /\ files \in [RecordedDays -> Seq(Members)] /\ current \in OpenFiles
      /\ current.day \in RecordedDays
      /\ current.disk \in Seq(Nat) /\ current.buffer \in Seq(Nat)
      /\ queue \in Seq(Nat) /\ Recording!InOrder(queue)
      /\ ClosedUnlessSpoilt(files, spoilt)
  BY <1>1, RecordingFacts, TextsAre
<1>. DEFINE kept == current.disk \o SubSeq(current.buffer, 1, k)
            fails == k < Len(current.buffer)
<1>4. kept \in Seq(Nat) /\ kept \o <<>> = kept
  <2>1. \A i \in 1..k : current.buffer[i] \in Nat
    <3>1. \A i \in 1..k : i \in 1..Len(current.buffer)
      BY <1>3, LenProperties
    <3>. QED
      BY <1>3, <3>1, ElementOfSeq
  <2>2. SubSeq(current.buffer, 1, k) \in Seq(Nat)
    <3>1. k \in Int /\ 1 \in Int
      BY <1>3, LenProperties
    <3>. QED
      BY <2>1, <3>1, SubSeqProperties
  <2>3. kept \in Seq(Nat)
    BY <1>3, <2>2, ConcatProperties
  <2>. HIDE DEF kept
  <2>. QED
    BY <2>3, ConcatEmptySeq
<1>5. fails \in BOOLEAN
  BY <1>3, LenProperties
<1>6. current' = [current EXCEPT !.disk = kept, !.buffer = <<>>, !.broken = fails]
  BY <1>2
<1>. HIDE DEF kept, fails
<1>7. /\ current' \in OpenFiles /\ current'.day = current.day
      /\ current'.disk = kept /\ current'.buffer = <<>>
  <2>1. <<>> \in Seq(Nat)
    OBVIOUS
  <2>. QED
    BY <1>3, <1>4, <1>5, <1>6, <2>1 DEF OpenFiles
<1>8. current' # Recording!NoFile
  <2>1. current'.day # 0
    BY <1>3, <1>7 DEF RecordedDays
  <2>. QED
    BY <2>1 DEF Recording!NoFile
<1>9. CutAt(files, current, k, TextOf(files', current'))
  <2>1. current'.disk \o current'.buffer = kept
    BY <1>4, <1>7
  <2>2. \A d \in RecordedDays :
           TextOf(files', current')[d] = IF d = current.day THEN Recording!Text(files[d]) \o kept
                                         ELSE Recording!Text(files[d])
    BY <1>1, <1>7, <1>8, <2>1 DEF TextOf
  <2>. QED
    BY <2>2 DEF CutAt, kept
<1>10. ClosedUnlessSpoilt(files', spoilt')
  BY <1>1, <1>2, <1>3 DEF ClosedUnlessSpoilt
<1>11. /\ {} \subseteq Recording!ToSet(queue) /\ lost' = lost \cup {} \cup Rest(current, k)
       /\ queue' \in Seq(Nat) /\ Recording!InOrder(queue')
       /\ Recording!ToSet(queue') = Recording!ToSet(queue) \ {}
       /\ phase' # "closed"
       /\ files' \in [RecordedDays -> Seq(Members)]
  BY <1>1, <1>2, <1>3
<1>. QED
  BY <1>1, <1>7, <1>9, <1>10, <1>11, RecordingCuts

\* The process dies.
LEMMA CrashStep ==
    ASSUME RecordingInv, Recording!Crash PROVE RecordingInv'
<1>1. /\ queue' = <<>> /\ current' = Recording!NoFile /\ phase' = "off"
      /\ UNCHANGED <<today, received, dropped>>
  BY DEF Recording!Crash
<1>2. /\ queue \in Seq(Nat) /\ today \in RecordedDays
      /\ Recording!ToSet(queue) \subseteq Recording!ToSet(queue)
      /\ queue' \in Seq(Nat) /\ Recording!InOrder(queue')
      /\ Recording!ToSet(queue') = Recording!ToSet(queue) \ Recording!ToSet(queue)
      /\ phase' # "closed"
  <2>1. <<>> \in Seq(Nat)
    OBVIOUS
  <2>2. Recording!InOrder(<<>>) /\ Recording!ToSet(<<>>) = {}
    BY <2>1, ItemsAre
  <2>. QED
    BY <1>1, <2>1, <2>2, RecordingFacts
<1>3. CASE current = Recording!NoFile
  <2>1. lost' = lost \cup Recording!ToSet(queue) /\ UNCHANGED <<files, spoilt>>
    BY <1>3 DEF Recording!Crash
  <2>. QED
    BY <1>1, <1>2, <1>3, <2>1, RecordingLoses
<1>4. CASE current # Recording!NoFile
  <2>1. PICK k \in 0..Len(current.buffer) :
          /\ \/ files' = Recording!Put(Recording!Cut(k))
             \/ Recording!Cut(k).text = <<>> /\ files' = files
          /\ lost' = lost \cup Recording!ToSet(queue) \cup Rest(current, k)
          /\ spoilt' = spoilt \cup {current.day}
    BY <1>4 DEF Recording!Crash, Recording!Abandoned, Rest
  <2>. QED
    BY <1>1, <1>2, <1>4, <2>1, RecordingAbandons
<1>. QED
  BY <1>3, <1>4

\* A step that keeps the queue, the files and the accounts.
LEMMA RecordingStutters ==
    ASSUME RecordingInv, today' \in RecordedDays,
           UNCHANGED <<received, queue, dropped, lost, current, files, spoilt>>,
           phase' = "closed" => queue = <<>>
    PROVE  RecordingInv'
<1>. DEFINE none == {}
<1>1. /\ none \subseteq Recording!ToSet(queue) /\ lost' = lost \cup none
      /\ queue' \in Seq(Nat) /\ Recording!InOrder(queue')
      /\ Recording!ToSet(queue') = Recording!ToSet(queue) \ none
      /\ phase' = "closed" => queue' = <<>>
  BY RecordingFacts
<1>. HIDE DEF none
<1>. QED
  BY <1>1, RecordingLoses

\* Every step of the recording.
LEMMA RecordingStep ==
    ASSUME RecordingInv, Recording!Next PROVE RecordingInv'
<1>1. ASSUME Recording!NextDay PROVE RecordingInv'
  <2>1. today' \in RecordedDays
    <3>1. today \in RecordedDays /\ today < RecordingDays /\ today' = today + 1
      BY <1>1, RecordingFacts DEF Recording!NextDay
    <3>. QED
      BY <3>1, RecorderAssumption DEF RecordedDays
  <2>. QED
    BY <1>1, <2>1, RecordingFacts, RecordingStutters DEF Recording!NextDay
<1>2. ASSUME Recording!Start \/ Recording!Stop PROVE RecordingInv'
  BY <1>2, RecordingFacts, RecordingStutters DEF Recording!Start, Recording!Stop
<1>3. ASSUME Recording!Exit PROVE RecordingInv'
  <2>1. queue = <<>>
    BY <1>3, RecordingFacts DEF Recording!Exit
  <2>. QED
    BY <1>3, <2>1, RecordingFacts, RecordingStutters DEF Recording!Exit
<1>4. ASSUME Recording!Drained PROVE RecordingInv'
  <2>1. /\ queue = <<>> /\ current' = Recording!NoFile
        /\ UNCHANGED <<today, received, queue, dropped>>
        /\ IF current = Recording!NoFile THEN UNCHANGED <<files, lost, faults, spoilt>>
           ELSE Recording!CloseDay
    BY <1>4 DEF Recording!Drained, Recording!Finished
  <2>2. CASE current = Recording!NoFile
    BY <2>1, <2>2, RecordingFacts, RecordingStutters
  <2>3. CASE current # Recording!NoFile
    BY <2>1, <2>3, RecordingClosesDay
  <2>. QED
    BY <2>2, <2>3
<1>. QED
  BY <1>1, <1>2, <1>3, <1>4, RecordingReceives, WriteStep, FlushStep, CrashStep
     DEF Recording!Next

\* Nothing is received at first.
LEMMA RecordingStarts ==
    ASSUME Recording!Init PROVE RecordingInv
<1>1. /\ today = 1 /\ received = <<>> /\ queue = <<>> /\ dropped = {} /\ lost = {}
      /\ current = Recording!NoFile /\ files = [d \in RecordedDays |-> <<>>]
      /\ phase # "closed"
  BY DEF Recording!Init, RecordedDays
<1>2. RecordingTypes
  <2>1. today \in RecordedDays
    BY <1>1, RecorderAssumption DEF RecordedDays
  <2>2. <<>> \in Seq(Nat) /\ <<>> \in Seq(RecordedDays) /\ <<>> \in Seq(Members)
    OBVIOUS
  <2>. QED
    BY <1>1, <2>1, <2>2 DEF RecordingTypes
<1>3. Account(TextOf(files, current), received, queue, dropped \cup lost)
  <2>1. \A d \in RecordedDays : TextOf(files, current)[d] = <<>>
    <3>1. <<>> \in Seq(Members)
      OBVIOUS
    <3>2. Recording!Text(<<>>) = <<>>
      BY <3>1, TextOfFile
    <3>. QED
      BY <1>1, <3>2 DEF TextOf
  <2>2. Recording!InOrder(<<>>) /\ Recording!ToSet(<<>>) = {}
    <3>1. <<>> \in Seq(Nat)
      OBVIOUS
    <3>. QED
      BY <3>1, ItemsAre
  <2>3. 1..Len(received) = {}
    BY <1>1
  <2>. QED
    BY <1>1, <2>1, <2>2, <2>3 DEF Account
<1>4. ClosedUnlessSpoilt(files, spoilt)
  BY <1>1 DEF ClosedUnlessSpoilt
<1>. QED
  BY <1>1, <1>2, <1>3, <1>4 DEF RecordingInv

\* The invariant of the recording, on the instance that holds it.
LEMMA RecordingIsSound == MCSpec => []RecordingInv
<1>1. MCInit => RecordingInv
  BY RecordingStarts DEF MCInit
<1>2. RecordingInv /\ [MCNext]_<<program, vars, historyVars, recorderVars>> => RecordingInv'
  <2>. SUFFICES ASSUME RecordingInv, [MCNext]_<<program, vars, historyVars, recorderVars>>
                PROVE  RecordingInv'
    OBVIOUS
  <2>1. CASE Recording!Next
    BY <2>1, RecordingStep
  <2>2. CASE UNCHANGED recorderVars
    BY <2>2, RecordingFacts, RecordingStutters DEF recorderVars
  <2>. QED
    BY <2>1, <2>2 DEF MCNext
<1>. QED
  BY <1>1, <1>2, PTL DEF MCSpec

\* A file whose members are all closed is read to its end.
LEMMA WholeFileIsRead ==
    ASSUME NEW members, \A i \in 1..Len(members) : members[i].closed
    PROVE  Recording!Readable(members) = Recording!Text(members)
<1>1. Recording!SelectInSeq(members, LAMBDA member : ~member.closed) = 0
  <2>1. {i \in 1..Len(members) : ~members[i].closed} = {}
    OBVIOUS
  <2>. QED
    BY <2>1 DEF Recording!SelectInSeq
<1>. QED
  BY <1>1 DEF Recording!Readable

\* Whatever the order of midnight, messages, flushes, ends, starts and failures,
\* each message is in the file of the day it was received, once and in order, unless
\* it waits, was dropped or is lost in a way that is known; and the file of a day on
\* which no writer failed or died can be read to its end.
THEOREM RecordingsAreComplete == MCSpec => []RecordingIsComplete
<1>1. ASSUME RecordingInv PROVE RecordingIsComplete
  <2>1. /\ files \in [RecordedDays -> Seq(Members)]
        /\ current \in OpenFiles \cup {Recording!NoFile}
        /\ Account(TextOf(files, current), received, queue, dropped \cup lost)
        /\ ClosedUnlessSpoilt(files, spoilt)
    BY <1>1, RecordingFacts
  <2>2. SUFFICES ASSUME NEW day \in RecordedDays
        PROVE  /\ Recording!InOrder(Recording!Written(day))
               /\ Recording!ToSet(Recording!Written(day)) = Recording!Expected(day)
               /\ day \notin spoilt /\ ~Recording!IsOpen(day)
                    => Recording!Readable(files[day]) = Recording!Written(day)
    <3>1. DOMAIN files = RecordedDays
      BY <2>1
    <3>. QED
      BY <3>1 DEF RecordingIsComplete, Recording!RecordingIsComplete
  <2>3. /\ Recording!Text(files[day]) \in Seq(Nat)
        /\ TextOf(files, current)[day] =
             IF current # Recording!NoFile /\ current.day = day
             THEN Recording!Text(files[day]) \o (current.disk \o current.buffer)
             ELSE Recording!Text(files[day])
    BY <2>1, TextsAre
  <2>4. Recording!Text(files[day]) \o <<>> = Recording!Text(files[day])
    BY <2>3, ConcatEmptySeq
  <2>5. /\ Recording!Written(day) = TextOf(files, current)[day]
        /\ ~Recording!IsOpen(day) => Recording!Written(day) = Recording!Text(files[day])
    BY <2>3, <2>4 DEF Recording!Written, Recording!IsOpen
  <2>6. /\ Recording!InOrder(Recording!Written(day))
        /\ Recording!ToSet(Recording!Written(day)) = Recording!Expected(day)
    BY <2>1, <2>5 DEF Account, Recording!Expected
  <2>7. ASSUME day \notin spoilt PROVE Recording!Readable(files[day]) = Recording!Text(files[day])
    <3>1. DOMAIN files[day] = 1..Len(files[day])
      BY <2>1, LenProperties
    <3>2. \A i \in 1..Len(files[day]) : files[day][i].closed
      BY <2>1, <2>7, <3>1 DEF ClosedUnlessSpoilt
    <3>. QED
      BY <3>2, WholeFileIsRead
  <2>. QED
    BY <2>5, <2>6, <2>7
<1>. QED
  BY <1>1, RecordingIsSound, PTL

=============================================================================

---------------------------- MODULE TradingProofs ----------------------------
(***************************************************************************)
(* Proofs about Trading for every set of slots and tickers, every session, *)
(* price and budget: types first, then what slots own, owe and hold.       *)
(***************************************************************************)
EXTENDS Trading, Sums

-----------------------------------------------------------------------------
(***************************************************************************)
(* Types.  TypeOK needs one fact about the handlers: an order that is on   *)
(* its way, and a position that is being closed, is really there; and an   *)
(* order on its way to be opened was admitted by the trade counter.        *)
(***************************************************************************)
Opening(s) == pc[s] \in {"sizing", "sized", "reserved"}
Closing(s) == pc[s] \in {"closing", "closed"}

InFlight ==
    \A s \in Slots :
        /\ Opening(s) => order[s] # NoOrder /\ tradesToday[s] < MaxTradesPerDay
        /\ Closing(s) => order[s] # NoOrder
        /\ pc[s] = "closing" => ~HasPos(s)

TypeInv == TypeOK /\ InFlight

\* What an order and its result are made of.
LEMMA OrderTypes ==
    ASSUME NEW o \in Orders, NEW price \in Int
    PROVE  /\ o # NoOrder
           /\ o.quantity \in Nat \ {0} /\ o.price \in Int /\ o.stop \in Nat
           /\ o.direction \in Exec!Directions
           /\ TradeRisk(o) \in Nat
           /\ Commission(o) \in Int
           /\ NetPnL(o, price) \in Int
<1>1. o.quantity \in Nat \ {0} /\ o.price \in Int /\ o.stop \in Nat
      /\ o.direction \in {"BUY", "SELL"}
  BY DEF Orders
<1>2. \A x \in Nat, y \in Nat : x * y \in Nat
  OBVIOUS
<1>3. \A x \in Int, y \in Nat : x * y \in Int
  OBVIOUS
<1>4. Distance(o.price, o.stop) \in Nat
  BY <1>1 DEF Distance
<1>5. TradeRisk(o) \in Nat
  BY <1>1, <1>2, <1>4 DEF TradeRisk
<1>6. Commission(o) \in Int
  BY <1>1, <1>2, TradingAssumption DEF Commission
<1>7. NetPnL(o, price) \in Int
  <2>. DEFINE d == IF o.direction = "BUY" THEN price - o.price ELSE o.price - price
  <2>1. d \in Int
    BY <1>1
  <2>2. d * o.quantity \in Int
    BY <1>1, <1>3, <2>1
  <2>. QED
    BY <2>2, <1>6 DEF NetPnL, GrossPnL
<1>8. o # NoOrder
  BY <1>1 DEF NoOrder
<1>. QED
  BY <1>1, <1>5, <1>6, <1>7, <1>8 DEF Exec!Directions

\* Slippage leaves an integer.
LEMMA FillPriceType ==
    ASSUME NEW direction, NEW price \in Int
    PROVE  FillPrice(direction, price) \in Int
  BY TradingAssumption DEF FillPrice

\* Sizing leaves an integer.
LEMMA PositionSizeType ==
    ASSUME NEW signal \in Signals PROVE PositionSize(signal) \in Int
<1>1. signal.price \in Nat /\ signal.stop \in Nat
  BY TradingAssumption
<1>2. CASE signal.price = signal.stop
  BY <1>2 DEF PositionSize
<1>3. CASE signal.price # signal.stop
  <2>1. Distance(signal.price, signal.stop) \in Nat \ {0}
    BY <1>1, <1>3 DEF Distance
  <2>2. \A x \in Nat, y \in Nat \ {0} : x \div y \in Int
    OBVIOUS
  <2>. QED
    BY <1>3, <2>1, <2>2, TradingAssumption DEF PositionSize
<1>. QED
  BY <1>2, <1>3

\* The cap by cash leaves an integer.
LEMMA CapType ==
    ASSUME NEW quantity \in Int, NEW price \in Int, NEW cash \in Int
    PROVE  CapByCash(quantity, price, cash) \in Int
<1>1. CASE price <= 0 \/ cash <= 0
  BY <1>1 DEF CapByCash
<1>2. CASE ~(price <= 0 \/ cash <= 0)
  <2>1. \A x \in Int, y \in Int : x * y \in Int
    OBVIOUS
  <2>2. 100 * price \in Nat \ {0} /\ cash * UtilPct \in Int
    BY <1>2, <2>1, TradingAssumption
  <2>3. \A x \in Int, y \in Nat \ {0} : x \div y \in Int
    OBVIOUS
  <2>4. (cash * UtilPct) \div (100 * price) \in Int
    BY <2>2, <2>3
  <2>. QED
    BY <1>2, <2>4 DEF CapByCash, Lesser
<1>. QED
  BY <1>1, <1>2

\* The controller counts with its own instance of FiniteSets.
LEMMA SameCardinality == \A S : Risk!Cardinality(S) = Cardinality(S)
  BY Zenon DEF Risk!Cardinality, Cardinality

\* The portfolio controller keeps its types under the calls that slots make:
\* what TryOpen reserves is within the budget, hence within the bound.
LEMMA RiskTypes ==
    ASSUME Risk!TypeOK, NEW t \in Tickers
    PROVE  /\ \A r \in Nat : Risk!TryOpen(t, r) => Risk!TypeOK'
           /\ \A pnl \in Int : Risk!RegisterClose(t, pnl) => Risk!TypeOK'
           /\ Risk!ReleaseOpen(t) => Risk!TypeOK'
           /\ \A day \in 1..Days : Risk!ResetDaily(day) => Risk!TypeOK'
<1>. USE TradingAssumption DEF Risk!TypeOK, Risk!RiskAmounts, Risk!NotOpen
<1>1. ASSUME NEW r \in Nat, Risk!TryOpen(t, r) PROVE Risk!TypeOK'
  <2>1. Risk!OpenRisk(openPositions) \in Nat
    <3>1. IsFiniteSet(1..MaxOpenRiskBudget)
      BY FS_Interval
    <3>2. IsFiniteSet(Tickers \X (1..MaxOpenRiskBudget))
      BY <3>1, FS_Product
    <3>3. Risk!RiskUnits(openPositions) \in SUBSET (Tickers \X (1..MaxOpenRiskBudget))
      BY DEF Risk!RiskUnits
    <3>. QED
      BY <3>2, <3>3, SameCardinality, FS_Subset, FS_CardinalityType DEF Risk!OpenRisk
  <2>2. Risk!TryOpenResult(t, r) = "ok" => r \in 0..MaxOpenRiskBudget
    BY <2>1 DEF Risk!TryOpenResult
  <2>3. blocked' \in BOOLEAN
    BY <1>1, Zenon DEF Risk!TryOpen
  <2>. QED
    BY <1>1, <2>2, <2>3 DEF Risk!TryOpen
<1>2. ASSUME NEW pnl \in Int, Risk!RegisterClose(t, pnl) PROVE Risk!TypeOK'
  <2>1. blocked' \in BOOLEAN
    BY <1>2, Zenon DEF Risk!RegisterClose
  <2>. QED
    BY <1>2, <2>1 DEF Risk!RegisterClose
<1>3. Risk!ReleaseOpen(t) => Risk!TypeOK'
  BY DEF Risk!ReleaseOpen
<1>4. ASSUME NEW day \in 1..Days, Risk!ResetDaily(day) PROVE Risk!TypeOK'
  <2>1. CASE day = tradingDate
    BY <1>4, <2>1 DEF Risk!ResetDaily, Risk!riskVars
  <2>2. CASE day # tradingDate
    <3>1. blocked' \in BOOLEAN
      BY <1>4, <2>2, Zenon DEF Risk!ResetDaily
    <3>2. tradingDate' = day /\ realizedPnL' = 0
          /\ openPositions' = [x \in Tickers |-> -1]
      BY <1>4, <2>2, Zenon DEF Risk!ResetDaily
    <3>. QED
      BY <3>1, <3>2
  <2>. QED
    BY <2>1, <2>2
<1>. QED
  BY <1>1, <1>2, <1>3, <1>4

\* So does the executor, given a well-formed order or closing price.
LEMMA LedgerTypes ==
    ASSUME LedgerOK, NEW t \in Tickers, NEW o \in Orders, NEW price \in Int
    PROVE  /\ Exec!OpenPosition(t, o) /\ UNCHANGED tradeLog => LedgerOK'
           /\ Exec!ClosePosition(t, price, Commission(o)) /\ UNCHANGED tradeLog
                => LedgerOK'
<1>. USE OrderTypes DEF LedgerOK
<1>1. \A x \in Int, y \in Nat : x * y \in Int
  OBVIOUS
<1>2. ASSUME Exec!OpenPosition(t, o), UNCHANGED tradeLog PROVE LedgerOK'
  <2>1. o.price * o.quantity \in Int
    BY <1>1
  <2>. QED
    BY <1>2, <2>1 DEF Exec!OpenPosition
<1>3. ASSUME Exec!ClosePosition(t, price, Commission(o)), UNCHANGED tradeLog
      PROVE  LedgerOK'
  <2>1. positions[t] # Exec!NoPosition
    BY <1>3 DEF Exec!ClosePosition, Exec!CloseResult
  <2>2. positions[t].quantity \in Nat /\ positions[t].entryPrice \in Int
    BY <2>1
  <2>3. Exec!Proceeds(positions[t], price) \in Int
    BY <1>1, <2>2 DEF Exec!Proceeds
  <2>. QED
    BY <1>3, <2>3 DEF Exec!ClosePosition
<1>. QED
  BY <1>2, <1>3

\* Continue keeps the handler's fields typed.
LEMMA ContinueTypes ==
    ASSUME HandlersOK, NEW s \in Slots, NEW place \in Places, NEW stages \in Seq(Stages),
           Continue(s, place, stages)
    PROVE  /\ pc' \in [Slots -> Places]
           /\ todo' \in [Slots -> Seq(Stages)]
           /\ now' \in [Slots -> [day : DayNumbers, minute : Minutes]]
<1>1. NoInstant \in [day : DayNumbers, minute : Minutes]
  BY TradingAssumption DEF NoInstant, DayNumbers, Minutes
<1>2. now' \in [Slots -> [day : DayNumbers, minute : Minutes]]
  BY <1>1 DEF Continue, HandlersOK
<1>. QED
  BY <1>2 DEF Continue, HandlersOK

\* What an action leaves alone keeps its type.
LEMMA KeptTypes ==
    ASSUME TypeOK
    PROVE  /\ UNCHANGED <<clock, cancelled>> => ClockOK'
           /\ UNCHANGED ledgerVars /\ UNCHANGED tradeLog => LedgerOK'
           /\ UNCHANGED riskVars => Risk!TypeOK'
           /\ UNCHANGED handlerVars => HandlersOK'
           /\ UNCHANGED slotDays => SlotDaysOK'
<1>1. UNCHANGED <<clock, cancelled>> => ClockOK'
  BY DEF TypeOK, ClockOK
<1>2. UNCHANGED ledgerVars /\ UNCHANGED tradeLog => LedgerOK'
  BY DEF TypeOK, LedgerOK, ledgerVars
<1>3. UNCHANGED riskVars => Risk!TypeOK'
  BY Zenon DEF TypeOK, Risk!TypeOK, riskVars
<1>4. UNCHANGED handlerVars => HandlersOK'
  BY DEF TypeOK, HandlersOK, handlerVars
<1>5. UNCHANGED slotDays => SlotDaysOK'
  BY DEF TypeOK, SlotDaysOK, slotDays
<1>. QED
  BY <1>1, <1>2, <1>3, <1>4, <1>5

\* The stages of the handlers are sequences of stages.
LEMMA StageTypes ==
    ASSUME HandlersOK, NEW s \in Slots, todo[s] # <<>>
    PROVE  /\ Tail(todo[s]) \in Seq(Stages)
           /\ <<"eodClosed">> \o Tail(todo[s]) \in Seq(Stages)
<1>1. todo[s] \in Seq(Stages)
  BY DEF HandlersOK
<1>2. Tail(todo[s]) \in Seq(Stages)
  BY <1>1
<1>3. <<"eodClosed">> \in Seq(Stages)
  BY DEF Stages
<1>. QED
  BY <1>2, <1>3

\* Starting a handler.
LEMMA BeginTypes ==
    ASSUME TypeInv, NEW s \in Slots, NEW stages \in Seq(Stages), Begin(s, stages)
    PROVE  TypeInv'
<1>. USE DEF TypeInv
<1>1. ClockOK' /\ LedgerOK' /\ Risk!TypeOK'
  BY KeptTypes DEF Begin
<1>2. clock \in [day : DayNumbers, minute : Minutes] /\ clock.day \in DayNumbers
  BY DEF TypeOK, ClockOK, DayNumbers
<1>3. HandlersOK'
  BY <1>2 DEF Begin, TypeOK, HandlersOK
<1>4. SlotDaysOK' /\ \A r \in Slots : tradesToday'[r] <= tradesToday[r]
  <2>1. CASE IsSessionOpen(Session[s], clock) /\ riskResetDate[s] # clock.day
    <3>1. /\ slotLoss' = [slotLoss EXCEPT ![s] = 0]
          /\ tradesToday' = [tradesToday EXCEPT ![s] = 0]
          /\ riskResetDate' = [riskResetDate EXCEPT ![s] = clock.day]
          /\ eodCloseDate' = eodCloseDate
      BY <2>1, Zenon DEF Begin, DailyReset
    <3>2. SlotDaysOK'
      BY <3>1, <1>2, TradingAssumption DEF TypeOK, SlotDaysOK
    <3>3. \A r \in Slots : tradesToday'[r] <= tradesToday[r]
      BY <3>1 DEF TypeOK, SlotDaysOK
    <3>. QED
      BY <3>2, <3>3
  <2>2. CASE ~(IsSessionOpen(Session[s], clock) /\ riskResetDate[s] # clock.day)
    <3>1. UNCHANGED slotDays
      BY <2>2, Zenon DEF Begin, DailyReset
    <3>2. tradesToday' = tradesToday
      BY <3>1 DEF slotDays
    <3>. QED
      BY <3>1, <3>2, KeptTypes DEF TypeOK, SlotDaysOK
  <2>. QED
    BY <2>1, <2>2
<1>5. InFlight'
  <2>1. pc' = pc /\ pos' = pos /\ order' = order
    BY DEF Begin
  <2>2. \A r \in Slots : tradesToday[r] < MaxTradesPerDay => tradesToday'[r] < MaxTradesPerDay
    BY <1>4, TradingAssumption, SMTT(20) DEF TypeOK, SlotDaysOK
  <2>. QED
    BY <2>1, <2>2 DEF InFlight, Opening, Closing, HasPos
<1>. QED
  BY <1>1, <1>3, <1>4, <1>5 DEF TypeOK

\* A handler's step gives slot s a place, stages, a position, an order and an
\* exit price, and leaves the other slots alone.
SlotBecomes(s, place, stages, p, o, x) ==
    /\ Continue(s, place, stages)
    /\ pos' = [pos EXCEPT ![s] = p]
    /\ order' = [order EXCEPT ![s] = o]
    /\ exitPrice' = [exitPrice EXCEPT ![s] = x]

\* One slot may change its fields within their types.
LEMMA SlotBecomesTypes ==
    ASSUME TypeInv, NEW s \in Slots, NEW place \in Places, NEW stages \in Seq(Stages),
           NEW p \in Orders \cup {NoOrder}, NEW o \in Orders \cup {NoOrder}, NEW x \in Int,
           SlotBecomes(s, place, stages, p, o, x),
           place \in {"sizing", "sized", "reserved"}
               => o # NoOrder /\ tradesToday'[s] < MaxTradesPerDay,
           place \in {"closing", "closed"} => o # NoOrder,
           place = "closing" => p = NoOrder,
           \A r \in Slots \ {s} : tradesToday'[r] = tradesToday[r]
    PROVE  HandlersOK' /\ InFlight'
<1>1. HandlersOK
  BY DEF TypeInv, TypeOK
<1>2. HandlersOK'
  BY <1>1, ContinueTypes DEF SlotBecomes, HandlersOK
<1>3. pc' = [pc EXCEPT ![s] = place]
  BY DEF SlotBecomes, Continue
<1>4. ASSUME NEW r \in Slots
      PROVE  /\ Opening(r)' => order'[r] # NoOrder /\ tradesToday'[r] < MaxTradesPerDay
             /\ Closing(r)' => order'[r] # NoOrder
             /\ pc'[r] = "closing" => ~HasPos(r)'
  <2>1. CASE r = s
    BY <1>1, <1>3, <2>1 DEF SlotBecomes, HandlersOK, Opening, Closing, HasPos
  <2>2. CASE r # s
    BY <1>1, <1>3, <2>2 DEF SlotBecomes, HandlersOK, Opening, Closing, HasPos, TypeInv, InFlight
  <2>. QED
    BY <2>1, <2>2
<1>. QED
  BY <1>2, <1>4 DEF InFlight

\* What an action does not assign stays as it was at s.
LEMMA SlotKeeps ==
    ASSUME HandlersOK, NEW s \in Slots
    PROVE  /\ pos' = pos => pos' = [pos EXCEPT ![s] = pos[s]]
           /\ order' = order => order' = [order EXCEPT ![s] = order[s]]
           /\ exitPrice' = exitPrice => exitPrice' = [exitPrice EXCEPT ![s] = exitPrice[s]]
           /\ pos[s] \in Orders \cup {NoOrder} /\ order[s] \in Orders \cup {NoOrder}
           /\ exitPrice[s] \in Int /\ now[s].day \in DayNumbers
           /\ todo[s] \in Seq(Stages)
  BY DEF HandlersOK

\* The stages that end without touching the position.
LEMMA PassTypes ==
    ASSUME TypeInv, NEW s \in Slots, Pass(s), todo[s] # <<>>,
           eodCloseDate' \in [Slots -> DayNumbers]
    PROVE  TypeInv'
<1>1. TypeOK /\ HandlersOK
  BY DEF TypeInv, TypeOK
<1>2. ClockOK' /\ LedgerOK' /\ Risk!TypeOK'
  BY <1>1, KeptTypes DEF Pass
<1>3. SlotDaysOK'
  BY <1>1 DEF Pass, TypeOK, SlotDaysOK
<1>4. SlotBecomes(s, "run", Tail(todo[s]), pos[s], order[s], exitPrice[s])
  BY <1>1, SlotKeeps DEF Pass, SlotBecomes
<1>5. "run" \in Places /\ Tail(todo[s]) \in Seq(Stages)
  BY <1>1, StageTypes DEF Places
<1>6. HandlersOK' /\ InFlight'
  BY <1>1, <1>4, <1>5, SlotKeeps, SlotBecomesTypes DEF Pass
<1>. QED
  BY <1>2, <1>3, <1>6 DEF TypeInv, TypeOK

\* The exit and EOD stages keep the types.
LEMMA ExitTypes ==
    ASSUME TypeInv, NEW s \in Slots, ExitNotHit(s) \/ EntrySkipped(s) \/ EodNotYet(s) \/ EodDone(s)
    PROVE  TypeInv'
<1>1. Pass(s) /\ todo[s] # <<>>
  BY DEF ExitNotHit, EntrySkipped, EodNotYet, EodDone, AtStage
<1>2. NoDay \in DayNumbers /\ now[s].day \in DayNumbers
      /\ eodCloseDate \in [Slots -> DayNumbers]
  BY SlotKeeps DEF DayNumbers, TypeInv, TypeOK, SlotDaysOK
<1>3. eodCloseDate' \in [Slots -> DayNumbers]
  <2>1. CASE ExitNotHit(s) \/ EntrySkipped(s)
    BY <1>2, <2>1 DEF ExitNotHit, EntrySkipped
  <2>2. CASE EodNotYet(s)
    BY <1>2, <2>2 DEF EodNotYet
  <2>3. CASE EodDone(s)
    BY <1>2, <2>3 DEF EodDone
  <2>. QED
    BY <2>1, <2>2, <2>3
<1>. QED
  BY <1>1, <1>3, PassTypes

\* closePosition's first half.
LEMMA TakeTypes ==
    ASSUME TypeInv, NEW s \in Slots, NEW price \in Prices, NEW stages \in Seq(Stages),
           TakePosition(s, price, stages)
    PROVE  TypeInv'
<1>1. TypeOK /\ HandlersOK
  BY DEF TypeInv, TypeOK
<1>2. ClockOK' /\ LedgerOK' /\ Risk!TypeOK' /\ SlotDaysOK'
  BY <1>1, KeptTypes DEF TakePosition
<1>. DEFINE x == FillPrice(CloseSide(pos[s].direction), price)
<1>3. x \in Int
  BY FillPriceType, TradingAssumption
<1>4. SlotBecomes(s, "closing", stages, NoOrder, pos[s], x)
  BY DEF TakePosition, SlotBecomes
<1>5. pos[s] # NoOrder
  BY DEF TakePosition, HasPos
<1>6. tradesToday' = tradesToday
  BY DEF TakePosition, slotDays
<1>. HIDE DEF x
<1>7. HandlersOK' /\ InFlight'
  BY <1>1, <1>3, <1>4, <1>5, <1>6, SlotKeeps, SlotBecomesTypes DEF Places
<1>. QED
  BY <1>2, <1>7 DEF TypeInv, TypeOK

\* Closing keeps the types.
LEMMA CloseTypes ==
    ASSUME TypeInv, NEW s \in Slots, Close(s)
    PROVE  TypeInv'
<1>. USE DEF TypeInv, TypeOK, Places
<1>1. HandlersOK /\ InFlight /\ todo[s] \in Seq(Stages) /\ TickerOf[s] \in Tickers
  BY SlotKeeps, TradingAssumption
<1>2. order[s] \in Orders \cup {NoOrder} /\ pos[s] \in Orders \cup {NoOrder}
      /\ exitPrice[s] \in Int /\ 0 \in Int /\ NoOrder \in Orders \cup {NoOrder}
  BY <1>1, SlotKeeps
<1>3. CASE CloseFilled(s)
  <2>1. order[s] # NoOrder /\ order[s] \in Orders /\ pos[s] = NoOrder
    BY <1>1, <1>3, SlotKeeps DEF CloseFilled, InFlight, Closing, HasPos
  <2>2. ClockOK' /\ LedgerOK' /\ Risk!TypeOK' /\ SlotDaysOK'
    BY <1>1, <1>3, <2>1, KeptTypes, LedgerTypes, SlotKeeps DEF CloseFilled
  <2>3. SlotBecomes(s, "closed", todo[s], pos[s], order[s], exitPrice[s])
    BY <1>1, <1>3, SlotKeeps DEF CloseFilled, SlotBecomes
  <2>4. tradesToday' = tradesToday
    BY <1>3 DEF CloseFilled, slotDays
  <2>5. HandlersOK' /\ InFlight'
    BY <1>1, <1>2, <2>1, <2>3, <2>4, SlotBecomesTypes
  <2>. QED
    BY <2>2, <2>5
<1>4. CASE CloseRefused(s)
  <2>1. order[s] # NoOrder /\ pos[s] = NoOrder
    BY <1>1, <1>4 DEF CloseRefused, InFlight, Closing, HasPos
  <2>2. ClockOK' /\ LedgerOK' /\ Risk!TypeOK' /\ SlotDaysOK'
    BY <1>4, KeptTypes DEF CloseRefused
  <2>3. \/ SlotBecomes(s, "run", todo[s], order[s], NoOrder, 0)
        \/ SlotBecomes(s, "releasing", todo[s], pos[s], order[s], 0)
    BY <1>1, <1>4, SlotKeeps DEF CloseRefused, DropOrder, SlotBecomes
  <2>4. tradesToday' = tradesToday
    BY <1>4 DEF CloseRefused, slotDays
  <2>5. HandlersOK' /\ InFlight'
    <3>1. CASE SlotBecomes(s, "run", todo[s], order[s], NoOrder, 0)
      BY <1>1, <1>2, <2>4, <3>1, SlotBecomesTypes
    <3>2. CASE SlotBecomes(s, "releasing", todo[s], pos[s], order[s], 0)
      BY <1>1, <1>2, <2>4, <3>2, SlotBecomesTypes
    <3>. QED
      BY <2>3, <3>1, <3>2
  <2>. QED
    BY <2>2, <2>5
<1>5. CASE BookResult(s)
  <2>. DEFINE pnl == NetPnL(order[s], exitPrice[s])
  <2>1. order[s] # NoOrder /\ order[s] \in Orders
    BY <1>1, <1>5, SlotKeeps DEF BookResult, InFlight, Closing
  <2>2. pnl \in Int
    BY <1>1, <2>1, SlotKeeps, OrderTypes
  <2>3. ClockOK' /\ Risk!TypeOK'
    BY <1>1, <1>5, <2>2, KeptTypes, RiskTypes DEF BookResult
  <2>4. LedgerOK'
    BY <1>5, <2>2 DEF BookResult, LedgerOK, ledgerVars
  <2>5. SlotDaysOK'
    BY <1>5, <2>2 DEF BookResult, SlotDaysOK
  <2>6. SlotBecomes(s, "run", todo[s], pos[s], NoOrder, 0)
    BY <1>1, <1>5, SlotKeeps DEF BookResult, DropOrder, SlotBecomes
  <2>7. tradesToday' = tradesToday
    BY <1>5 DEF BookResult
  <2>8. HandlersOK' /\ InFlight'
    BY <1>1, <1>2, <2>6, <2>7, SlotBecomesTypes
  <2>. QED
    BY <2>3, <2>4, <2>5, <2>8
<1>. QED
  BY <1>3, <1>4, <1>5 DEF Close

\* The entry stage keeps the types.
LEMMA EntryTypes ==
    ASSUME TypeInv, NEW s \in Slots, NEW signal \in Signals, EntrySignal(s, signal)
    PROVE  TypeInv'
<1>. USE DEF TypeInv, TypeOK, Places
<1>. DEFINE o == [direction |-> signal.direction, quantity |-> PositionSize(signal),
                  price |-> FillPrice(signal.direction, signal.price), stop |-> signal.stop]
<1>1. HandlersOK
  OBVIOUS
<1>2. signal \in [direction : {"BUY", "SELL"}, price : Nat, stop : Nat]
  BY TradingAssumption
<1>3. PositionSize(signal) \in Nat \ {0}
  BY PositionSizeType DEF EntrySignal
<1>4. o \in Orders
  BY <1>2, <1>3, FillPriceType DEF Orders
<1>5. o # NoOrder
  BY <1>3 DEF NoOrder
<1>6. SlotBecomes(s, "sizing", <<>>, pos[s], o, exitPrice[s])
  BY <1>1, SlotKeeps DEF EntrySignal, SlotBecomes
<1>7. tradesToday' = tradesToday /\ tradesToday[s] < MaxTradesPerDay
  BY DEF EntrySignal, MayEnter, slotDays
<1>8. ClockOK' /\ LedgerOK' /\ Risk!TypeOK' /\ SlotDaysOK'
  BY KeptTypes DEF EntrySignal
<1>9. <<>> \in Seq(Stages)
  OBVIOUS
<1>. HIDE DEF o
<1>10. HandlersOK' /\ InFlight'
  BY <1>1, <1>4, <1>5, <1>6, <1>7, <1>9, SlotKeeps, SlotBecomesTypes
<1>. QED
  BY <1>8, <1>10

\* Opening keeps the types.
LEMMA OpenTypes ==
    ASSUME TypeInv, NEW s \in Slots, Open(s)
    PROVE  TypeInv'
<1>. USE DEF TypeInv, TypeOK, Places
<1>1. HandlersOK /\ InFlight /\ todo[s] \in Seq(Stages) /\ TickerOf[s] \in Tickers
      /\ <<>> \in Seq(Stages) /\ <<"exit">> \in Seq(Stages)
  BY SlotKeeps, TradingAssumption DEF Stages
<1>2. order[s] \in Orders \cup {NoOrder} /\ pos[s] \in Orders \cup {NoOrder}
      /\ exitPrice[s] \in Int
  BY <1>1, SlotKeeps
<1>3. Opening(s) => order[s] \in Orders /\ order[s] # NoOrder
                    /\ tradesToday[s] < MaxTradesPerDay
  BY <1>1, <1>2 DEF InFlight
<1>4. CASE SizeOrder(s)
  <2>. DEFINE q == IF cancelled THEN order[s].quantity
                   ELSE CapByCash(order[s].quantity, order[s].price, balance)
  <2>1. order[s] \in Orders /\ tradesToday[s] < MaxTradesPerDay
    BY <1>3, <1>4 DEF SizeOrder, Opening
  <2>2. order[s].quantity \in Nat \ {0} /\ order[s].quantity \in Int
        /\ order[s].price \in Int /\ balance \in Int
    BY <2>1 DEF Orders, LedgerOK
  <2>3. q \in Int
    <3>1. CapByCash(order[s].quantity, order[s].price, balance) \in Int
      BY <2>2, CapType
    <3>. QED
      BY <2>2, <3>1
  <2>4. ClockOK' /\ LedgerOK' /\ Risk!TypeOK' /\ SlotDaysOK'
    BY <1>4, KeptTypes DEF SizeOrder
  <2>5. tradesToday' = tradesToday
    BY <1>4 DEF SizeOrder, slotDays
  <2>6. CASE q > 0
    <3>. DEFINE o == [order[s] EXCEPT !.quantity = q]
    <3>1. o \in Orders /\ o # NoOrder
      BY <2>1, <2>3, <2>6 DEF Orders, NoOrder
    <3>2. SlotBecomes(s, "sized", <<>>, pos[s], o, exitPrice[s])
      BY <1>1, <1>4, <2>6, SlotKeeps DEF SizeOrder, SlotBecomes
    <3>. HIDE DEF o
    <3>3. HandlersOK' /\ InFlight'
      BY <1>1, <1>2, <2>1, <2>5, <3>1, <3>2, SlotBecomesTypes
    <3>. QED
      BY <2>4, <3>3
  <2>7. CASE ~(q > 0)
    <3>1. SlotBecomes(s, "run", todo[s], pos[s], NoOrder, exitPrice[s])
      BY <1>1, <1>4, <2>7, SlotKeeps DEF SizeOrder, DropOrder, SlotBecomes
    <3>2. HandlersOK' /\ InFlight'
      BY <1>1, <1>2, <2>5, <3>1, SlotBecomesTypes
    <3>. QED
      BY <2>4, <3>2
  <2>. QED
    BY <2>6, <2>7
<1>5. CASE ReserveRisk(s)
  <2>1. order[s] \in Orders /\ order[s] # NoOrder /\ tradesToday[s] < MaxTradesPerDay
    BY <1>3, <1>5 DEF ReserveRisk, Opening
  <2>2. TradeRisk(order[s]) \in Nat
    BY <2>1, <1>2, OrderTypes
  <2>3. ClockOK' /\ LedgerOK' /\ SlotDaysOK'
    BY <1>5, KeptTypes DEF ReserveRisk
  <2>4. Risk!TypeOK'
    BY <1>1, <1>5, <2>2, RiskTypes DEF ReserveRisk
  <2>5. \/ SlotBecomes(s, "reserved", <<>>, pos[s], order[s], exitPrice[s])
        \/ SlotBecomes(s, "run", todo[s], pos[s], NoOrder, exitPrice[s])
    BY <1>1, <1>5, SlotKeeps DEF ReserveRisk, DropOrder, SlotBecomes
  <2>6. tradesToday' = tradesToday
    BY <1>5 DEF ReserveRisk, slotDays
  <2>7. HandlersOK' /\ InFlight'
    BY <1>1, <1>2, <2>1, <2>5, <2>6, SlotBecomesTypes
  <2>. QED
    BY <2>3, <2>4, <2>7
<1>6. CASE OpenFilled(s)
  <2>1. order[s] \in Orders /\ order[s] # NoOrder /\ tradesToday[s] < MaxTradesPerDay
    BY <1>3, <1>6 DEF OpenFilled, Opening
  <2>2. ClockOK' /\ Risk!TypeOK'
    BY <1>6, KeptTypes DEF OpenFilled
  <2>3. LedgerOK'
    BY <1>1, <1>2, <1>6, <2>1, LedgerTypes DEF OpenFilled
  <2>4. SlotDaysOK'
    BY <1>6, <2>1, TradingAssumption DEF OpenFilled, SlotDaysOK
  <2>5. SlotBecomes(s, "run", <<"exit">>, order[s], NoOrder, exitPrice[s])
    BY <1>1, <1>6, SlotKeeps DEF OpenFilled, SlotBecomes
  <2>6. \A r \in Slots \ {s} : tradesToday'[r] = tradesToday[r]
    BY <1>6 DEF OpenFilled, SlotDaysOK
  <2>7. HandlersOK' /\ InFlight'
    BY <1>1, <1>2, <2>1, <2>5, <2>6, SlotBecomesTypes
  <2>. QED
    BY <2>2, <2>3, <2>4, <2>7
<1>7. CASE OpenRefused(s)
  <2>1. ClockOK' /\ LedgerOK' /\ Risk!TypeOK' /\ SlotDaysOK'
    BY <1>7, KeptTypes DEF OpenRefused
  <2>2. SlotBecomes(s, "releasing", <<>>, pos[s], order[s], exitPrice[s])
    BY <1>1, <1>7, SlotKeeps DEF OpenRefused, SlotBecomes
  <2>3. tradesToday' = tradesToday
    BY <1>7 DEF OpenRefused, slotDays
  <2>4. HandlersOK' /\ InFlight'
    BY <1>1, <1>2, <2>2, <2>3, SlotBecomesTypes
  <2>. QED
    BY <2>1, <2>4
<1>8. CASE ReleaseRisk(s)
  <2>1. ClockOK' /\ LedgerOK' /\ SlotDaysOK'
    BY <1>8, KeptTypes DEF ReleaseRisk
  <2>2. Risk!TypeOK'
    BY <1>1, <1>8, RiskTypes DEF ReleaseRisk
  <2>3. SlotBecomes(s, "run", todo[s], pos[s], NoOrder, exitPrice[s])
    BY <1>1, <1>8, SlotKeeps DEF ReleaseRisk, DropOrder, SlotBecomes
  <2>4. tradesToday' = tradesToday
    BY <1>8 DEF ReleaseRisk, slotDays
  <2>5. HandlersOK' /\ InFlight'
    BY <1>1, <1>2, <2>3, <2>4, SlotBecomesTypes
  <2>. QED
    BY <2>1, <2>2, <2>5
<1>. QED
  BY <1>4, <1>5, <1>6, <1>7, <1>8 DEF Open

\* The actions outside the handlers.
LEMMA EnvironmentTypes ==
    ASSUME TypeInv,
           \/ \E s \in Slots : Stop(s) \/ ResetLoop(s)
           \/ Advance \/ Cancel \/ UNCHANGED vars
    PROVE  TypeInv'
<1>. USE DEF TypeInv, TypeOK
<1>1. ASSUME NEW s \in Slots, Stop(s) PROVE TypeInv'
  <2>1. ClockOK' /\ LedgerOK' /\ Risk!TypeOK' /\ SlotDaysOK'
    BY <1>1, KeptTypes DEF Stop
  <2>2. HandlersOK'
    BY <1>1 DEF Stop, HandlersOK, Places
  <2>3. InFlight'
    BY <1>1 DEF Stop, InFlight, Opening, Closing, HasPos, HandlersOK, slotDays
  <2>. QED
    BY <2>1, <2>2, <2>3
<1>2. ASSUME UNCHANGED handlerVars, UNCHANGED slotDays PROVE HandlersOK' /\ SlotDaysOK' /\ InFlight'
  <2>1. HandlersOK' /\ SlotDaysOK'
    BY <1>2, KeptTypes
  <2>2. InFlight'
    BY <1>2 DEF InFlight, Opening, Closing, HasPos, handlerVars, slotDays
  <2>. QED
    BY <2>1, <2>2
<1>3. ASSUME NEW s \in Slots, ResetLoop(s) PROVE TypeInv'
  <2>1. ClockOK' /\ LedgerOK'
    BY <1>3, KeptTypes DEF ResetLoop
  <2>2. clock.day \in 1..Days
    BY DEF ClockOK
  <2>3. TickerOf[s] \in Tickers
    BY TradingAssumption
  <2>4. Risk!TypeOK'
    BY <1>3, <2>2, <2>3, RiskTypes DEF ResetLoop
  <2>. QED
    BY <1>2, <1>3, <2>1, <2>4 DEF ResetLoop
<1>4. CASE Advance
  <2>1. LedgerOK' /\ Risk!TypeOK'
    BY <1>4, KeptTypes DEF Advance
  <2>2. ClockOK'
    BY <1>4, TradingAssumption DEF Advance, NextInstant, ClockOK, Minutes
  <2>. QED
    BY <1>2, <1>4, <2>1, <2>2 DEF Advance
<1>5. CASE Cancel
  <2>1. LedgerOK' /\ Risk!TypeOK'
    BY <1>5, KeptTypes DEF Cancel
  <2>2. ClockOK'
    BY <1>5 DEF Cancel, ClockOK
  <2>. QED
    BY <1>2, <1>5, <2>1, <2>2 DEF Cancel
<1>6. CASE UNCHANGED vars
  BY <1>2, <1>6, KeptTypes DEF vars
<1>. QED
  BY <1>1, <1>3, <1>4, <1>5, <1>6

\* Every step keeps the types.
LEMMA TypeStep == TypeInv /\ [Next]_vars => TypeInv'
<1>. SUFFICES ASSUME TypeInv, [Next]_vars PROVE TypeInv'
  OBVIOUS
<1>1. ASSUME NEW s \in Slots, Tick(s) \/ Candle(s) \/ Timer(s) PROVE TypeInv'
  <2>1. /\ <<"exit", "eod">> \in Seq(Stages) /\ <<"eod">> \in Seq(Stages)
        /\ <<"eod", "exit", "entry">> \in Seq(Stages)
    BY DEF Stages
  <2>. QED
    BY <1>1, <2>1, BeginTypes DEF Tick, Candle, Timer
<1>2. ASSUME NEW s \in Slots, Exit(s) \/ Eod(s) PROVE TypeInv'
  <2>1. CASE ExitNotHit(s) \/ EodNotYet(s) \/ EodDone(s)
    BY <2>1, ExitTypes
  <2>2. CASE ExitHit(s) \/ EodClose(s)
    <3>1. HandlersOK /\ todo[s] # <<>>
      BY <2>2 DEF TypeInv, TypeOK, ExitHit, EodClose, AtStage
    <3>2. /\ Tail(todo[s]) \in Seq(Stages)
          /\ <<"eodClosed">> \o Tail(todo[s]) \in Seq(Stages)
      BY <3>1, StageTypes
    <3>. QED
      BY <2>2, <3>2, TakeTypes DEF ExitHit, EodClose
  <2>. QED
    BY <1>2, <2>1, <2>2 DEF Exit, Eod
<1>3. ASSUME NEW s \in Slots, Entry(s) PROVE TypeInv'
  BY <1>3, ExitTypes, EntryTypes DEF Entry
<1>4. ASSUME NEW s \in Slots, Close(s) \/ Open(s) PROVE TypeInv'
  BY <1>4, CloseTypes, OpenTypes
<1>5. ASSUME \/ \E s \in Slots : Stop(s) \/ ResetLoop(s)
             \/ Advance \/ Cancel \/ UNCHANGED vars
      PROVE  TypeInv'
  BY <1>5, EnvironmentTypes
<1>. QED
  BY <1>1, <1>2, <1>3, <1>4, <1>5 DEF Next, Handler, Terminated

\* The types hold when the run starts.
LEMMA TypeInit == Init => TypeInv
<1>. SUFFICES ASSUME Init PROVE TypeInv
  OBVIOUS
<1>. USE TradingAssumption DEF Init
<1>1. ClockOK
  <2>1. cancelled \in BOOLEAN
    BY Zenon
  <2>. QED
    BY <2>1 DEF ClockOK, Minutes
<1>2. LedgerOK
  BY DEF LedgerOK, Exec!Init
<1>3. Risk!TypeOK
  <2>1. blocked \in BOOLEAN
    BY Zenon DEF Risk!Init
  <2>. QED
    BY <2>1 DEF Risk!TypeOK, Risk!Init, Risk!NotOpen
<1>4. HandlersOK
  BY DEF HandlersOK, Places, NoInstant, NoDay, DayNumbers, Minutes
<1>5. SlotDaysOK
  BY DEF SlotDaysOK, NoDay, DayNumbers
<1>6. InFlight
  BY DEF InFlight, Opening, Closing
<1>. QED
  BY <1>1, <1>2, <1>3, <1>4, <1>5, <1>6 DEF TypeInv, TypeOK

\* The types hold throughout a run, with what the handlers have in hand.
LEMMA TypeInvariant == Spec => []TypeInv
<1>. QED
  BY TypeInit, TypeStep, PTL DEF Spec

\* Whatever the slots, their sessions and the order of their calls, every
\* variable keeps its type: no order without a unit is sent, no reservation
\* exceeds the budget, the trade counter stays within its limit.
THEOREM TypeCorrect == Spec => []TypeOK
<1>1. TypeInv => TypeOK
  BY DEF TypeInv
<1>. QED
  BY <1>1, TypeInvariant, PTL

-----------------------------------------------------------------------------
(***************************************************************************)
(* What slots own, owe and hold, proved of Trading for every set of slots  *)
(* and tickers.  Who owns an executor position, that the executor is a     *)
(* lock on tickers, and that cash agrees with the log of trades: a step of *)
(* the program does one of three things to ownership, and the proofs go    *)
(* through this split: it is quiet, one slot opens, or one slot closes.    *)
(* Then what holds of a trading day, for every session: no slot opens      *)
(* beyond its own loss limit, no reservation is leaked, no position is     *)
(* held overnight, and, where the day begins before the first entry may be *)
(* made, every position has its reservation.                               *)
(***************************************************************************)

OwnershipInv == TypeInv /\ OneOwnerPerPosition

\* The executor's record of a position the slot holds as o.
Recorded(o) == [direction  |-> o.direction,
                quantity   |-> o.quantity,
                entryPrice |-> o.price]

SameAt(r) == pc'[r] = pc[r] /\ pos'[r] = pos[r] /\ order'[r] = order[r]

\* Slot s alone moves, and stays owner of the same position, or of none.
KeepsOwnership(s) ==
    /\ \A r \in Slots \ {s} : SameAt(r)
    /\ Owns(s)' <=> Owns(s)
    /\ Owns(s) => Held(s)' = Held(s)
    /\ positions' = positions

OpensPosition(s) ==
    /\ \A r \in Slots \ {s} : SameAt(r)
    /\ ~Owns(s) /\ Owns(s)' /\ Held(s)' = order[s]
    /\ positions[TickerOf[s]] = Exec!NoPosition
    /\ positions' = [positions EXCEPT ![TickerOf[s]] = Recorded(order[s])]

ClosesPosition(s) ==
    /\ \A r \in Slots \ {s} : SameAt(r)
    /\ Owns(s) /\ ~Owns(s)'
    /\ positions' = [positions EXCEPT ![TickerOf[s]] = Exec!NoPosition]

Quiet ==
    /\ \A r \in Slots : SameAt(r)
    /\ positions' = positions

-----------------------------------------------------------------------------
\* A step of SlotBecomes form that does not start or end a position.
LEMMA KeepsByShape ==
    ASSUME TypeInv, NEW s \in Slots, NEW place \in Places, NEW stages, NEW p, NEW o, NEW x,
           SlotBecomes(s, place, stages, p, o, x), positions' = positions,
           (p # NoOrder \/ place = "closing") <=> Owns(s),
           Owns(s) => (IF place = "closing" THEN o ELSE p) = Held(s)
    PROVE  KeepsOwnership(s)
<1>1. /\ pc' = [pc EXCEPT ![s] = place] /\ pos' = [pos EXCEPT ![s] = p]
      /\ order' = [order EXCEPT ![s] = o]
  BY DEF SlotBecomes, Continue
<1>2. pc'[s] = place /\ pos'[s] = p /\ order'[s] = o
  BY <1>1 DEF TypeInv, TypeOK, HandlersOK
<1>3. \A r \in Slots \ {s} : SameAt(r)
  BY <1>1 DEF TypeInv, TypeOK, HandlersOK, SameAt
<1>. QED
  BY <1>2, <1>3 DEF KeepsOwnership, Owns, Held, HasPos

\* What a slot owns is a real order, and the executor has its position.
LEMMA OwnedIsHeld ==
    ASSUME OwnershipInv, NEW s \in Slots, Owns(s)
    PROVE  /\ Held(s) \in Orders
           /\ positions[TickerOf[s]] = Recorded(Held(s))
           /\ positions[TickerOf[s]] # Exec!NoPosition
<1>1. Held(s) \in Orders
  BY DEF OwnershipInv, TypeInv, TypeOK, HandlersOK, InFlight, Owns, Held, HasPos, Closing
<1>2. positions[TickerOf[s]] = Recorded(Held(s))
  BY DEF OwnershipInv, OneOwnerPerPosition, OwnerKnowsPosition, Recorded
<1>3. Held(s).direction \in {"BUY", "SELL"}
  BY <1>1 DEF Orders
<1>. QED
  BY <1>1, <1>2, <1>3 DEF Recorded, Exec!NoPosition

\* Between "sizing" and the fill a slot owns nothing.
LEMMA QuietPlaces ==
    ASSUME TypeInv, NEW s \in Slots
    PROVE  /\ pc[s] = "closing" => Owns(s) /\ Held(s) = order[s] /\ pos[s] = NoOrder
                                   /\ order[s] # NoOrder
           /\ pc[s] # "closing" => (Owns(s) <=> pos[s] # NoOrder) /\ Held(s) = pos[s]
  BY DEF TypeInv, InFlight, Owns, Held, HasPos, Closing

\* What a step of one slot does to ownership.
LEMMA HandlerShape ==
    ASSUME OwnershipInv, NEW s \in Slots, Handler(s)
    PROVE  KeepsOwnership(s) \/ OpensPosition(s) \/ ClosesPosition(s)
<1>. USE DEF OwnershipInv
<1>1. HandlersOK /\ TickerOf[s] \in Tickers
  BY TradingAssumption DEF TypeInv, TypeOK
<1>. USE DEF Places
<1>2. CASE ExitNotHit(s) \/ EntrySkipped(s) \/ EodNotYet(s) \/ EodDone(s)
  <2>1. Pass(s) /\ pc[s] = "run"
    BY <1>2 DEF ExitNotHit, EntrySkipped, EodNotYet, EodDone, AtStage
  <2>2. SlotBecomes(s, "run", Tail(todo[s]), pos[s], order[s], exitPrice[s])
    BY <1>1, <2>1, SlotKeeps DEF Pass, SlotBecomes
  <2>3. positions' = positions
    BY <2>1 DEF Pass, ledgerVars
  <2>. QED
    BY <2>1, <2>2, <2>3, QuietPlaces, KeepsByShape
<1>3. ASSUME NEW price \in Prices, NEW stages, TakePosition(s, price, stages), pc[s] = "run"
      PROVE  KeepsOwnership(s)
  <2>1. SlotBecomes(s, "closing", stages, NoOrder, pos[s],
                    FillPrice(CloseSide(pos[s].direction), price))
    BY <1>3 DEF TakePosition, SlotBecomes
  <2>2. pos[s] # NoOrder /\ positions' = positions
    BY <1>3 DEF TakePosition, HasPos, ledgerVars
  <2>. QED
    BY <1>3, <2>1, <2>2, QuietPlaces, KeepsByShape
<1>4. CASE ExitHit(s) \/ EodClose(s)
  BY <1>3, <1>4 DEF ExitHit, EodClose, AtStage
<1>5. CASE CloseFilled(s)
  <2>1. Owns(s) /\ pos[s] = NoOrder
    BY <1>5, QuietPlaces DEF CloseFilled
  <2>2. pc' = [pc EXCEPT ![s] = "closed"] /\ pos' = pos /\ order' = order
        /\ positions' = [positions EXCEPT ![TickerOf[s]] = Exec!NoPosition]
    BY <1>5 DEF CloseFilled, Continue, Exec!ClosePosition
  <2>. QED
    BY <1>1, <2>1, <2>2 DEF ClosesPosition, SameAt, Owns, HasPos, HandlersOK
<1>6. CASE CloseRefused(s)
  <2>1. Owns(s) /\ Held(s) = order[s] /\ order[s] # NoOrder
    BY <1>6, QuietPlaces DEF CloseRefused
  <2>2. Exec!CloseResult(TickerOf[s]) = "ok"
    BY <2>1, OwnedIsHeld DEF Exec!CloseResult
  <2>3. cancelled
    BY <1>6, <2>2 DEF CloseRefused
  <2>4. SlotBecomes(s, "run", todo[s], order[s], NoOrder, 0)
    BY <1>6, <2>3 DEF CloseRefused, DropOrder, SlotBecomes
  <2>5. positions' = positions
    BY <1>6 DEF CloseRefused, ledgerVars
  <2>. QED
    BY <2>1, <2>4, <2>5, KeepsByShape
<1>7. CASE BookResult(s)
  <2>1. SlotBecomes(s, "run", todo[s], pos[s], NoOrder, 0)
    BY <1>1, <1>7, SlotKeeps DEF BookResult, DropOrder, SlotBecomes
  <2>2. positions' = positions /\ pc[s] # "closing"
    BY <1>7 DEF BookResult, ledgerVars
  <2>. QED
    BY <2>1, <2>2, QuietPlaces, KeepsByShape
<1>8. ASSUME NEW signal \in Signals, EntrySignal(s, signal) PROVE KeepsOwnership(s)
  <2>1. PICK o : SlotBecomes(s, "sizing", <<>>, pos[s], o, exitPrice[s])
    BY <1>1, <1>8, SlotKeeps DEF EntrySignal, SlotBecomes
  <2>2. positions' = positions /\ pc[s] # "closing"
    BY <1>8 DEF EntrySignal, AtStage, ledgerVars
  <2>. QED
    BY <2>1, <2>2, QuietPlaces, KeepsByShape
<1>9. CASE SizeOrder(s) \/ ReserveRisk(s) \/ OpenRefused(s) \/ ReleaseRisk(s)
  <2>1. pc[s] # "closing" /\ positions' = positions
    BY <1>9 DEF SizeOrder, ReserveRisk, OpenRefused, ReleaseRisk, ledgerVars
  <2>2. /\ pc'[s] \in Places \ {"closing"}
        /\ SlotBecomes(s, pc'[s], todo'[s], pos[s], order'[s], exitPrice[s])
    <3>1. CASE SizeOrder(s)
      BY <1>1, <3>1, SlotKeeps DEF SizeOrder, DropOrder, Continue, SlotBecomes, HandlersOK
    <3>2. CASE ReserveRisk(s)
      BY <1>1, <3>2, SlotKeeps DEF ReserveRisk, DropOrder, Continue, SlotBecomes, HandlersOK
    <3>3. CASE OpenRefused(s)
      BY <1>1, <3>3, SlotKeeps DEF OpenRefused, DropOrder, Continue, SlotBecomes, HandlersOK
    <3>4. CASE ReleaseRisk(s)
      BY <1>1, <3>4, SlotKeeps DEF ReleaseRisk, DropOrder, Continue, SlotBecomes, HandlersOK
    <3>. QED
      BY <1>9, <3>1, <3>2, <3>3, <3>4
  <2>. QED
    BY <2>1, <2>2, QuietPlaces, KeepsByShape
<1>10. CASE OpenFilled(s)
  <2>1. positions[TickerOf[s]] = Exec!NoPosition
    BY <1>10 DEF OpenFilled, Exec!OpenPosition, Exec!OpenResult
  <2>2. ~Owns(s)
    BY <2>1, OwnedIsHeld
  <2>3. order[s] # NoOrder
    BY <1>10 DEF OpenFilled, TypeInv, InFlight, Opening
  <2>4. pc' = [pc EXCEPT ![s] = "run"] /\ pos' = [pos EXCEPT ![s] = order[s]]
        /\ order' = [order EXCEPT ![s] = NoOrder]
        /\ positions' = [positions EXCEPT ![TickerOf[s]] = Recorded(order[s])]
    BY <1>10 DEF OpenFilled, Continue, Exec!OpenPosition, Recorded
  <2>. QED
    BY <1>1, <2>1, <2>2, <2>3, <2>4 DEF OpensPosition, SameAt, Owns, Held, HasPos, HandlersOK
<1>. QED
  BY <1>2, <1>4, <1>5, <1>6, <1>7, <1>8, <1>9, <1>10
     DEF Handler, Exit, Eod, Close, Entry, Open

\* What a step of the whole system does to ownership.
LEMMA StepShape ==
    ASSUME OwnershipInv, [Next]_vars
    PROVE  \/ Quiet
           \/ \E s \in Slots : KeepsOwnership(s) \/ OpensPosition(s) \/ ClosesPosition(s)
<1>1. ASSUME NEW s \in Slots, Tick(s) \/ Candle(s) \/ Timer(s) PROVE Quiet
  BY <1>1 DEF Tick, Candle, Timer, Begin, Quiet, SameAt, ledgerVars
<1>2. ASSUME NEW s \in Slots, Stop(s) PROVE KeepsOwnership(s)
  BY <1>2 DEF Stop, Idle, KeepsOwnership, SameAt, Owns, Held, HasPos, ledgerVars,
              OwnershipInv, TypeInv, TypeOK, HandlersOK
<1>3. ASSUME NEW s \in Slots, ResetLoop(s) PROVE Quiet
  BY <1>3 DEF ResetLoop, Quiet, SameAt, ledgerVars, handlerVars
<1>4. CASE Advance \/ Cancel
  BY <1>4 DEF Advance, Cancel, Quiet, SameAt, ledgerVars, handlerVars
<1>5. CASE UNCHANGED vars
  BY <1>5 DEF vars, Quiet, SameAt, ledgerVars, handlerVars
<1>. QED
  BY <1>1, <1>2, <1>3, <1>4, <1>5, HandlerShape DEF Next, Terminated

\* A slot that does not move keeps what it owns.
LEMMA SameSlotSame ==
    ASSUME NEW r \in Slots, SameAt(r)
    PROVE  (Owns(r)' <=> Owns(r)) /\ Held(r)' = Held(r)
  BY DEF SameAt, Owns, Held, HasPos

\* Ownership is exclusive and known after every step.
LEMMA OwnershipStep == OwnershipInv /\ [Next]_vars => OwnershipInv'
<1>. SUFFICES ASSUME OwnershipInv, [Next]_vars PROVE OneOwnerPerPosition'
  BY TypeStep DEF OwnershipInv
<1>. USE DEF OneOwnerPerPosition, OwnerKnowsPosition, OneOwner, NoOrphan
<1>1. /\ TickerOf \in [Slots -> Tickers] /\ DOMAIN positions = Tickers
      /\ positions \in [Tickers -> [direction : Exec!Directions, quantity : Nat \ {0},
                                    entryPrice : Int] \cup {Exec!NoPosition}]
  BY TradingAssumption DEF OwnershipInv, TypeInv, TypeOK, LedgerOK
<1>2. CASE Quiet
  <2>1. \A r \in Slots : (Owns(r)' <=> Owns(r)) /\ Held(r)' = Held(r)
    BY <1>2, SameSlotSame DEF Quiet
  <2>. QED
    BY <1>2, <2>1 DEF Quiet, OwnershipInv
<1>3. ASSUME NEW s \in Slots, KeepsOwnership(s) PROVE OneOwnerPerPosition'
  <2>1. \A r \in Slots : (Owns(r)' <=> Owns(r)) /\ (Owns(r) => Held(r)' = Held(r))
    BY <1>3, SameSlotSame DEF KeepsOwnership
  <2>. QED
    BY <1>3, <2>1 DEF KeepsOwnership, OwnershipInv
<1>4. ASSUME NEW s \in Slots, OpensPosition(s) PROVE OneOwnerPerPosition'
  <2>1. \A r \in Slots \ {s} : (Owns(r)' <=> Owns(r)) /\ Held(r)' = Held(r)
    BY <1>4, SameSlotSame DEF OpensPosition
  <2>2. \A r \in Slots \ {s} : TickerOf[r] = TickerOf[s] => ~Owns(r)
    BY <1>4, OwnedIsHeld DEF OpensPosition
  <2>3. positions'[TickerOf[s]] = Recorded(Held(s)')
    BY <1>1, <1>4 DEF OpensPosition
  <2>4. \A t \in Tickers \ {TickerOf[s]} : positions'[t] = positions[t]
    BY <1>1, <1>4 DEF OpensPosition
  <2>5. OwnerKnowsPosition'
    <3>1. \A r \in Slots \ {s} : Owns(r)' => positions'[TickerOf[r]] = Recorded(Held(r)')
      BY <1>1, <2>1, <2>2, <2>4 DEF OwnershipInv, Recorded
    <3>. QED
      BY <2>3, <3>1 DEF Recorded
  <2>6. OneOwner'
    BY <1>4, <2>1, <2>2 DEF OwnershipInv
  <2>7. NoOrphan'
    BY <1>1, <1>4, <2>1, <2>4 DEF OpensPosition, OwnershipInv
  <2>. QED
    BY <2>5, <2>6, <2>7
<1>5. ASSUME NEW s \in Slots, ClosesPosition(s) PROVE OneOwnerPerPosition'
  <2>1. \A r \in Slots \ {s} : (Owns(r)' <=> Owns(r)) /\ Held(r)' = Held(r)
    BY <1>5, SameSlotSame DEF ClosesPosition
  <2>2. \A r \in Slots \ {s} : TickerOf[r] = TickerOf[s] => ~Owns(r)
    BY <1>5 DEF ClosesPosition, OwnershipInv
  <2>3. positions'[TickerOf[s]] = Exec!NoPosition
    BY <1>1, <1>5 DEF ClosesPosition
  <2>4. \A t \in Tickers \ {TickerOf[s]} : positions'[t] = positions[t]
    BY <1>1, <1>5 DEF ClosesPosition
  <2>5. OwnerKnowsPosition' /\ OneOwner'
    BY <1>1, <1>5, <2>1, <2>2, <2>4 DEF ClosesPosition, OwnershipInv
  <2>6. NoOrphan'
    BY <1>1, <1>5, <2>1, <2>3, <2>4 DEF OwnershipInv
  <2>. QED
    BY <2>5, <2>6
<1>. QED
  BY <1>2, <1>3, <1>4, <1>5, StepShape

\* Nobody owns anything when the run starts.
LEMMA OwnershipInit == Init => OwnershipInv
<1>. SUFFICES ASSUME Init PROVE OneOwnerPerPosition
  BY TypeInit DEF OwnershipInv
<1>. QED
  BY DEF Init, Exec!Init, OneOwnerPerPosition, OwnerKnowsPosition, OneOwner, NoOrphan,
         Owns, HasPos

\* Ownership is exclusive throughout a run.
LEMMA OwnershipInvariant == Spec => []OwnershipInv
<1>. QED
  BY OwnershipInit, OwnershipStep, PTL DEF Spec

\* The executor's positions and the slots' records agree in every state, also
\* while the daily reset wipes reservations: the executor's own check of the
\* ticker is enough.
THEOREM PositionsHaveOneOwner == Spec => []OneOwnerPerPosition
<1>1. OwnershipInv => OneOwnerPerPosition
  BY DEF OwnershipInv
<1>. QED
  BY <1>1, OwnershipInvariant, PTL

-----------------------------------------------------------------------------
(***************************************************************************)
(* The lock on tickers: a quiet step stutters, an opening acquires, a      *)
(* closing releases.                                                       *)
(***************************************************************************)
\* A fresh account maps to free locks.
LEMMA LockInit == Init => Lock!Init
<1>. SUFFICES ASSUME Init PROVE \A t \in Tickers : HoldersOf(t) = {}
  BY DEF Lock!Init
<1>. QED
  BY DEF Init, HoldersOf, Owns, HasPos

\* Every step maps to a step of the lock, or to none.
LEMMA LockStep ==
    ASSUME OwnershipInv, [Next]_vars
    PROVE  [Lock!Next]_([t \in Tickers |-> HoldersOf(t)])
<1>. DEFINE holders == [t \in Tickers |-> HoldersOf(t)]
<1>1. \A t \in Tickers : HoldersOf(t)' = {s \in Slots : TickerOf[s] = t /\ Owns(s)'}
  BY DEF HoldersOf
<1>2. TickerOf \in [Slots -> Tickers]
  BY TradingAssumption
<1>3. ASSUME \A r \in Slots : Owns(r)' <=> Owns(r) PROVE holders' = holders
  BY <1>1, <1>3 DEF HoldersOf
<1>4. CASE Quiet
  BY <1>3, <1>4, SameSlotSame DEF Quiet
<1>5. ASSUME NEW s \in Slots, KeepsOwnership(s) PROVE holders' = holders
  BY <1>3, <1>5, SameSlotSame DEF KeepsOwnership
<1>6. ASSUME NEW s \in Slots, OpensPosition(s) PROVE Lock!Acquire(s)
  <2>1. \A r \in Slots \ {s} : Owns(r)' <=> Owns(r)
    BY <1>6, SameSlotSame DEF OpensPosition
  <2>2. \A r \in Slots : TickerOf[r] = TickerOf[s] => ~Owns(r)
    BY <1>6, OwnedIsHeld DEF OpensPosition
  <2>3. HoldersOf(TickerOf[s]) = {}
    BY <2>2 DEF HoldersOf
  <2>4. HoldersOf(TickerOf[s])' = {s}
    BY <1>1, <1>2, <1>6, <2>1, <2>2 DEF OpensPosition
  <2>5. \A t \in Tickers \ {TickerOf[s]} : HoldersOf(t)' = HoldersOf(t)
    BY <1>1, <2>1 DEF HoldersOf
  <2>6. holders' = [holders EXCEPT ![TickerOf[s]] = {s}]
    BY <1>2, <2>4, <2>5
  <2>. QED
    BY <1>2, <2>3, <2>6 DEF Lock!Acquire
<1>7. ASSUME NEW s \in Slots, ClosesPosition(s) PROVE Lock!Release(s)
  <2>1. \A r \in Slots \ {s} : Owns(r)' <=> Owns(r)
    BY <1>7, SameSlotSame DEF ClosesPosition
  <2>2. \A r \in Slots \ {s} : TickerOf[r] = TickerOf[s] => ~Owns(r)
    BY <1>7 DEF ClosesPosition, OwnershipInv, OneOwnerPerPosition, OneOwner
  <2>3. HoldersOf(TickerOf[s]) = {s}
    BY <1>7, <2>2 DEF HoldersOf, ClosesPosition
  <2>4. HoldersOf(TickerOf[s])' = {}
    BY <1>1, <1>2, <1>7, <2>1, <2>2 DEF ClosesPosition
  <2>5. \A t \in Tickers \ {TickerOf[s]} : HoldersOf(t)' = HoldersOf(t)
    BY <1>1, <2>1 DEF HoldersOf
  <2>6. holders' = [holders EXCEPT ![TickerOf[s]] = {}]
    BY <1>2, <2>4, <2>5
  <2>. QED
    BY <1>2, <2>3, <2>6 DEF Lock!Release
<1>. QED
  BY <1>4, <1>5, <1>6, <1>7, StepShape DEF Lock!Next

\* The slots, their executor and the clock implement the lock on tickers.
THEOREM TradingImplementsLock == Spec => ImplementsTickerLock
<1>1. OwnershipInv /\ [Next]_vars => [Lock!Next]_([t \in Tickers |-> HoldersOf(t)])
  BY LockStep
<1>. QED
  BY <1>1, LockInit, OwnershipInvariant, PTL DEF Spec, ImplementsTickerLock, Lock!Spec

-----------------------------------------------------------------------------
(***************************************************************************)
(* The ledger.  A handler leaves the fields of the other slots alone, so   *)
(* one summand on either side of LedgerAgrees changes at a time.           *)
(***************************************************************************)
SameSlot(r) ==
    /\ SameAt(r)
    /\ todo'[r] = todo[r] /\ now'[r] = now[r] /\ exitPrice'[r] = exitPrice[r]
    /\ eodCloseDate'[r] = eodCloseDate[r] /\ slotLoss'[r] = slotLoss[r]

\* A handler works on the fields of its own slot.
LEMMA HandlerFrame ==
    ASSUME TypeInv, NEW s \in Slots, Handler(s)
    PROVE  \A r \in Slots \ {s} : SameSlot(r)
<1>. SUFFICES ASSUME NEW r \in Slots \ {s} PROVE SameSlot(r)
  OBVIOUS
<1>. USE DEF TypeInv, TypeOK, HandlersOK, SlotDaysOK, SameSlot, SameAt
<1>2. CASE ExitNotHit(s) \/ EntrySkipped(s)
  BY <1>2 DEF ExitNotHit, EntrySkipped, Pass, Continue
<1>3. CASE EodNotYet(s)
  BY <1>3 DEF EodNotYet, Pass, Continue
<1>4. CASE EodDone(s)
  BY <1>4 DEF EodDone, Pass, Continue
<1>5. CASE ExitHit(s) \/ EodClose(s)
  BY <1>5 DEF ExitHit, EodClose, TakePosition, Continue, slotDays
<1>6. CASE Close(s)
  BY <1>6 DEF Close, CloseFilled, CloseRefused, BookResult, DropOrder, Continue, slotDays
<1>7. ASSUME NEW signal \in Signals, EntrySignal(s, signal)
      PROVE  SameSlot(r)
  BY <1>7 DEF EntrySignal, Continue, slotDays
<1>8. CASE SizeOrder(s) \/ ReserveRisk(s) \/ OpenRefused(s) \/ ReleaseRisk(s)
  BY <1>8 DEF SizeOrder, ReserveRisk, OpenRefused, ReleaseRisk, DropOrder, Continue, slotDays
<1>9. CASE OpenFilled(s)
  BY <1>9 DEF OpenFilled, Continue
<1>. QED
  BY <1>2, <1>3, <1>4, <1>5, <1>6, <1>7, <1>8, <1>9 DEF Handler, Exit, Eod, Entry, Open

\* What the ledger looks at when nothing is booked.
QuietLedger ==
    /\ balance' = balance /\ tradeLog' = tradeLog /\ positions' = positions
    /\ \A s \in Slots : Unbooked(s)' = Unbooked(s)

\* A step that moves no money keeps the books.
LEMMA QuietLedgerAgrees ==
    ASSUME LedgerAgrees, QuietLedger PROVE LedgerAgrees'
<1>1. [s \in Slots |-> Unbooked(s)]' = [s \in Slots |-> Unbooked(s)]
  BY DEF QuietLedger
<1>2. [t \in Tickers |-> Notional(t)]' = [t \in Tickers |-> Notional(t)]
  BY DEF QuietLedger, Notional
<1>3. balance' = balance /\ tradeLog' = tradeLog
  BY DEF QuietLedger
<1>. QED
  BY <1>1, <1>2, <1>3 DEF LedgerAgrees

\* The summands are integers.
LEMMA LedgerSummands ==
    ASSUME TypeInv
    PROVE  /\ [t \in Tickers |-> Notional(t)] \in [Tickers -> Int]
           /\ [s \in Slots |-> Unbooked(s)] \in [Slots -> Int]
           /\ balance \in Int /\ tradeLog \in Int
<1>. USE DEF TypeInv, TypeOK
<1>1. \A x \in Int, y \in Int : x * y \in Int
  OBVIOUS
<1>2. ASSUME NEW t \in Tickers PROVE Notional(t) \in Int
  <2>1. positions[t].entryPrice \in Int /\ positions[t].quantity \in Int
    BY DEF LedgerOK, Exec!NoPosition
  <2>. QED
    BY <1>1, <2>1 DEF Notional
<1>3. ASSUME NEW s \in Slots PROVE Unbooked(s) \in Int
  <2>1. pc[s] = "closed" => order[s] \in Orders /\ exitPrice[s] \in Int
    BY DEF HandlersOK, InFlight, Closing
  <2>. QED
    BY <2>1, OrderTypes DEF Unbooked
<1>. QED
  BY <1>2, <1>3 DEF LedgerOK

\* A position that is closed brings back its notional and its result.
LEMMA ClosingPays ==
    ASSUME NEW o \in Orders, NEW price \in Int
    PROVE  Exec!Proceeds(Recorded(o), price) - Commission(o)
             = o.price * o.quantity + NetPnL(o, price)
<1>1. o.price \in Int /\ o.quantity \in Int /\ Commission(o) \in Int
  BY OrderTypes
<1>2. \A x \in Int, y \in Int, q \in Int :
        /\ (x - y) * q = x * q - y * q
        /\ (2 * x - y) * q = 2 * (x * q) - y * q
        /\ x * q \in Int
  OBVIOUS
<1>3. CASE o.direction = "BUY"
  BY <1>1, <1>2, <1>3 DEF Exec!Proceeds, Recorded, NetPnL, GrossPnL
<1>4. CASE o.direction # "BUY"
  BY <1>1, <1>2, <1>4 DEF Exec!Proceeds, Recorded, NetPnL, GrossPnL
<1>. QED
  BY <1>3, <1>4

\* A slot that does not move owes the log what it owed.
LEMMA SameUnbooked ==
    ASSUME NEW r \in Slots, SameSlot(r) PROVE Unbooked(r)' = Unbooked(r)
  BY DEF SameSlot, SameAt, Unbooked

\* Handler steps between the fill of a closing order and its booking.
LEMMA QuietHandler ==
    ASSUME TypeInv, NEW s \in Slots, Handler(s),
           ~OpenFilled(s), ~CloseFilled(s), ~BookResult(s)
    PROVE  QuietLedger
<1>. USE DEF TypeInv, TypeOK, HandlersOK
<1>1. /\ balance' = balance /\ tradeLog' = tradeLog /\ positions' = positions
      /\ pc[s] # "closed" /\ pc'[s] # "closed"
  <2>1. CASE ExitNotHit(s) \/ EntrySkipped(s) \/ EodNotYet(s) \/ EodDone(s)
    BY <2>1 DEF ExitNotHit, EntrySkipped, EodNotYet, EodDone, AtStage, Pass, Continue, ledgerVars
  <2>2. CASE ExitHit(s) \/ EodClose(s)
    BY <2>2 DEF ExitHit, EodClose, AtStage, TakePosition, Continue, ledgerVars
  <2>3. CASE CloseRefused(s)
    BY <2>3 DEF CloseRefused, DropOrder, Continue, ledgerVars
  <2>4. ASSUME NEW signal \in Signals, EntrySignal(s, signal)
        PROVE  /\ balance' = balance /\ tradeLog' = tradeLog /\ positions' = positions
               /\ pc[s] # "closed" /\ pc'[s] # "closed"
    BY <2>4 DEF EntrySignal, AtStage, Continue, ledgerVars
  <2>5. CASE SizeOrder(s) \/ ReserveRisk(s) \/ OpenRefused(s) \/ ReleaseRisk(s)
    BY <2>5 DEF SizeOrder, ReserveRisk, OpenRefused, ReleaseRisk, DropOrder, Continue, ledgerVars
  <2>. QED
    BY <2>1, <2>2, <2>3, <2>4, <2>5 DEF Handler, Exit, Eod, Close, Entry, Open
<1>2. Unbooked(s)' = Unbooked(s)
  BY <1>1 DEF Unbooked
<1>. QED
  BY <1>1, <1>2, HandlerFrame, SameUnbooked DEF QuietLedger

\* An opening turns cash into notional, a closing turns notional into cash
\* and a result to book, booking moves that result to the log.
LEMMA HandlerLedger ==
    ASSUME OwnershipInv, LedgerAgrees, NEW s \in Slots, Handler(s)
    PROVE  LedgerAgrees'
<1>. DEFINE held == [t \in Tickers |-> Notional(t)]
            owed == [r \in Slots |-> Unbooked(r)]
<1>. USE DEF OwnershipInv
<1>1. /\ TickerOf[s] \in Tickers /\ IsFiniteSet(Tickers) /\ IsFiniteSet(Slots)
      /\ InitialBalance \in Int
  BY TradingAssumption
<1>2. /\ held \in [Tickers -> Int] /\ owed \in [Slots -> Int]
      /\ balance \in Int /\ tradeLog \in Int
  BY LedgerSummands
<1>3. SumFunction(held) \in Int /\ SumFunction(owed) \in Int
  BY <1>1, <1>2, SumType
<1>4. balance + SumFunction(held) = InitialBalance + tradeLog + SumFunction(owed)
  BY DEF LedgerAgrees
<1>5. HandlersOK /\ DOMAIN positions = Tickers
  BY DEF TypeInv, TypeOK, LedgerOK
<1>6. \A r \in Slots \ {s} : Unbooked(r)' = Unbooked(r)
  BY HandlerFrame, SameUnbooked
<1>7. ASSUME NEW v \in Int, Unbooked(s)' = v
      PROVE  SumFunction(owed') = SumFunction(owed) - Unbooked(s) + v
  <2>1. owed' = [owed EXCEPT ![s] = v]
    BY <1>6, <1>7
  <2>. HIDE DEF owed
  <2>2. SumFunction(owed') = SumFunction(owed) - owed[s] + v
    BY <1>1, <1>2, <2>1, SumOfUpdate
  <2>. QED
    BY <2>2 DEF owed
<1>8. ASSUME NEW v \in Int, Notional(TickerOf[s])' = v,
             \A t \in Tickers \ {TickerOf[s]} : positions'[t] = positions[t]
      PROVE  SumFunction(held') = SumFunction(held) - Notional(TickerOf[s]) + v
  <2>2. held' = [held EXCEPT ![TickerOf[s]] = v]
    BY <1>8 DEF Notional
  <2>. HIDE DEF held
  <2>3. SumFunction(held') = SumFunction(held) - held[TickerOf[s]] + v
    BY <1>1, <1>2, <2>2, SumOfUpdate
  <2>. QED
    BY <1>1, <2>3 DEF held
<1>9. CASE OpenFilled(s)
  <2>. DEFINE cost == order[s].price * order[s].quantity
  <2>1. /\ positions[TickerOf[s]] = Exec!NoPosition
        /\ positions' = [positions EXCEPT ![TickerOf[s]] = Recorded(order[s])]
        /\ balance' = balance - cost /\ tradeLog' = tradeLog
    BY <1>9 DEF OpenFilled, Exec!OpenPosition, Exec!OpenResult, Recorded
  <2>2. /\ positions'[TickerOf[s]] = Recorded(order[s])
        /\ \A t \in Tickers \ {TickerOf[s]} : positions'[t] = positions[t]
    BY <1>1, <1>5, <2>1
  <2>3. Notional(TickerOf[s]) = 0 /\ Notional(TickerOf[s])' = cost
    BY <2>1, <2>2 DEF Notional, Recorded, Exec!NoPosition
  <2>4. order[s] \in Orders
    BY <1>5, <1>9, SlotKeeps DEF OpenFilled, TypeInv, InFlight, Opening
  <2>5. cost \in Int
    <3>1. \A x \in Int, y \in Int : x * y \in Int
      OBVIOUS
    <3>. QED
      BY <2>4, <3>1, OrderTypes
  <2>6. Unbooked(s) = 0 /\ Unbooked(s)' = 0
    BY <1>5, <1>9 DEF OpenFilled, Continue, Unbooked, HandlersOK
  <2>. HIDE DEF cost
  <2>7. SumFunction(held') = SumFunction(held) + cost
    <3>1. SumFunction(held') = SumFunction(held) - Notional(TickerOf[s]) + cost
      BY <1>8, <2>2, <2>3, <2>5
    <3>. QED
      BY <1>3, <2>3, <2>5, <3>1
  <2>8. SumFunction(owed') = SumFunction(owed)
    BY <1>3, <1>7, <2>6
  <2>9. balance' + SumFunction(held') = InitialBalance + tradeLog' + SumFunction(owed')
    BY <1>1, <1>2, <1>3, <1>4, <2>1, <2>5, <2>7, <2>8
  <2>. QED
    BY <2>9 DEF LedgerAgrees
<1>10. CASE CloseFilled(s)
  <2>. DEFINE o == order[s]
              pnl == NetPnL(order[s], exitPrice[s])
              cost == order[s].price * order[s].quantity
  <2>1. Owns(s) /\ Held(s) = o /\ o \in Orders /\ exitPrice[s] \in Int
    BY <1>5, <1>10, QuietPlaces, SlotKeeps DEF CloseFilled
  <2>2. positions[TickerOf[s]] = Recorded(o)
    BY <2>1, OwnedIsHeld
  <2>3. /\ positions' = [positions EXCEPT ![TickerOf[s]] = Exec!NoPosition]
        /\ balance' = balance + Exec!Proceeds(Recorded(o), exitPrice[s]) - Commission(o)
        /\ tradeLog' = tradeLog
    BY <1>10, <2>2 DEF CloseFilled, Exec!ClosePosition
  <2>4. /\ positions'[TickerOf[s]] = Exec!NoPosition
        /\ \A t \in Tickers \ {TickerOf[s]} : positions'[t] = positions[t]
    BY <1>1, <1>5, <2>3
  <2>5. Notional(TickerOf[s]) = cost /\ Notional(TickerOf[s])' = 0
    BY <2>2, <2>4 DEF Notional, Recorded, Exec!NoPosition
  <2>6. Unbooked(s) = 0 /\ Unbooked(s)' = pnl
    BY <1>5, <1>10 DEF CloseFilled, Continue, Unbooked, HandlersOK
  <2>7. pnl \in Int /\ cost \in Int
    <3>1. \A x \in Int, y \in Int : x * y \in Int
      OBVIOUS
    <3>. QED
      BY <2>1, <3>1, OrderTypes
  <2>8. Exec!Proceeds(Recorded(o), exitPrice[s]) - Commission(o) = cost + pnl
    BY <2>1, ClosingPays
  <2>9. Exec!Proceeds(Recorded(o), exitPrice[s]) \in Int /\ Commission(o) \in Int
    <3>1. Exec!Proceeds(Recorded(o), exitPrice[s]) \in Int
      <4>1. \A x \in Int, y \in Int : x * y \in Int
        OBVIOUS
      <4>2. o.price \in Int /\ o.quantity \in Int
        BY <2>1, OrderTypes
      <4>. QED
        BY <2>1, <4>1, <4>2 DEF Exec!Proceeds, Recorded
    <3>. QED
      BY <2>1, <3>1, OrderTypes
  <2>. HIDE DEF cost, pnl, o
  <2>10. balance' = balance + cost + pnl
    BY <1>2, <2>3, <2>7, <2>8, <2>9
  <2>11. SumFunction(held') = SumFunction(held) - cost
    <3>1. SumFunction(held') = SumFunction(held) - Notional(TickerOf[s]) + 0
      BY <1>8, <2>4, <2>5
    <3>. QED
      BY <1>3, <2>5, <2>7, <3>1
  <2>12. SumFunction(owed') = SumFunction(owed) + pnl
    BY <1>3, <1>7, <2>6, <2>7
  <2>13. balance' + SumFunction(held') = InitialBalance + tradeLog' + SumFunction(owed')
    BY <1>1, <1>2, <1>3, <1>4, <2>3, <2>7, <2>10, <2>11, <2>12
  <2>. QED
    BY <2>13 DEF LedgerAgrees
<1>11. CASE BookResult(s)
  <2>. DEFINE pnl == NetPnL(order[s], exitPrice[s])
  <2>1. order[s] \in Orders /\ exitPrice[s] \in Int
    BY <1>5, <1>11, SlotKeeps DEF BookResult, TypeInv, InFlight, Closing
  <2>2. pnl \in Int
    BY <2>1, OrderTypes
  <2>3. Unbooked(s) = pnl /\ Unbooked(s)' = 0
    BY <1>5, <1>11 DEF BookResult, DropOrder, Continue, Unbooked, HandlersOK
  <2>4. balance' = balance /\ positions' = positions /\ tradeLog' = tradeLog + pnl
    BY <1>11 DEF BookResult, ledgerVars
  <2>. HIDE DEF pnl
  <2>5. SumFunction(owed') = SumFunction(owed) - pnl
    BY <1>3, <1>7, <2>2, <2>3
  <2>6. held' = held
    BY <2>4 DEF Notional
  <2>7. balance' + SumFunction(held') = InitialBalance + tradeLog' + SumFunction(owed')
    BY <1>1, <1>2, <1>3, <1>4, <2>2, <2>4, <2>5, <2>6
  <2>. QED
    BY <2>7 DEF LedgerAgrees
<1>12. CASE ~OpenFilled(s) /\ ~CloseFilled(s) /\ ~BookResult(s)
  BY <1>12, QuietHandler, QuietLedgerAgrees
<1>. QED
  BY <1>9, <1>10, <1>11, <1>12

\* Every step keeps the books.
LEMMA LedgerStep ==
    ASSUME OwnershipInv, LedgerAgrees, [Next]_vars
    PROVE  LedgerAgrees'
<1>. USE DEF OwnershipInv, TypeInv, TypeOK, HandlersOK
<1>1. ASSUME NEW s \in Slots, Tick(s) \/ Candle(s) \/ Timer(s) PROVE QuietLedger
  BY <1>1 DEF Tick, Candle, Timer, Begin, QuietLedger, Unbooked, ledgerVars
<1>2. ASSUME NEW s \in Slots, Stop(s) PROVE QuietLedger
  <2>1. \A r \in Slots : pc'[r] = "closed" <=> pc[r] = "closed"
    BY <1>2 DEF Stop, Idle
  <2>. QED
    BY <1>2, <2>1 DEF Stop, QuietLedger, Unbooked, ledgerVars
<1>3. ASSUME Advance \/ Cancel \/ (\E s \in Slots : ResetLoop(s)) \/ UNCHANGED vars
      PROVE  QuietLedger
  <2>1. UNCHANGED <<ledgerVars, tradeLog, handlerVars>>
    BY <1>3, Zenon DEF Advance, Cancel, ResetLoop, vars
  <2>. QED
    BY <2>1 DEF QuietLedger, Unbooked, ledgerVars, handlerVars
<1>. QED
  BY <1>1, <1>2, <1>3, HandlerLedger, QuietLedgerAgrees DEF Next, Terminated

\* The books begin with the deposit.
LEMMA LedgerInit == Init => LedgerAgrees
<1>. SUFFICES ASSUME Init PROVE LedgerAgrees
  OBVIOUS
<1>. DEFINE held == [t \in Tickers |-> Notional(t)]
            owed == [r \in Slots |-> Unbooked(r)]
<1>1. \A t \in Tickers : Notional(t) = 0
  BY DEF Init, Exec!Init, Exec!NoPosition, Notional
<1>2. \A r \in Slots : Unbooked(r) = 0
  BY DEF Init, Unbooked
<1>3. held \in [Tickers -> Int] /\ (\A t \in Tickers : held[t] = 0)
      /\ owed \in [Slots -> Int] /\ (\A r \in Slots : owed[r] = 0)
  BY <1>1, <1>2
<1>4. IsFiniteSet(Tickers) /\ IsFiniteSet(Slots) /\ InitialBalance \in Int
  BY TradingAssumption
<1>5. SumFunction(held) = 0 /\ SumFunction(owed) = 0
  <2>. HIDE DEF held, owed
  <2>. QED
    BY <1>3, <1>4, SumOfZeros
<1>6. balance = InitialBalance /\ tradeLog = 0
  BY DEF Init, Exec!Init
<1>. QED
  BY <1>4, <1>5, <1>6 DEF LedgerAgrees

\* In every state, also between the executor's fill and the slot's booking and
\* after a cancellation, the account's cash and the notional in the market are
\* the deposit plus every result logged or about to be.
THEOREM LedgerIsTheLog == Spec => []LedgerAgrees
<1>1. Init => OwnershipInv /\ LedgerAgrees
  BY OwnershipInit, LedgerInit
<1>2. OwnershipInv /\ LedgerAgrees /\ [Next]_vars => (OwnershipInv /\ LedgerAgrees)'
  BY OwnershipStep, LedgerStep
<1>. QED
  BY <1>1, <1>2, PTL DEF Spec

-----------------------------------------------------------------------------
(***************************************************************************)
(* The slot's own loss limit.  MayEnter is asked once, several calls before*)
(* the fill; the loss cannot grow in between, since only a closing adds to *)
(* it and the slot has no position to close.                               *)
(***************************************************************************)
WithinSlotLimit == \A s \in Slots : Opening(s) => slotLoss[s] < SlotMaxDailyLoss

LimitInv == TypeInv /\ WithinSlotLimit

\* The limit is still respected after a handler's step.
LEMMA HandlerLimit ==
    ASSUME LimitInv, NEW s \in Slots, Handler(s)
    PROVE  WithinSlotLimit'
<1>. USE DEF LimitInv, TypeInv, TypeOK, HandlersOK, SlotDaysOK, WithinSlotLimit, Opening
<1>1. ASSUME NEW r \in Slots \ {s}, Opening(r)' PROVE slotLoss'[r] < SlotMaxDailyLoss
  BY <1>1, HandlerFrame DEF SameSlot, SameAt
<1>2. ASSUME Opening(s)' PROVE slotLoss'[s] < SlotMaxDailyLoss
  <2>1. ~(ExitNotHit(s) \/ EntrySkipped(s) \/ EodNotYet(s) \/ EodDone(s))
    BY <1>2 DEF ExitNotHit, EntrySkipped, EodNotYet, EodDone, AtStage, Pass, Continue
  <2>2. ~(ExitHit(s) \/ EodClose(s))
    BY <1>2 DEF ExitHit, EodClose, TakePosition, Continue
  <2>3. ~Close(s)
    BY <1>2 DEF Close, CloseFilled, CloseRefused, BookResult, DropOrder, Continue
  <2>4. ASSUME NEW signal \in Signals, EntrySignal(s, signal)
        PROVE  slotLoss'[s] < SlotMaxDailyLoss
    BY <2>4 DEF EntrySignal, MayEnter, slotDays
  <2>5. ~(OpenFilled(s) \/ OpenRefused(s) \/ ReleaseRisk(s))
    BY <1>2 DEF OpenFilled, OpenRefused, ReleaseRisk, DropOrder, Continue
  <2>6. CASE SizeOrder(s) \/ ReserveRisk(s)
    BY <2>6 DEF SizeOrder, ReserveRisk, slotDays
  <2>. QED
    BY <2>1, <2>2, <2>3, <2>4, <2>5, <2>6 DEF Handler, Exit, Eod, Entry, Open
<1>. QED
  BY <1>1, <1>2

\* Every step keeps a slot that is about to open within its daily loss.
LEMMA LimitStep == LimitInv /\ [Next]_vars => LimitInv'
<1>. SUFFICES ASSUME LimitInv, [Next]_vars PROVE WithinSlotLimit'
  BY TypeStep DEF LimitInv
<1>. USE DEF LimitInv, WithinSlotLimit, Opening
<1>1. ASSUME NEW s \in Slots, Tick(s) \/ Candle(s) \/ Timer(s) PROVE WithinSlotLimit'
  <2>1. Idle(s) /\ pc' = pc /\ DailyReset(s)
    BY <1>1 DEF Tick, Candle, Timer, Begin
  <2>2. \A r \in Slots \ {s} : slotLoss'[r] = slotLoss[r]
    BY <2>1 DEF DailyReset, slotDays, TypeInv, TypeOK, SlotDaysOK
  <2>. QED
    BY <2>1, <2>2 DEF Idle
<1>2. ASSUME NEW s \in Slots, Stop(s) PROVE WithinSlotLimit'
  BY <1>2 DEF Stop, slotDays, TypeInv, TypeOK, HandlersOK
<1>3. ASSUME Advance \/ Cancel \/ (\E s \in Slots : ResetLoop(s)) \/ UNCHANGED vars
      PROVE  WithinSlotLimit'
  <2>1. UNCHANGED <<handlerVars, slotDays>>
    BY <1>3, Zenon DEF Advance, Cancel, ResetLoop, vars
  <2>. QED
    BY <2>1 DEF handlerVars, slotDays
<1>. QED
  BY <1>1, <1>2, <1>3, HandlerLimit DEF Next, Terminated

\* It is within its daily loss throughout a run.
LEMMA LimitInvariant == Spec => []LimitInv
<1>1. Init => LimitInv
  BY TypeInit DEF Init, LimitInv, WithinSlotLimit, Opening
<1>. QED
  BY <1>1, LimitStep, PTL DEF Spec

\* A position only comes into being with an order that was on its way.
LEMMA EntryIsAnOpening ==
    ASSUME LimitInv, [Next]_vars, ~cancelled,
           NEW s \in Slots, ~HasPos(s), HasPos(s)'
    PROVE  Opening(s)
<1>. USE DEF LimitInv, TypeInv, TypeOK, HandlersOK, HasPos
<1>1. ASSUME NEW r \in Slots, Handler(r) PROVE Opening(s)
  <2>1. CASE r # s
    BY <1>1, <2>1, HandlerFrame DEF SameSlot, SameAt
  <2>2. CASE r = s
    <3>1. ~(ExitNotHit(s) \/ EntrySkipped(s) \/ EodNotYet(s) \/ EodDone(s))
      BY DEF ExitNotHit, EntrySkipped, EodNotYet, EodDone, Pass
    <3>2. ~(ExitHit(s) \/ EodClose(s))
      BY DEF ExitHit, EodClose, TakePosition
    <3>3. ~Close(s)
      BY DEF Close, CloseFilled, CloseRefused, BookResult
    <3>4. \A signal \in Signals : ~EntrySignal(s, signal)
      BY DEF EntrySignal
    <3>5. ~(SizeOrder(s) \/ ReserveRisk(s) \/ OpenRefused(s) \/ ReleaseRisk(s))
      BY DEF SizeOrder, ReserveRisk, OpenRefused, ReleaseRisk
    <3>6. OpenFilled(s)
      BY <1>1, <2>2, <3>1, <3>2, <3>3, <3>4, <3>5 DEF Handler, Exit, Eod, Entry, Open
    <3>. QED
      BY <3>6 DEF OpenFilled, Opening
  <2>. QED
    BY <2>1, <2>2
<1>2. pos' # pos
  OBVIOUS
<1>3. \A r \in Slots : ~(Tick(r) \/ Candle(r) \/ Timer(r) \/ Stop(r) \/ ResetLoop(r))
  BY <1>2 DEF Tick, Candle, Timer, Begin, Stop, ResetLoop, handlerVars
<1>4. ~(Advance \/ Cancel \/ UNCHANGED vars)
  BY <1>2 DEF Advance, Cancel, vars, handlerVars
<1>. QED
  BY <1>1, <1>3, <1>4 DEF Next, Terminated

\* A slot that lost its daily limit opens nothing more that day, however long
\* its order was on the way through the other components.
THEOREM SlotLimitHolds == Spec => NoEntryAfterSlotLimit
<1>1. LimitInv /\ [Next]_vars
        => [\A s \in Slots : ~HasPos(s) /\ HasPos(s)' /\ ~cancelled
                               => slotLoss[s] < SlotMaxDailyLoss]_vars
  BY EntryIsAnOpening DEF LimitInv, WithinSlotLimit
<1>. QED
  BY <1>1, LimitInvariant, PTL DEF Spec, NoEntryAfterSlotLimit

-----------------------------------------------------------------------------
(***************************************************************************)
(* Reservations.  A step keeps the reservations as they are, or one slot   *)
(* reserves, or one slot gives its reservation back, or the day is reset.  *)
(***************************************************************************)
ReservedPlaces == {"reserved", "releasing", "closing", "closed"}

\* The order or position whose risk the slot has reserved.
Backed(s) == IF pc[s] \in ReservedPlaces THEN order[s] ELSE pos[s]

\* While a handler is at the other components its position is elsewhere.
EmptyHanded(s) == pc[s] \notin {"run", "stopped"} => ~HasPos(s)

KeepsReservation(s) ==
    /\ \A r \in Slots \ {s} : SameAt(r)
    /\ UsesReservation(s)' <=> UsesReservation(s)
    /\ UsesReservation(s) => Backed(s)' = Backed(s)
    /\ openPositions' = openPositions

Reserves(s) ==
    /\ \A r \in Slots \ {s} : SameAt(r)
    /\ ~UsesReservation(s) /\ UsesReservation(s)' /\ Backed(s)' = order[s]
    /\ order[s] \in Orders
    /\ TickerOf[s] \notin Risk!Registered
    /\ openPositions' = [openPositions EXCEPT ![TickerOf[s]] = TradeRisk(order[s])]

GivesBack(s) ==
    /\ \A r \in Slots \ {s} : SameAt(r)
    /\ UsesReservation(s) /\ ~UsesReservation(s)'
    /\ openPositions' = [openPositions EXCEPT ![TickerOf[s]] = Risk!NotOpen]

ReservedInv ==
    /\ OwnershipInv
    /\ \A s \in Slots : EmptyHanded(s)
    /\ NoLeakedReservation

\* A step of SlotBecomes form that leaves the controller alone.
LEMMA KeepsReservationByShape ==
    ASSUME TypeInv, NEW s \in Slots, NEW place \in Places, NEW stages, NEW p, NEW o, NEW x,
           SlotBecomes(s, place, stages, p, o, x), openPositions' = openPositions,
           (p # NoOrder \/ place \in ReservedPlaces) <=> UsesReservation(s),
           UsesReservation(s) => (IF place \in ReservedPlaces THEN o ELSE p) = Backed(s),
           place # "run" => p = NoOrder
    PROVE  KeepsReservation(s) /\ EmptyHanded(s)'
<1>1. /\ pc' = [pc EXCEPT ![s] = place] /\ pos' = [pos EXCEPT ![s] = p]
      /\ order' = [order EXCEPT ![s] = o]
  BY DEF SlotBecomes, Continue
<1>2. pc'[s] = place /\ pos'[s] = p /\ order'[s] = o
  BY <1>1 DEF TypeInv, TypeOK, HandlersOK
<1>3. \A r \in Slots \ {s} : SameAt(r)
  BY <1>1 DEF TypeInv, TypeOK, HandlersOK, SameAt
<1>. QED
  BY <1>2, <1>3 DEF KeepsReservation, EmptyHanded, UsesReservation, Backed, HasPos, ReservedPlaces

\* What a handler's step does to its slot's reservation.
LEMMA HandlerReservation ==
    ASSUME ReservedInv, NEW s \in Slots, Handler(s)
    PROVE  /\ KeepsReservation(s) \/ Reserves(s) \/ GivesBack(s)
           /\ EmptyHanded(s)'
           /\ tradingDate' = tradingDate
<1>. USE DEF ReservedInv, OwnershipInv, Places, ReservedPlaces
<1>1. HandlersOK /\ TickerOf[s] \in Tickers /\ TypeInv
  BY TradingAssumption DEF TypeInv, TypeOK
<1>2. /\ pc[s] \in ReservedPlaces => UsesReservation(s) /\ Backed(s) = order[s]
      /\ pc[s] \notin ReservedPlaces => (UsesReservation(s) <=> pos[s] # NoOrder)
                                        /\ Backed(s) = pos[s]
      /\ pc[s] \notin {"run", "stopped"} => pos[s] = NoOrder
  BY DEF UsesReservation, Backed, EmptyHanded, HasPos
<1>3. CASE ExitNotHit(s) \/ EntrySkipped(s) \/ EodNotYet(s) \/ EodDone(s)
  <2>1. Pass(s) /\ pc[s] = "run"
    BY <1>3 DEF ExitNotHit, EntrySkipped, EodNotYet, EodDone, AtStage
  <2>2. SlotBecomes(s, "run", Tail(todo[s]), pos[s], order[s], exitPrice[s])
    BY <1>1, <2>1, SlotKeeps DEF Pass, SlotBecomes
  <2>3. openPositions' = openPositions /\ tradingDate' = tradingDate
    BY <2>1 DEF Pass, riskVars
  <2>. QED
    BY <1>1, <1>2, <2>1, <2>2, <2>3, KeepsReservationByShape
<1>4. CASE ExitHit(s) \/ EodClose(s)
  <2>1. PICK price \in Prices : TakePosition(s, price, todo'[s]) /\ pc[s] = "run"
    BY <1>1, <1>4 DEF ExitHit, EodClose, AtStage, TakePosition, Continue, HandlersOK
  <2>2. SlotBecomes(s, "closing", todo'[s], NoOrder, pos[s],
                    FillPrice(CloseSide(pos[s].direction), price))
    BY <2>1 DEF TakePosition, SlotBecomes
  <2>3. pos[s] # NoOrder /\ openPositions' = openPositions /\ tradingDate' = tradingDate
    BY <2>1 DEF TakePosition, HasPos, riskVars
  <2>. QED
    BY <1>1, <1>2, <2>1, <2>2, <2>3, KeepsReservationByShape
<1>5. CASE CloseFilled(s)
  <2>1. SlotBecomes(s, "closed", todo[s], pos[s], order[s], exitPrice[s])
    BY <1>1, <1>5, SlotKeeps DEF CloseFilled, SlotBecomes
  <2>2. pc[s] = "closing" /\ openPositions' = openPositions /\ tradingDate' = tradingDate
    BY <1>5 DEF CloseFilled, riskVars
  <2>. QED
    BY <1>1, <1>2, <2>1, <2>2, KeepsReservationByShape
<1>6. CASE CloseRefused(s)
  <2>1. pc[s] = "closing" /\ order[s] # NoOrder
    BY <1>6, QuietPlaces DEF CloseRefused
  <2>2. \/ SlotBecomes(s, "run", todo[s], order[s], NoOrder, 0)
        \/ SlotBecomes(s, "releasing", todo[s], pos[s], order[s], 0)
    BY <1>1, <1>6, SlotKeeps DEF CloseRefused, DropOrder, SlotBecomes
  <2>3. openPositions' = openPositions /\ tradingDate' = tradingDate
    BY <1>6 DEF CloseRefused, riskVars
  <2>4. CASE SlotBecomes(s, "run", todo[s], order[s], NoOrder, 0)
    BY <1>1, <1>2, <2>1, <2>3, <2>4, KeepsReservationByShape
  <2>5. CASE SlotBecomes(s, "releasing", todo[s], pos[s], order[s], 0)
    BY <1>1, <1>2, <2>1, <2>3, <2>5, KeepsReservationByShape
  <2>. QED
    BY <2>2, <2>4, <2>5
<1>7. CASE BookResult(s) \/ ReleaseRisk(s)
  <2>1. /\ pc[s] \in {"closed", "releasing"} /\ pc' = [pc EXCEPT ![s] = "run"]
        /\ pos' = pos /\ order' = [order EXCEPT ![s] = NoOrder]
        /\ tradingDate' = tradingDate
        /\ openPositions' = [openPositions EXCEPT ![TickerOf[s]] = Risk!NotOpen]
    BY <1>7 DEF BookResult, ReleaseRisk, DropOrder, Continue, Risk!RegisterClose, Risk!ReleaseOpen
  <2>. QED
    BY <1>1, <1>2, <2>1 DEF GivesBack, SameAt, HandlersOK, UsesReservation, EmptyHanded, HasPos
<1>8. ASSUME NEW signal \in Signals, EntrySignal(s, signal)
      PROVE  KeepsReservation(s) /\ EmptyHanded(s)' /\ tradingDate' = tradingDate
  <2>1. PICK o : SlotBecomes(s, "sizing", <<>>, pos[s], o, exitPrice[s])
    BY <1>1, <1>8, SlotKeeps DEF EntrySignal, SlotBecomes
  <2>2. /\ openPositions' = openPositions /\ tradingDate' = tradingDate
        /\ pc[s] = "run" /\ pos[s] = NoOrder
    BY <1>8 DEF EntrySignal, AtStage, HasPos, riskVars
  <2>. QED
    BY <1>1, <1>2, <2>1, <2>2, KeepsReservationByShape
<1>9. CASE SizeOrder(s)
  <2>1. /\ pc'[s] \in {"sized", "run"}
        /\ SlotBecomes(s, pc'[s], todo'[s], pos[s], order'[s], exitPrice[s])
    BY <1>1, <1>9, SlotKeeps DEF SizeOrder, DropOrder, Continue, SlotBecomes, HandlersOK
  <2>2. pc[s] = "sizing" /\ openPositions' = openPositions /\ tradingDate' = tradingDate
    BY <1>9 DEF SizeOrder, riskVars
  <2>. QED
    BY <1>1, <1>2, <2>1, <2>2, KeepsReservationByShape
<1>10. CASE ReserveRisk(s)
  <2>. DEFINE answer == Risk!TryOpenResult(TickerOf[s], TradeRisk(order[s]))
  <2>1. pc[s] = "sized" /\ tradingDate' = tradingDate
    BY <1>10 DEF ReserveRisk, Risk!TryOpen
  <2>2. CASE answer = "ok"
    <3>1. /\ pc' = [pc EXCEPT ![s] = "reserved"] /\ pos' = pos /\ order' = order
          /\ openPositions' = [openPositions EXCEPT ![TickerOf[s]] = TradeRisk(order[s])]
      BY <1>10, <2>2 DEF ReserveRisk, Continue, Risk!TryOpen
    <3>2. TickerOf[s] \notin Risk!Registered
      BY <2>2 DEF Risk!TryOpenResult
    <3>3. order[s] \in Orders
      BY <1>1, <2>1, SlotKeeps DEF TypeInv, InFlight, Opening
    <3>. QED
      BY <1>1, <1>2, <2>1, <3>1, <3>2, <3>3
         DEF Reserves, SameAt, HandlersOK, UsesReservation, Backed, EmptyHanded, HasPos
  <2>3. CASE answer # "ok"
    <3>1. SlotBecomes(s, "run", todo[s], pos[s], NoOrder, exitPrice[s])
      BY <1>1, <1>10, <2>3, SlotKeeps DEF ReserveRisk, DropOrder, SlotBecomes
    <3>2. openPositions' = openPositions
      BY <1>10, <2>3 DEF ReserveRisk, Risk!TryOpen
    <3>. QED
      BY <1>1, <1>2, <2>1, <3>1, <3>2, KeepsReservationByShape
  <2>. QED
    BY <2>2, <2>3
<1>11. CASE OpenFilled(s)
  <2>1. SlotBecomes(s, "run", <<"exit">>, order[s], NoOrder, exitPrice[s])
    BY <1>1, <1>11, SlotKeeps DEF OpenFilled, SlotBecomes
  <2>2. pc[s] = "reserved" /\ openPositions' = openPositions /\ tradingDate' = tradingDate
    BY <1>11 DEF OpenFilled, riskVars
  <2>3. order[s] # NoOrder
    BY <2>2 DEF TypeInv, InFlight, Opening
  <2>. QED
    BY <1>1, <1>2, <2>1, <2>2, <2>3, KeepsReservationByShape
<1>12. CASE OpenRefused(s)
  <2>1. SlotBecomes(s, "releasing", <<>>, pos[s], order[s], exitPrice[s])
    BY <1>1, <1>12, SlotKeeps DEF OpenRefused, SlotBecomes
  <2>2. pc[s] = "reserved" /\ openPositions' = openPositions /\ tradingDate' = tradingDate
    BY <1>12 DEF OpenRefused, riskVars
  <2>. QED
    BY <1>1, <1>2, <2>1, <2>2, KeepsReservationByShape
<1>. QED
  BY <1>3, <1>4, <1>5, <1>6, <1>7, <1>8, <1>9, <1>10, <1>11, <1>12
     DEF Handler, Exit, Eod, Close, Entry, Open

\* The daily reset of the runner of some slot, effective or not.
ResetsDay(s) == IsSessionOpen(Session[s], clock) /\ Risk!ResetDaily(clock.day)

\* What a step of the whole system does to the reservations.
LEMMA ReservationShape ==
    ASSUME ReservedInv, [Next]_vars
    PROVE  \/ /\ \A r \in Slots : SameAt(r)
              /\ UNCHANGED <<openPositions, tradingDate>>
           \/ /\ \A r \in Slots : SameAt(r)
              /\ \E s \in Slots : ResetsDay(s)
           \/ \E s \in Slots : /\ KeepsReservation(s) \/ Reserves(s) \/ GivesBack(s)
                              /\ EmptyHanded(s)'
                              /\ tradingDate' = tradingDate
<1>1. ASSUME NEW s \in Slots, Tick(s) \/ Candle(s) \/ Timer(s)
      PROVE  (\A r \in Slots : SameAt(r)) /\ UNCHANGED <<openPositions, tradingDate>>
  BY <1>1 DEF Tick, Candle, Timer, Begin, SameAt, riskVars
<1>2. ASSUME NEW s \in Slots, Stop(s)
      PROVE  KeepsReservation(s) /\ EmptyHanded(s)' /\ tradingDate' = tradingDate
  BY <1>2 DEF Stop, Idle, KeepsReservation, SameAt, UsesReservation, Backed, EmptyHanded, HasPos,
              ReservedPlaces, riskVars, ReservedInv, OwnershipInv, TypeInv, TypeOK, HandlersOK
<1>3. ASSUME NEW s \in Slots, ResetLoop(s)
      PROVE  (\A r \in Slots : SameAt(r)) /\ ResetsDay(s)
  BY <1>3 DEF ResetLoop, ResetsDay, SameAt, handlerVars
<1>4. ASSUME Advance \/ Cancel \/ UNCHANGED vars
      PROVE  (\A r \in Slots : SameAt(r)) /\ UNCHANGED <<openPositions, tradingDate>>
  <2>1. UNCHANGED <<handlerVars, riskVars>>
    BY <1>4, Zenon DEF Advance, Cancel, vars
  <2>. QED
    BY <2>1 DEF SameAt, handlerVars, riskVars
<1>. QED
  BY <1>1, <1>2, <1>3, <1>4, HandlerReservation DEF Next, Terminated

\* A slot that does not move reserves what it reserved.
LEMMA SameSlotReserved ==
    ASSUME NEW r \in Slots, SameAt(r)
    PROVE  /\ UsesReservation(r)' <=> UsesReservation(r)
           /\ Backed(r)' = Backed(r)
           /\ EmptyHanded(r) => EmptyHanded(r)'
  BY DEF SameAt, UsesReservation, Backed, EmptyHanded, HasPos

\* Whoever registers a ticker goes on using the registration until it gives
\* it back; a reset only removes registrations.
LEMMA ReservedStep == ReservedInv /\ [Next]_vars => ReservedInv'
<1>. SUFFICES ASSUME ReservedInv, [Next]_vars
     PROVE  (\A s \in Slots : EmptyHanded(s)') /\ NoLeakedReservation'
  BY OwnershipStep DEF ReservedInv
<1>. USE DEF ReservedInv, NoLeakedReservation, Risk!Registered
<1>1. /\ TickerOf \in [Slots -> Tickers] /\ DOMAIN openPositions = Tickers
  BY TradingAssumption DEF OwnershipInv, TypeInv, TypeOK, Risk!TypeOK
<1>2. ASSUME \A r \in Slots : SameAt(r),
             \A t \in Tickers : openPositions'[t] # Risk!NotOpen => openPositions[t] # Risk!NotOpen
      PROVE  (\A s \in Slots : EmptyHanded(s)') /\ NoLeakedReservation'
  BY <1>2, SameSlotReserved
<1>3. ASSUME UNCHANGED openPositions
      PROVE  \A t \in Tickers : openPositions'[t] # Risk!NotOpen => openPositions[t] # Risk!NotOpen
  BY <1>3
<1>4. ASSUME NEW s \in Slots, ResetsDay(s)
      PROVE  \A t \in Tickers : openPositions'[t] # Risk!NotOpen => openPositions[t] # Risk!NotOpen
  BY <1>4 DEF ResetsDay, Risk!ResetDaily, Risk!riskVars
<1>5. ASSUME NEW s \in Slots, EmptyHanded(s)', KeepsReservation(s) \/ Reserves(s) \/ GivesBack(s)
      PROVE  (\A r \in Slots : EmptyHanded(r)') /\ NoLeakedReservation'
  <2>1. \A r \in Slots \ {s} : SameAt(r)
    BY <1>5 DEF KeepsReservation, Reserves, GivesBack
  <2>2. \A r \in Slots : EmptyHanded(r)'
    BY <1>5, <2>1, SameSlotReserved
  <2>3. \A r \in Slots \ {s} : UsesReservation(r) => UsesReservation(r)'
    BY <2>1, SameSlotReserved
  <2>4. CASE KeepsReservation(s)
    BY <2>2, <2>3, <2>4 DEF KeepsReservation
  <2>5. CASE Reserves(s)
    BY <1>1, <2>2, <2>3, <2>5 DEF Reserves
  <2>6. CASE GivesBack(s)
    BY <1>1, <2>2, <2>3, <2>6 DEF GivesBack
  <2>. QED
    BY <1>5, <2>4, <2>5, <2>6
<1>. QED
  BY <1>2, <1>3, <1>4, <1>5, ReservationShape

\* A fresh controller reserves nothing.
LEMMA ReservedInit == Init => ReservedInv
<1>. SUFFICES ASSUME Init PROVE (\A s \in Slots : EmptyHanded(s)) /\ NoLeakedReservation
  BY OwnershipInit DEF ReservedInv
<1>. QED
  BY DEF Init, Risk!Init, EmptyHanded, NoLeakedReservation, Risk!Registered

\* Reservations and slots agree throughout a run.
LEMMA ReservedInvariant == Spec => []ReservedInv
<1>. QED
  BY ReservedInit, ReservedStep, PTL DEF Spec

\* A reservation outlives neither a refused order nor a closed position,
\* whichever call fails and whenever the day is reset.
THEOREM NoReservationLeaks == Spec => []NoLeakedReservation
<1>1. ReservedInv => NoLeakedReservation
  BY DEF ReservedInv
<1>. QED
  BY <1>1, ReservedInvariant, PTL

-----------------------------------------------------------------------------
(***************************************************************************)
(* The trading day.  What a slot does is tied to the clock by the time its *)
(* handler began, and by the date it marked as closed.                     *)
(***************************************************************************)
Busy(s) == ~Idle(s) /\ pc[s] # "stopped"

\* The slot has an entry order, a reservation or a position.
Active(s) == UsesReservation(s) \/ Opening(s)

\* A handler began in this minute of the clock, earlier today, or in the last
\* minute of an earlier day.
Recent(s) ==
    Busy(s) => \/ now[s].day = clock.day /\ now[s].minute <= clock.minute
               \/ now[s].day < clock.day /\ now[s].minute = DayMinutes - 1

\* The stage that marks the day stands first, and only where EOD was reached.
MarkIsDue(s) ==
    \A i \in 1..Len(todo[s]) :
        todo[s][i] = "eodClosed" => i = 1 /\ ShouldForceClose(Session[s], now[s])

\* Once today is marked EOD is past, a handler that is on its way knows it,
\* and the slot has nothing in the market or on its way there.
MarkIsTrue(s) ==
    /\ eodCloseDate[s] <= clock.day
    /\ eodCloseDate[s] = clock.day =>
          /\ ShouldForceClose(Session[s], clock)
          /\ Busy(s) => ShouldForceClose(Session[s], now[s])
          /\ ~Active(s)

\* A slot is in the market on its own days only, and after its entry delay.
InWindow(s) ==
    Active(s) => /\ DayAllowed(Session[s], clock)
                 /\ clock.minute >= Session[s].open + Session[s].delay

DayOK(s) == Recent(s) /\ MarkIsDue(s) /\ MarkIsTrue(s) /\ InWindow(s)

DayInv == ReservedInv /\ \A s \in Slots : DayOK(s)

\* A step of slot s after its handler has begun, as far as the day sees it.
KeepsTime(s) ==
    /\ Busy(s)
    /\ Busy(s)' => now'[s] = now[s]
    /\ todo'[s] # <<>> => now'[s] = now[s]

KeepsStages(s) ==
    \/ todo'[s] \in {todo[s], <<>>, <<"exit">>}
    \/ todo[s] # <<>> /\ todo'[s] = Tail(todo[s])
    \/ /\ todo[s] # <<>> /\ todo'[s] = <<"eodClosed">> \o Tail(todo[s])
       /\ ShouldForceClose(Session[s], now[s])

KeepsMark(s) ==
    \/ eodCloseDate'[s] = eodCloseDate[s]
    \/ eodCloseDate'[s] = NoDay
    \/ /\ eodCloseDate'[s] = now[s].day
       /\ AtStage(s, "eodClosed") \/ ShouldForceClose(Session[s], now[s])
       /\ ~Active(s)'

KeepsActivity(s) ==
    Active(s)' => Active(s) \/ EntriesAllowed(Session[s], now[s])

\* Continue keeps the time of a handler that is not finished.
LEMMA ContinueKeepsTime ==
    ASSUME TypeInv, NEW s \in Slots, NEW place, NEW stages, Continue(s, place, stages)
    PROVE  /\ pc'[s] = place /\ todo'[s] = stages
           /\ Busy(s)' => now'[s] = now[s]
           /\ stages # <<>> => now'[s] = now[s]
<1>1. pc'[s] = place /\ todo'[s] = stages
  BY DEF Continue, TypeInv, TypeOK, HandlersOK
<1>2. ~(place = "run" /\ stages = <<>>) => now' = now
  BY DEF Continue
<1>. QED
  BY <1>1, <1>2 DEF Busy, Idle

\* A handler works with the time at which it began.
LEMMA HandlerTime ==
    ASSUME TypeInv, NEW s \in Slots, Handler(s)
    PROVE  KeepsTime(s) /\ KeepsStages(s)
<1>. USE DEF KeepsTime, KeepsStages, Busy, Idle
<1>1. CASE ExitNotHit(s) \/ EntrySkipped(s) \/ EodNotYet(s) \/ EodDone(s)
  <2>1. /\ Continue(s, "run", Tail(todo[s]))
        /\ pc[s] = "run" /\ todo[s] # <<>>
    BY <1>1 DEF ExitNotHit, EntrySkipped, EodNotYet, EodDone, AtStage, Pass
  <2>. QED
    BY <2>1, ContinueKeepsTime
<1>2. CASE ExitHit(s)
  <2>1. Continue(s, "closing", Tail(todo[s])) /\ pc[s] = "run" /\ todo[s] # <<>>
    BY <1>2 DEF ExitHit, AtStage, TakePosition
  <2>. QED
    BY <2>1, ContinueKeepsTime
<1>3. CASE EodClose(s)
  <2>1. /\ Continue(s, "closing", <<"eodClosed">> \o Tail(todo[s]))
        /\ pc[s] = "run" /\ todo[s] # <<>> /\ ShouldForceClose(Session[s], now[s])
    BY <1>3 DEF EodClose, AtStage, TakePosition
  <2>. QED
    BY <2>1, ContinueKeepsTime
<1>4. CASE Close(s)
  <2>1. PICK place : Continue(s, place, todo[s])
    BY <1>4 DEF Close, CloseFilled, CloseRefused, BookResult, DropOrder
  <2>2. pc[s] \in {"closing", "closed"}
    BY <1>4 DEF Close, CloseFilled, CloseRefused, BookResult
  <2>. QED
    BY <2>1, <2>2, ContinueKeepsTime
<1>5. ASSUME NEW signal \in Signals, EntrySignal(s, signal) PROVE KeepsTime(s) /\ KeepsStages(s)
  <2>1. Continue(s, "sizing", <<>>) /\ pc[s] = "run" /\ todo[s] # <<>>
    BY <1>5 DEF EntrySignal, AtStage
  <2>. QED
    BY <2>1, ContinueKeepsTime
<1>6. CASE Open(s)
  <2>1. \E place : \E stages \in {todo[s], <<>>, <<"exit">>} : Continue(s, place, stages)
    BY <1>6 DEF Open, SizeOrder, ReserveRisk, OpenFilled, OpenRefused, ReleaseRisk, DropOrder
  <2>2. pc[s] \in {"sizing", "sized", "reserved", "releasing"}
    BY <1>6 DEF Open, SizeOrder, ReserveRisk, OpenFilled, OpenRefused, ReleaseRisk
  <2>. QED
    BY <2>1, <2>2, ContinueKeepsTime
<1>. QED
  BY <1>1, <1>2, <1>3, <1>4, <1>5, <1>6 DEF Handler, Exit, Eod, Entry

\* A handler marks a day as closed only without a position.
LEMMA HandlerMark ==
    ASSUME TypeInv, NEW s \in Slots, Handler(s)
    PROVE  KeepsMark(s) /\ KeepsActivity(s) /\ clock' = clock
<1>. USE DEF KeepsMark, KeepsActivity
<1>1. HandlersOK /\ eodCloseDate \in [Slots -> DayNumbers]
  BY DEF TypeInv, TypeOK, SlotDaysOK
<1>4. CASE ExitNotHit(s) \/ EntrySkipped(s) \/ EodNotYet(s) \/ EodDone(s)
  <2>1. Pass(s) /\ pc[s] = "run"
    BY <1>4 DEF ExitNotHit, EntrySkipped, EodNotYet, EodDone, AtStage
  <2>2. pc'[s] = "run" /\ pos' = pos /\ clock' = clock
    BY <1>1, <2>1 DEF Pass, Continue, HandlersOK
  <2>3. Active(s)' <=> Active(s)
    BY <2>1, <2>2 DEF Active, UsesReservation, Opening, HasPos
  <2>4. CASE EodDone(s)
    <3>1. CASE HasPos(s)
      BY <2>2, <2>3, <2>4, <3>1 DEF EodDone
    <3>2. CASE ~HasPos(s)
      <4>1. eodCloseDate'[s] = now[s].day
        BY <1>1, <2>4, <3>2 DEF EodDone
      <4>2. ~Active(s)'
        BY <2>1, <2>3, <3>2 DEF Active, UsesReservation, Opening
      <4>. QED
        BY <2>2, <2>4, <4>1, <4>2 DEF EodDone
    <3>. QED
      BY <3>1, <3>2
  <2>5. CASE EodNotYet(s)
    <3>1. eodCloseDate'[s] \in {eodCloseDate[s], NoDay}
      BY <1>1, <2>5 DEF EodNotYet
    <3>. QED
      BY <2>2, <2>3, <3>1
  <2>6. CASE ExitNotHit(s) \/ EntrySkipped(s)
    BY <2>2, <2>3, <2>6 DEF ExitNotHit, EntrySkipped
  <2>. QED
    BY <1>4, <2>4, <2>5, <2>6
<1>5. CASE ExitHit(s) \/ EodClose(s)
  <2>1. /\ HasPos(s) /\ eodCloseDate' = eodCloseDate /\ clock' = clock
    BY <1>5 DEF ExitHit, EodClose, TakePosition, slotDays
  <2>. QED
    BY <2>1 DEF Active, UsesReservation
<1>6. CASE Close(s)
  <2>1. /\ pc[s] \in {"closing", "closed"} /\ eodCloseDate' = eodCloseDate /\ clock' = clock
    BY <1>6 DEF Close, CloseFilled, CloseRefused, BookResult, slotDays
  <2>. QED
    BY <2>1 DEF Active, UsesReservation
<1>7. ASSUME NEW signal \in Signals, EntrySignal(s, signal)
      PROVE  EntriesAllowed(Session[s], now[s]) /\ eodCloseDate' = eodCloseDate /\ clock' = clock
  BY <1>7 DEF EntrySignal, MayEnter, slotDays
<1>8. CASE Open(s)
  <2>1. /\ pc[s] \in {"sizing", "sized", "reserved", "releasing"}
        /\ eodCloseDate' = eodCloseDate /\ clock' = clock
    BY <1>8 DEF Open, SizeOrder, ReserveRisk, OpenFilled, OpenRefused, ReleaseRisk, slotDays
  <2>. QED
    BY <2>1 DEF Active, UsesReservation, Opening
<1>. QED
  BY <1>4, <1>5, <1>6, <1>7, <1>8 DEF Handler, Exit, Eod, Entry

\* What the proofs need to know about the numbers.
LEMMA DayTypes ==
    ASSUME TypeInv, NEW s \in Slots
    PROVE  /\ clock.day \in 1..Days /\ clock.minute \in 0..(DayMinutes - 1)
           /\ now[s].day \in 0..Days /\ now[s].minute \in 0..(DayMinutes - 1)
           /\ eodCloseDate[s] \in 0..Days
           /\ todo[s] \in Seq(Stages) /\ Days \in Nat /\ DayMinutes \in Nat \ {0}
           /\ Session[s].open \in Nat /\ Session[s].delay \in Nat
           /\ Session[s].eod \in 0..(DayMinutes - 1)
  BY TradingAssumption, SMTT(20)
     DEF TypeInv, TypeOK, ClockOK, HandlersOK, SlotDaysOK, DayNumbers, Minutes, NoDay

\* A slot that nothing happened to, on a clock that stands.
LEMMA SameSlotDay ==
    ASSUME NEW r \in Slots, DayOK(r), SameSlot(r), clock' = clock
    PROVE  DayOK(r)'
  BY DEF SameSlot, SameAt, DayOK, Recent, MarkIsDue, MarkIsTrue, InWindow, Busy, Idle, Active,
         UsesReservation, Opening, HasPos

\* A handler's step keeps its slot in step with the day.
LEMMA HandlerDay ==
    ASSUME TypeInv, NEW s \in Slots, DayOK(s), Handler(s)
    PROVE  DayOK(s)'
<1>. USE DEF DayOK
<1>1. /\ KeepsTime(s) /\ KeepsStages(s)
      /\ KeepsMark(s) /\ KeepsActivity(s) /\ clock' = clock
  BY HandlerTime, HandlerMark
<1>2. Busy(s) /\ (Busy(s)' => now'[s] = now[s]) /\ (todo'[s] # <<>> => now'[s] = now[s])
  BY <1>1 DEF KeepsTime
<1>3. Recent(s)'
  BY <1>1, <1>2 DEF Recent
<1>4. MarkIsDue(s)'
  <2>. SUFFICES ASSUME NEW i \in 1..Len(todo'[s]), todo'[s][i] = "eodClosed"
       PROVE  i = 1 /\ ShouldForceClose(Session[s], now'[s])
    BY DEF MarkIsDue
  <2>1. todo[s] \in Seq(Stages)
    BY DayTypes
  <2>2. todo'[s] # <<>> => now'[s] = now[s]
    BY <1>2
  <2>3. CASE todo'[s] \in {todo[s], <<>>, <<"exit">>}
    BY <2>2, <2>3 DEF MarkIsDue
  <2>4. CASE todo[s] # <<>> /\ todo'[s] = Tail(todo[s])
    <3>1. i + 1 \in 1..Len(todo[s]) /\ todo[s][i + 1] = "eodClosed"
      BY <2>1, <2>4
    <3>. QED
      BY <3>1 DEF MarkIsDue
  <2>5. CASE /\ todo[s] # <<>> /\ todo'[s] = <<"eodClosed">> \o Tail(todo[s])
             /\ ShouldForceClose(Session[s], now[s])
    <3>1. ASSUME i # 1 PROVE FALSE
      <4>1. i \in 2..Len(todo[s]) /\ todo'[s][i] = todo[s][i]
        BY <2>1, <2>5, <3>1
      <4>. QED
        BY <3>1, <4>1 DEF MarkIsDue
    <3>2. todo'[s] # <<>>
      BY <2>1, <2>5
    <3>. QED
      BY <2>2, <2>5, <3>1, <3>2
  <2>. QED
    BY <1>1, <2>3, <2>4, <2>5 DEF KeepsStages
<1>5. EntriesAllowed(Session[s], now[s]) =>
         /\ now[s].day = clock.day /\ now[s].minute <= clock.minute
         /\ eodCloseDate[s] # clock.day
  <2>1. EntriesAllowed(Session[s], now[s]) => ~ShouldForceClose(Session[s], now[s])
    BY DayTypes DEF EntriesAllowed, ShouldForceClose
  <2>2. EntriesAllowed(Session[s], now[s]) => now[s].minute # DayMinutes - 1
    BY DayTypes DEF EntriesAllowed
  <2>. QED
    BY <1>2, <2>1, <2>2 DEF Recent, MarkIsTrue
<1>6. InWindow(s)'
  <2>1. CASE Active(s)
    BY <1>1, <2>1 DEF InWindow
  <2>2. CASE EntriesAllowed(Session[s], now[s])
    BY <1>1, <1>5, <2>2, DayTypes DEF InWindow, EntriesAllowed, DayAllowed
  <2>. QED
    BY <1>1, <2>1, <2>2 DEF KeepsActivity, InWindow
<1>7. MarkIsTrue(s)'
  <2>1. CASE eodCloseDate'[s] = eodCloseDate[s]
    BY <1>1, <1>2, <1>5, <2>1 DEF MarkIsTrue, KeepsActivity
  <2>2. CASE eodCloseDate'[s] = NoDay
    BY <1>1, <2>2, DayTypes DEF MarkIsTrue, NoDay
  <2>3. CASE /\ eodCloseDate'[s] = now[s].day
             /\ AtStage(s, "eodClosed") \/ ShouldForceClose(Session[s], now[s])
             /\ ~Active(s)'
    <3>1. ShouldForceClose(Session[s], now[s])
      <4>1. CASE AtStage(s, "eodClosed")
        <5>1. 1 \in 1..Len(todo[s]) /\ todo[s][1] = "eodClosed"
          BY <4>1, DayTypes DEF AtStage
        <5>. QED
          BY <5>1 DEF MarkIsDue
      <4>. QED
        BY <2>3, <4>1
    <3>2. now[s].day <= clock.day
      BY <1>2, DayTypes DEF Recent
    <3>3. now[s].day = clock.day => ShouldForceClose(Session[s], clock)
      BY <1>2, <3>1, DayTypes DEF Recent, ShouldForceClose, DayAllowed
    <3>. QED
      BY <1>1, <1>2, <2>3, <3>1, <3>2, <3>3 DEF MarkIsTrue
  <2>. QED
    BY <1>1, <2>1, <2>2, <2>3 DEF KeepsMark
<1>. QED
  BY <1>3, <1>4, <1>6, <1>7

\* A new handler takes the time from the clock.
LEMMA BeginDay ==
    ASSUME TypeInv, NEW s \in Slots, DayOK(s),
           NEW stages \in {<<"exit", "eod">>, <<"eod", "exit", "entry">>, <<"eod">>},
           Begin(s, stages)
    PROVE  DayOK(s)' /\ \A r \in Slots \ {s} : SameSlot(r)
<1>. USE DEF TypeInv, TypeOK, HandlersOK, SlotDaysOK
<1>1. /\ todo'[s] = stages /\ now'[s] = clock /\ clock' = clock
      /\ pc' = pc /\ pos' = pos /\ order' = order /\ exitPrice' = exitPrice
      /\ \A r \in Slots \ {s} : todo'[r] = todo[r] /\ now'[r] = now[r]
  BY DEF Begin
<1>2. eodCloseDate' = eodCloseDate /\ \A r \in Slots \ {s} : slotLoss'[r] = slotLoss[r]
  BY DEF Begin, DailyReset, slotDays
<1>3. Active(s)' <=> Active(s)
  BY <1>1 DEF Active, UsesReservation, Opening, HasPos
<1>4. MarkIsDue(s)'
  <2>1. \A i \in 1..Len(stages) : stages[i] # "eodClosed"
    <3>1. CASE stages = <<"exit", "eod">>
      BY <3>1
    <3>2. CASE stages = <<"eod", "exit", "entry">>
      BY <3>2
    <3>3. CASE stages = <<"eod">>
      BY <3>3
    <3>. QED
      BY <3>1, <3>2, <3>3
  <2>. QED
    BY <1>1, <2>1 DEF MarkIsDue
<1>5. Recent(s)' /\ InWindow(s)' /\ MarkIsTrue(s)'
  BY <1>1, <1>2, <1>3, DayTypes, SMTT(20) DEF DayOK, Recent, InWindow, MarkIsTrue
<1>. QED
  BY <1>1, <1>2, <1>4, <1>5 DEF DayOK, SameSlot, SameAt

\* The clock only moves when every slot is settled.
LEMMA AdvanceDay ==
    ASSUME DayInv, Advance, NEW s \in Slots
    PROVE  DayOK(s)'
<1>1. TypeInv /\ DayOK(s) /\ Settled(s) /\ clock' = NextInstant
  BY DEF DayInv, ReservedInv, OwnershipInv, Advance
<1>2. UNCHANGED <<handlerVars, slotDays>>
  BY Zenon DEF Advance
<1>3. /\ Busy(s)' <=> Busy(s)
      /\ Active(s)' <=> Active(s)
      /\ now' = now /\ todo' = todo /\ eodCloseDate' = eodCloseDate
  BY <1>2 DEF handlerVars, slotDays, Busy, Idle, Active, UsesReservation, Opening, HasPos
<1>4. Busy(s) => now[s] = clock
  BY <1>1 DEF Settled, Busy
<1>5. MarkIsDue(s)'
  BY <1>1, <1>3 DEF DayOK, MarkIsDue
<1>6. CASE clock.minute < DayMinutes - 1
  <2>1. clock'.day = clock.day /\ clock'.minute = clock.minute + 1
    BY <1>1, <1>6 DEF NextInstant, TypeInv, TypeOK, ClockOK
  <2>2. Recent(s)'
    BY <1>3, <1>4, <2>1, <1>1, DayTypes DEF Recent
  <2>3. InWindow(s)'
    BY <1>1, <1>3, <2>1, DayTypes DEF DayOK, InWindow, DayAllowed
  <2>4. ShouldForceClose(Session[s], clock) => ShouldForceClose(Session[s], clock')
    BY <1>1, <2>1, DayTypes DEF DayAllowed, ShouldForceClose
  <2>5. MarkIsTrue(s)'
    BY <1>1, <1>3, <2>1, <2>4 DEF DayOK, MarkIsTrue
  <2>. QED
    BY <1>5, <2>2, <2>3, <2>5 DEF DayOK
<1>7. CASE ~(clock.minute < DayMinutes - 1)
  <2>1. clock'.day = clock.day + 1 /\ clock'.minute = 0 /\ clock.minute = DayMinutes - 1
    BY <1>1, <1>7, DayTypes DEF NextInstant
  <2>2. Recent(s)'
    BY <1>1, <1>3, <1>4, <2>1, DayTypes DEF Recent
  <2>3. MarkIsTrue(s)'
    BY <1>1, <1>3, <2>1, DayTypes DEF DayOK, MarkIsTrue
  <2>4. ~Active(s)
    <3>. SUFFICES ASSUME Active(s) PROVE FALSE
      OBVIOUS
    <3>1. ShouldForceClose(Session[s], clock)
      BY <1>1, <2>1, DayTypes DEF DayOK, InWindow, ShouldForceClose
    <3>2. eodCloseDate[s] # clock.day
      BY <1>1 DEF DayOK, MarkIsTrue
    <3>3. Idle(s) /\ ~HasPos(s)
      BY <1>1, <3>1, <3>2 DEF Settled
    <3>. QED
      BY <3>3 DEF Idle, Active, UsesReservation, Opening
  <2>. QED
    BY <1>3, <1>5, <2>2, <2>3, <2>4 DEF DayOK, InWindow
<1>. QED
  BY <1>6, <1>7

\* Every step keeps positions within their day.
LEMMA DayStep == DayInv /\ [Next]_vars => DayInv'
<1>. SUFFICES ASSUME DayInv, [Next]_vars PROVE \A s \in Slots : DayOK(s)'
  BY ReservedStep DEF DayInv
<1>1. TypeInv /\ \A s \in Slots : DayOK(s)
  BY DEF DayInv, ReservedInv, OwnershipInv
<1>2. ASSUME NEW s \in Slots, Tick(s) \/ Candle(s) \/ Timer(s)
      PROVE  \A r \in Slots : DayOK(r)'
  <2>1. DayOK(s)' /\ \A r \in Slots \ {s} : SameSlot(r)
    BY <1>1, <1>2, BeginDay DEF Tick, Candle, Timer
  <2>2. clock' = clock
    BY <1>2 DEF Tick, Candle, Timer, Begin
  <2>. QED
    BY <1>1, <2>1, <2>2, SameSlotDay
<1>3. ASSUME NEW s \in Slots, Handler(s) PROVE \A r \in Slots : DayOK(r)'
  <2>1. \A r \in Slots \ {s} : SameSlot(r)
    BY <1>1, <1>3, HandlerFrame
  <2>2. clock' = clock
    BY <1>1, <1>3, HandlerMark
  <2>. QED
    BY <1>1, <1>3, <2>1, <2>2, HandlerDay, SameSlotDay
<1>4. ASSUME NEW s \in Slots, Stop(s) PROVE \A r \in Slots : DayOK(r)'
  <2>1. /\ pc[s] = "run" /\ pc'[s] = "stopped" /\ \A r \in Slots \ {s} : pc'[r] = pc[r]
        /\ UNCHANGED <<clock, todo, now, pos, order, exitPrice, slotDays>>
    BY <1>1, <1>4 DEF Stop, Idle, TypeInv, TypeOK, HandlersOK
  <2>2. DayOK(s)'
    BY <1>1, <2>1 DEF DayOK, Recent, MarkIsDue, MarkIsTrue, InWindow, Busy, Active,
                      UsesReservation, Opening, HasPos, slotDays
  <2>3. \A r \in Slots \ {s} : SameSlot(r)
    BY <2>1 DEF SameSlot, SameAt, slotDays
  <2>. QED
    BY <1>1, <2>1, <2>2, <2>3, SameSlotDay
<1>5. ASSUME (\E s \in Slots : ResetLoop(s)) \/ Cancel \/ UNCHANGED vars
      PROVE  \A r \in Slots : DayOK(r)'
  <2>1. UNCHANGED <<clock, handlerVars, slotDays>>
    BY <1>5, Zenon DEF ResetLoop, Cancel, vars
  <2>2. \A r \in Slots : SameSlot(r)
    BY <2>1 DEF SameSlot, SameAt, handlerVars, slotDays
  <2>. QED
    BY <1>1, <2>1, <2>2, SameSlotDay
<1>. QED
  BY <1>2, <1>3, <1>4, <1>5, AdvanceDay DEF Next, Terminated

\* Nothing is held when the run starts.
LEMMA DayInit == Init => DayInv
<1>. SUFFICES ASSUME Init, NEW s \in Slots PROVE DayOK(s)
  BY ReservedInit DEF DayInv
<1>1. /\ pc[s] = "run" /\ todo[s] = <<>> /\ pos[s] = NoOrder /\ eodCloseDate[s] = NoDay
      /\ clock.day = 1
  BY DEF Init
<1>2. ~Busy(s) /\ ~Active(s)
  BY <1>1 DEF Busy, Idle, Active, UsesReservation, Opening, HasPos
<1>. QED
  BY <1>1, <1>2 DEF DayOK, Recent, MarkIsDue, MarkIsTrue, InWindow, NoDay

\* Positions stay within their day throughout a run.
LEMMA DayInvariant == Spec => []DayInv
<1>. QED
  BY DayInit, DayStep, PTL DEF Spec

\* A day begins without positions, whatever the handlers were doing when EOD
\* came and however their calls interleaved.
THEOREM NothingIsHeldOvernight == Spec => []NothingHeldOvernight
<1>1. DayInv => NothingHeldOvernight
  <2>. SUFFICES ASSUME DayInv, NEW s \in Slots, clock.minute < Session[s].open, Owns(s)
       PROVE  FALSE
    BY DEF NothingHeldOvernight
  <2>1. Active(s)
    BY DEF Owns, Active, UsesReservation
  <2>2. clock.minute >= Session[s].open + Session[s].delay
    BY <2>1 DEF DayInv, DayOK, InWindow
  <2>. QED
    BY <2>2, DayTypes DEF DayInv, ReservedInv, OwnershipInv
<1>. QED
  BY <1>1, DayInvariant, PTL

-----------------------------------------------------------------------------
(***************************************************************************)
(* Every position has its reservation.  The daily reset forgets the        *)
(* reservations, so this needs the day's reset to come before the first    *)
(* entry: the bot starts before a slot's open + delay, and on each of its  *)
(* days some slot, itself if it has a delay, opens before that minute.     *)
(***************************************************************************)
DayOpensFirst ==
    \A s \in Slots :
        LET firstEntry == Session[s].open + Session[s].delay IN
        /\ 1 \in Session[s].days => StartMinute < firstEntry
        /\ \A d \in Session[s].days :
              \E r \in Slots : d \in Session[r].days /\ Session[r].open < firstEntry

\* When entries begin, the day has been reset.
ResetDone ==
    \A s \in Slots :
        DayAllowed(Session[s], clock) /\ clock.minute >= Session[s].open + Session[s].delay
          => tradingDate = clock.day

Covered ==
    \A s \in Slots :
        UsesReservation(s) => /\ openPositions[TickerOf[s]] = TradeRisk(Backed(s))
                              /\ openPositions[TickerOf[s]] # Risk!NotOpen

OneUser ==
    \A r, s \in Slots :
        UsesReservation(r) /\ UsesReservation(s) /\ TickerOf[r] = TickerOf[s] => r = s

CoverInv == DayInv /\ ResetDone /\ Covered /\ OneUser

\* The clock does not pass open without the reset.
LEMMA ResetStep ==
    ASSUME DayOpensFirst, CoverInv, [Next]_vars
    PROVE  ResetDone'
<1>1. ReservedInv /\ TypeInv
  BY DEF CoverInv, DayInv, ReservedInv, OwnershipInv
<1>2. CASE Advance
  <2>. SUFFICES ASSUME NEW s \in Slots, DayAllowed(Session[s], clock'),
                       clock'.minute >= Session[s].open + Session[s].delay
       PROVE  tradingDate' = clock'.day
    BY DEF ResetDone
  <2>1. clock' = NextInstant /\ tradingDate' = tradingDate
    BY <1>2 DEF Advance, riskVars
  <2>2. PICK r \in Slots : /\ DayAllowed(Session[r], clock')
                          /\ Session[r].open < Session[s].open + Session[s].delay
    BY DEF DayOpensFirst, DayAllowed
  <2>3. /\ clock.minute < DayMinutes - 1
        /\ clock'.day = clock.day /\ clock'.minute = clock.minute + 1
    BY <1>1, <2>1, <2>2, DayTypes DEF NextInstant, TypeInv, TypeOK, ClockOK
  <2>4. IsSessionOpen(Session[r], clock)
    BY <1>1, <2>2, <2>3, DayTypes DEF IsSessionOpen, DayAllowed
  <2>5. Settled(r)
    BY <1>2 DEF Advance
  <2>. QED
    BY <2>1, <2>3, <2>4, <2>5 DEF Settled
<1>3. CASE ~Advance
  <2>1. clock' = clock
    <3>1. ASSUME NEW s \in Slots, Tick(s) \/ Candle(s) \/ Timer(s) \/ Stop(s) \/ ResetLoop(s)
          PROVE  clock' = clock
      BY <3>1 DEF Tick, Candle, Timer, Begin, Stop, ResetLoop
    <3>2. CASE Cancel \/ UNCHANGED vars
      BY <3>2 DEF Cancel, vars
    <3>. QED
      BY <1>1, <1>3, <3>1, <3>2, HandlerMark DEF Next, Terminated
  <2>2. tradingDate' = tradingDate \/ tradingDate' = clock.day
    BY <1>1, ReservationShape DEF ResetsDay, Risk!ResetDaily, Risk!riskVars
  <2>. QED
    BY <2>1, <2>2 DEF CoverInv, ResetDone
<1>. QED
  BY <1>2, <1>3

\* Every step keeps what is held covered.
LEMMA CoverStep ==
    ASSUME CoverInv, [Next]_vars
    PROVE  Covered' /\ OneUser'
<1>. USE DEF CoverInv, Covered, OneUser
<1>1. ReservedInv /\ TypeInv
  BY DEF DayInv, ReservedInv, OwnershipInv
<1>2. /\ TickerOf \in [Slots -> Tickers] /\ DOMAIN openPositions = Tickers
  BY <1>1, TradingAssumption DEF TypeInv, TypeOK, Risk!TypeOK
<1>3. ASSUME \A r \in Slots : SameAt(r), UNCHANGED openPositions
      PROVE  Covered' /\ OneUser'
  BY <1>3, SameSlotReserved
<1>4. ASSUME \A r \in Slots : SameAt(r), NEW s \in Slots, ResetsDay(s)
      PROVE  Covered' /\ OneUser'
  <2>1. ASSUME NEW r \in Slots, UsesReservation(r) PROVE tradingDate = clock.day
    BY <2>1 DEF DayInv, DayOK, InWindow, Active, ResetDone
  <2>2. CASE tradingDate = clock.day
    <3>1. UNCHANGED openPositions
      BY <1>4, <2>2 DEF ResetsDay, Risk!ResetDaily, Risk!riskVars
    <3>. QED
      BY <1>3, <1>4, <3>1
  <2>3. CASE \A r \in Slots : ~UsesReservation(r)
    BY <1>4, <2>3, SameSlotReserved
  <2>. QED
    BY <2>1, <2>2, <2>3
<1>5. ASSUME NEW s \in Slots, \A r \in Slots \ {s} : SameAt(r)
      PROVE  \A r \in Slots \ {s} : /\ UsesReservation(r)' <=> UsesReservation(r)
                                   /\ Backed(r)' = Backed(r)
  BY <1>5, SameSlotReserved
<1>6. ASSUME NEW s \in Slots, KeepsReservation(s) PROVE Covered' /\ OneUser'
  BY <1>5, <1>6 DEF KeepsReservation
<1>7. ASSUME NEW s \in Slots, Reserves(s) PROVE Covered' /\ OneUser'
  <2>1. \A r \in Slots \ {s} : UsesReservation(r) => TickerOf[r] # TickerOf[s]
    BY <1>2, <1>7 DEF Reserves, Risk!Registered
  <2>2. \A r \in Slots \ {s} : /\ UsesReservation(r)' <=> UsesReservation(r)
                              /\ Backed(r)' = Backed(r)
    BY <1>5, <1>7 DEF Reserves
  <2>3. openPositions'[TickerOf[s]] = TradeRisk(order[s]) /\ TradeRisk(order[s]) \in Nat
    BY <1>2, <1>7, OrderTypes DEF Reserves
  <2>4. \A t \in Tickers \ {TickerOf[s]} : openPositions'[t] = openPositions[t]
    BY <1>2, <1>7 DEF Reserves
  <2>5. Covered'
    <3>1. ASSUME NEW r \in Slots \ {s}, UsesReservation(r)'
          PROVE  /\ openPositions'[TickerOf[r]] = TradeRisk(Backed(r)')
                 /\ openPositions'[TickerOf[r]] # Risk!NotOpen
      BY <1>2, <2>1, <2>2, <2>4, <3>1
    <3>2. /\ openPositions'[TickerOf[s]] = TradeRisk(Backed(s)')
          /\ openPositions'[TickerOf[s]] # Risk!NotOpen
      BY <1>7, <2>3 DEF Reserves, Risk!NotOpen
    <3>. QED
      BY <3>1, <3>2
  <2>. QED
    BY <2>1, <2>2, <2>5
<1>8. ASSUME NEW s \in Slots, GivesBack(s) PROVE Covered' /\ OneUser'
  <2>1. \A r \in Slots \ {s} : UsesReservation(r) => TickerOf[r] # TickerOf[s]
    BY <1>8 DEF GivesBack
  <2>2. \A r \in Slots \ {s} : /\ UsesReservation(r)' <=> UsesReservation(r)
                              /\ Backed(r)' = Backed(r)
    BY <1>5, <1>8 DEF GivesBack
  <2>3. \A t \in Tickers \ {TickerOf[s]} : openPositions'[t] = openPositions[t]
    BY <1>2, <1>8 DEF GivesBack
  <2>4. ~UsesReservation(s)'
    BY <1>8 DEF GivesBack
  <2>. QED
    BY <1>2, <2>1, <2>2, <2>3, <2>4
<1>. QED
  BY <1>1, <1>3, <1>4, <1>6, <1>7, <1>8, ReservationShape

\* Nothing is held when the run starts, and no day is reset.
LEMMA CoverInit == DayOpensFirst /\ Init => CoverInv
<1>. SUFFICES ASSUME DayOpensFirst, Init PROVE ResetDone /\ Covered /\ OneUser
  BY DayInit DEF CoverInv
<1>1. \A s \in Slots : ~UsesReservation(s)
  BY DEF Init, UsesReservation, HasPos
<1>2. ResetDone
  <2>1. clock.minute = StartMinute /\ clock.day = 1
    BY DEF Init
  <2>2. \A s \in Slots : 1 \in Session[s].days => StartMinute < Session[s].open + Session[s].delay
    BY DEF DayOpensFirst
  <2>3. StartMinute \in Int /\ \A s \in Slots : Session[s].open + Session[s].delay \in Int
    BY TradingAssumption
  <2>. QED
    BY <2>1, <2>2, <2>3 DEF ResetDone, DayAllowed
<1>. QED
  BY <1>1, <1>2 DEF Covered, OneUser

\* The strengthened form says what the property says.
LEMMA CoverMeansCovers == CoverInv => ReservationCoversPosition
<1>. SUFFICES ASSUME CoverInv, NEW s \in Slots, Owns(s)
     PROVE  openPositions[TickerOf[s]] = TradeRisk(Held(s))
  BY DEF ReservationCoversPosition
<1>1. UsesReservation(s)
  BY DEF Owns, UsesReservation
<1>2. Backed(s) = Held(s)
  BY DEF Owns, Backed, Held, ReservedPlaces, CoverInv, DayInv, ReservedInv, EmptyHanded
<1>. QED
  BY <1>1, <1>2 DEF CoverInv, Covered

\* Where the bot starts before the first entry, and some slot opens the day
\* before it, every position is backed by its own risk in the controller.
\* Without that the first reset comes behind an entry and takes its reservation
\* away: that is the disagreement the run trading_reset exhibits.
THEOREM PositionsAreCovered ==
    ASSUME DayOpensFirst PROVE Spec => []ReservationCoversPosition
<1>1. Init => CoverInv
  BY CoverInit
<1>2. CoverInv /\ [Next]_vars => CoverInv'
  BY DayStep, ResetStep, CoverStep DEF CoverInv
<1>. QED
  BY <1>1, <1>2, CoverMeansCovers, PTL DEF Spec
=============================================================================

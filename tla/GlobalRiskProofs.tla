-------------------------- MODULE GlobalRiskProofs --------------------------
(***************************************************************************)
(* Proofs about GlobalRisk for every set of tickers, every budget and      *)
(* every daily limit.  The sum of the reservations is the cardinality of   *)
(* the set RiskUnits, so what the proofs need of it are two lemmas: adding *)
(* a reservation adds exactly its risk, shrinking reservations never adds. *)
(***************************************************************************)
EXTENDS GlobalRisk, FiniteSetTheorems, TLAPS

Reservations == [Tickers -> RiskAmounts \cup {NotOpen}]

-----------------------------------------------------------------------------
\* The sum of a finite map is a natural number.
LEMMA OpenRiskType ==
    ASSUME NEW open \in Reservations
    PROVE  IsFiniteSet(RiskUnits(open)) /\ OpenRisk(open) \in Nat
<1>1. IsFiniteSet(1..MaxRisk)
  BY FS_Interval, GlobalRiskAssumption
<1>2. IsFiniteSet(Tickers \X (1..MaxRisk))
  BY <1>1, FS_Product, GlobalRiskAssumption
<1>3. RiskUnits(open) \in SUBSET (Tickers \X (1..MaxRisk))
  BY DEF RiskUnits
<1>4. IsFiniteSet(RiskUnits(open))
  BY <1>2, <1>3, FS_Subset
<1>. QED
  BY <1>4, FS_CardinalityType DEF OpenRisk

\* An empty map sums to zero.
LEMMA OpenRiskEmpty == OpenRisk([t \in Tickers |-> NotOpen]) = 0
<1>1. RiskUnits([t \in Tickers |-> NotOpen]) = {}
  BY GlobalRiskAssumption DEF RiskUnits, NotOpen
<1>. QED
  BY <1>1, FS_EmptySet DEF OpenRisk

\* If no reservation grows, neither does the sum.
LEMMA OpenRiskMonotone ==
    ASSUME NEW open \in Reservations, NEW less \in Reservations,
           \A t \in Tickers : less[t] <= open[t]
    PROVE  OpenRisk(less) <= OpenRisk(open)
<1>1. RiskUnits(less) \subseteq RiskUnits(open)
  BY GlobalRiskAssumption DEF RiskUnits, Reservations, RiskAmounts, NotOpen
<1>. QED
  BY <1>1, OpenRiskType, FS_Subset DEF OpenRisk

\* A new reservation on a free ticker adds exactly its risk to the sum.
LEMMA OpenRiskAdd ==
    ASSUME NEW open \in Reservations, NEW t \in Tickers, NEW r \in RiskAmounts,
           open[t] = NotOpen
    PROVE  OpenRisk([open EXCEPT ![t] = r]) = OpenRisk(open) + r
<1>. DEFINE more == [open EXCEPT ![t] = r]
            added == {t} \X (1..r)
<1>1. RiskUnits(more) = RiskUnits(open) \cup added
  BY GlobalRiskAssumption DEF RiskUnits, Reservations, RiskAmounts, NotOpen
<1>2. RiskUnits(open) \cap added = {}
  BY GlobalRiskAssumption DEF RiskUnits, Reservations, RiskAmounts, NotOpen
<1>3. IsFiniteSet(1..r) /\ Cardinality(1..r) = r
  BY FS_Interval DEF RiskAmounts
<1>4. IsFiniteSet({t}) /\ Cardinality({t}) = 1
  BY FS_Singleton
<1>5. IsFiniteSet(added) /\ Cardinality(added) = 1 * r
  BY <1>3, <1>4, FS_Product, ZenonT(40)
<1>6. Cardinality(RiskUnits(open) \cup added)
        = OpenRisk(open) + Cardinality(added) - Cardinality({})
  BY <1>2, <1>5, OpenRiskType, FS_Union DEF OpenRisk
<1>7. Cardinality({}) = 0
  BY FS_EmptySet
<1>8. r \in Nat
  BY DEF RiskAmounts
<1>9. OpenRisk(open) \in Nat
  BY OpenRiskType
<1>10. OpenRisk(more) = Cardinality(RiskUnits(open) \cup added)
  BY <1>1 DEF OpenRisk
<1>. HIDE DEF added
<1>11. OpenRisk(more) = OpenRisk(open) + r
  BY <1>5, <1>6, <1>7, <1>8, <1>9, <1>10
<1>. QED
  BY <1>11

-----------------------------------------------------------------------------
(***************************************************************************)
(* TypeOK is inductive by itself; the two limits are inductive together    *)
(* with it, and independently of each other.                               *)
(***************************************************************************)
RiskInv == TypeOK /\ BudgetRespected /\ WorstCaseCovered

\* Every call keeps the types.
LEMMA TypeInductive == TypeOK /\ [Next]_riskVars => TypeOK'
<1>. SUFFICES ASSUME TypeOK, [Next]_riskVars PROVE TypeOK'
  OBVIOUS
<1>. USE GlobalRiskAssumption DEF TypeOK, RiskAmounts, NotOpen
<1>1. ASSUME NEW r \in RiskAmounts, PreTradeCheck(r) PROVE TypeOK'
  BY <1>1 DEF PreTradeCheck
<1>2. ASSUME NEW t \in Tickers, NEW r \in RiskAmounts, TryOpen(t, r)
      PROVE  TypeOK'
  BY <1>2 DEF TryOpen
<1>3. ASSUME NEW t \in Tickers, NEW r \in RiskAmounts, AdjustOpenRisk(t, r)
      PROVE  TypeOK'
  BY <1>3 DEF AdjustOpenRisk
<1>4. ASSUME NEW t \in Tickers, ReleaseOpen(t) PROVE TypeOK'
  BY <1>4 DEF ReleaseOpen
<1>5. ASSUME NEW t \in Tickers, NEW pnl \in Int, RegisterClose(t, pnl)
      PROVE  TypeOK'
  BY <1>5 DEF RegisterClose
<1>6. ASSUME NEW date \in Dates, ResetDaily(date) PROVE TypeOK'
  <2>1. CASE date = tradingDate
    BY <2>1, <1>6 DEF ResetDaily, riskVars
  <2>2. CASE date # tradingDate
    <3>1. blocked' \in BOOLEAN
      BY <2>2, <1>6, Zenon DEF ResetDaily
    <3>. QED
      BY <3>1, <2>2, <1>6 DEF ResetDaily
  <2>. QED
    BY <2>1, <2>2
<1>7. CASE UNCHANGED riskVars
  BY <1>7 DEF riskVars
<1>. QED
  BY <1>1, <1>2, <1>3, <1>4, <1>5, <1>6, <1>7 DEF Next

\* A new controller is well typed.
LEMMA TypeInit == Init => TypeOK
<1>. SUFFICES ASSUME Init PROVE TypeOK
  OBVIOUS
<1>1. blocked \in BOOLEAN
  BY Zenon DEF Init
<1>2. realizedPnL \in Int /\ tradingDate \in Dates \cup {NoDate}
  BY DEF Init
<1>3. openPositions \in [Tickers -> RiskAmounts \cup {NotOpen}]
  BY DEF Init
<1>. QED
  BY <1>1, <1>2, <1>3 DEF TypeOK

\* Every reachable state of the controller is well typed.
THEOREM TypeCorrect == Spec => []TypeOK
<1>1. Init => TypeOK
  BY TypeInit
<1>2. QED
  BY <1>1, TypeInductive, PTL DEF Spec

\* One call of a method keeps both limits.
LEMMA LimitsInductive ==
    ASSUME RiskInv, [Next]_riskVars
    PROVE  BudgetRespected' /\ WorstCaseCovered'
<1>1. TypeOK'
  BY TypeInductive DEF RiskInv
<1>2. openPositions \in Reservations /\ openPositions' \in Reservations
  BY <1>1 DEF RiskInv, TypeOK, Reservations
<1>3. OpenRisk(openPositions) \in Nat /\ OpenRisk(openPositions') \in Nat
  BY <1>2, OpenRiskType
<1>4. OpenRisk(openPositions) <= MaxOpenRiskBudget
  BY DEF RiskInv, BudgetRespected
<1>5. ~blocked => realizedPnL - OpenRisk(openPositions) > -MaxDailyLoss
  BY DEF RiskInv, WorstCaseCovered
<1>6. realizedPnL \in Int /\ realizedPnL' \in Int
  BY <1>1 DEF RiskInv, TypeOK
<1>. USE GlobalRiskAssumption DEF BudgetRespected, WorstCaseCovered
<1>7. ASSUME NEW r \in RiskAmounts, PreTradeCheck(r)
      PROVE  BudgetRespected' /\ WorstCaseCovered'
  BY <1>7, <1>4, <1>5 DEF PreTradeCheck
<1>8. ASSUME NEW t \in Tickers, NEW r \in RiskAmounts, TryOpen(t, r)
      PROVE  BudgetRespected' /\ WorstCaseCovered'
  <2>1. CASE TryOpenResult(t, r) = "ok"
    <3>1. /\ ~blocked
          /\ OpenRisk(openPositions) + r <= MaxOpenRiskBudget
          /\ t \notin Registered
          /\ ~(Exposure(r) <= -MaxDailyLoss)
      BY <2>1, <1>3 DEF TryOpenResult, RiskAmounts
    <3>2. openPositions[t] = NotOpen
      BY <3>1 DEF Registered
    <3>3. openPositions' = [openPositions EXCEPT ![t] = r]
      BY <1>8, <2>1 DEF TryOpen
    <3>4. OpenRisk(openPositions') = OpenRisk(openPositions) + r
      BY <3>2, <3>3, <1>2, OpenRiskAdd
    <3>5. r \in Int /\ realizedPnL' = realizedPnL
      BY <1>8 DEF TryOpen, RiskAmounts
    <3>. QED
      BY <3>1, <3>4, <3>5, <1>3, <1>6 DEF Exposure
  <2>2. CASE TryOpenResult(t, r) # "ok"
    <3>1. openPositions' = openPositions /\ realizedPnL' = realizedPnL
      BY <1>8, <2>2 DEF TryOpen
    <3>2. ~blocked' => ~blocked
      BY <1>8 DEF TryOpen, TryOpenResult
    <3>. QED
      BY <3>1, <3>2, <1>4, <1>5
  <2>. QED
    BY <2>1, <2>2
<1>9. ASSUME \A t \in Tickers : openPositions'[t] <= openPositions[t],
             ~blocked' => ~blocked,
             realizedPnL' = realizedPnL
      PROVE  BudgetRespected' /\ WorstCaseCovered'
  <2>1. OpenRisk(openPositions') <= OpenRisk(openPositions)
    BY <1>9, <1>2, OpenRiskMonotone
  <2>. QED
    BY <2>1, <1>9, <1>3, <1>4, <1>5, <1>6
<1>10. ASSUME NEW t \in Tickers, NEW r \in RiskAmounts,
              t \in Registered => r <= openPositions[t], AdjustOpenRisk(t, r)
       PROVE  BudgetRespected' /\ WorstCaseCovered'
  <2>1. \A u \in Tickers : openPositions'[u] <= openPositions[u]
    BY <1>10, <1>2 DEF AdjustOpenRisk, Reservations, RiskAmounts, NotOpen
  <2>. QED
    BY <2>1, <1>9, <1>10 DEF AdjustOpenRisk
<1>11. ASSUME NEW t \in Tickers, ReleaseOpen(t)
       PROVE  BudgetRespected' /\ WorstCaseCovered'
  <2>1. \A u \in Tickers : openPositions'[u] <= openPositions[u]
    BY <1>11, <1>2 DEF ReleaseOpen, Reservations, RiskAmounts, NotOpen
  <2>. QED
    BY <2>1, <1>9, <1>11 DEF ReleaseOpen
<1>12. ASSUME NEW t \in Tickers, NEW pnl \in Int, RegisterClose(t, pnl)
       PROVE  BudgetRespected' /\ WorstCaseCovered'
  <2>1. \A u \in Tickers : openPositions'[u] <= openPositions[u]
    BY <1>12, <1>2 DEF RegisterClose, Reservations, RiskAmounts, NotOpen
  <2>2. OpenRisk(openPositions') <= OpenRisk(openPositions)
    BY <2>1, <1>2, OpenRiskMonotone
  <2>3. ~blocked' => ~(realizedPnL' - OpenRisk(openPositions') <= -MaxDailyLoss)
    BY <1>12 DEF RegisterClose
  <2>. QED
    BY <2>2, <2>3, <1>3, <1>4, <1>6
<1>13. ASSUME NEW date \in Dates, ResetDaily(date)
       PROVE  BudgetRespected' /\ WorstCaseCovered'
  <2>1. CASE date = tradingDate
    BY <2>1, <1>13, <1>4, <1>5 DEF ResetDaily, riskVars
  <2>2. CASE date # tradingDate
    <3>1. OpenRisk(openPositions') = 0 /\ realizedPnL' = 0
      BY <2>2, <1>13, OpenRiskEmpty DEF ResetDaily
    <3>. QED
      BY <3>1
  <2>. QED
    BY <2>1, <2>2
<1>14. CASE UNCHANGED riskVars
  BY <1>14, <1>4, <1>5 DEF riskVars
<1>. QED
  BY <1>6, <1>7, <1>8, <1>10, <1>11, <1>12, <1>13, <1>14 DEF Next

\* Budget and worst case hold after any sequence of calls.
LEMMA RiskInvCorrect == Spec => []RiskInv
<1>1. Init => RiskInv
  <2>. SUFFICES ASSUME Init PROVE RiskInv
    OBVIOUS
  <2>1. TypeOK
    BY TypeInit
  <2>2. OpenRisk(openPositions) = 0 /\ realizedPnL = 0
    BY OpenRiskEmpty DEF Init
  <2>. QED
    BY <2>1, <2>2, GlobalRiskAssumption
    DEF RiskInv, BudgetRespected, WorstCaseCovered
<1>2. RiskInv /\ [Next]_riskVars => RiskInv'
  BY TypeInductive, LimitsInductive DEF RiskInv
<1>3. QED
  BY <1>1, <1>2, PTL DEF Spec

\* The open risk of the portfolio stays within the budget.
THEOREM BudgetIsRespected == Spec => []BudgetRespected
BY RiskInvCorrect, PTL DEF RiskInv

\* While trading is allowed, the day cannot be stopped out past its limit.
THEOREM WorstCaseIsCovered == Spec => []WorstCaseCovered
BY RiskInvCorrect, PTL DEF RiskInv

\* The circuit breaker is cleared by a reset with a new date and by nothing
\* else, and lets no reservation in meanwhile.
THEOREM BreakerLatches == Spec => BlockedUntilNewDate
<1>1. ASSUME TypeOK, [Next]_riskVars, blocked, tradingDate' = tradingDate,
             ~UNCHANGED riskVars
      PROVE  /\ blocked'
             /\ \A t \in Tickers : openPositions'[t] <= openPositions[t]
  <2>. USE <1>1, GlobalRiskAssumption DEF TypeOK, RiskAmounts, NotOpen
  <2>1. ASSUME NEW r \in RiskAmounts, PreTradeCheck(r)
        PROVE  blocked' /\ \A t \in Tickers : openPositions'[t] <= openPositions[t]
    <3>1. blocked'
      BY <1>1, <2>1, Zenon DEF PreTradeCheck
    <3>. QED
      BY <3>1, <2>1 DEF PreTradeCheck
  <2>2. ASSUME NEW u \in Tickers, NEW r \in RiskAmounts, TryOpen(u, r)
        PROVE  blocked' /\ \A t \in Tickers : openPositions'[t] <= openPositions[t]
    <3>1. TryOpenResult(u, r) = "circuit_breaker"
      BY <1>1, Zenon DEF TryOpenResult
    <3>2. openPositions' = openPositions
      BY <3>1, <2>2 DEF TryOpen
    <3>3. blocked'
      BY <3>1, <2>2, Zenon DEF TryOpen
    <3>. QED
      BY <3>2, <3>3
  <2>3. ASSUME NEW u \in Tickers, NEW r \in RiskAmounts,
               u \in Registered => r <= openPositions[u], AdjustOpenRisk(u, r)
        PROVE  blocked' /\ \A t \in Tickers : openPositions'[t] <= openPositions[t]
    BY <2>3 DEF AdjustOpenRisk, Registered
  <2>4. ASSUME NEW u \in Tickers, ReleaseOpen(u)
        PROVE  blocked' /\ \A t \in Tickers : openPositions'[t] <= openPositions[t]
    BY <2>4 DEF ReleaseOpen
  <2>5. ASSUME NEW u \in Tickers, NEW pnl \in Int, RegisterClose(u, pnl)
        PROVE  blocked' /\ \A t \in Tickers : openPositions'[t] <= openPositions[t]
    <3>1. blocked'
      BY <1>1, <2>5, Zenon DEF RegisterClose
    <3>. QED
      BY <3>1, <2>5 DEF RegisterClose
  <2>6. ASSUME NEW date \in Dates, ResetDaily(date)
        PROVE  blocked' /\ \A t \in Tickers : openPositions'[t] <= openPositions[t]
    BY <2>6 DEF ResetDaily
  <2>. QED
    BY <2>1, <2>2, <2>3, <2>4, <2>5, <2>6 DEF Next
<1>2. TypeOK /\ [Next]_riskVars
        => [blocked /\ tradingDate' = tradingDate
              => /\ blocked'
                 /\ \A t \in Tickers : openPositions'[t] <= openPositions[t]]_riskVars
  BY <1>1
<1>3. QED
  BY <1>2, TypeCorrect, PTL DEF Spec, BlockedUntilNewDate
=============================================================================

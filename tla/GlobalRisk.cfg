\* Three tickers, risks 0..2, a budget of 4 (two full trades) and a daily
\* limit of 3: every branch of TryOpen and both ways to trip the breaker occur.
CONSTANTS
    Tickers = {t1, t2, t3}
    Dates = {d1, d2}
    NoDate = NoDate
    MaxRisk = 2
    MaxDailyLoss = 3
    MaxOpenRiskBudget = 4
    PnLBound = 4
SPECIFICATION Spec
INVARIANTS
    TypeOK
    BudgetRespected
    WorstCaseCovered
PROPERTY
    BlockedUntilNewDate

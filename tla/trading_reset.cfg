SPECIFICATION Spec
CONSTANTS
    a = a
    b = b
    c = c
    t = t
    u = u
    Slots = {a, b}
    Tickers = {t}
    TickerOf <- SharedTicker
    Session <- OneSession
    Days = 1
    DayMinutes = 4
    StartMinute = 2
    Signals <- LongOnly
    Prices = {2}
    RiskPerTrade = 2
    UtilPct = 95
    Slippage = 0
    CommissionPerUnit = 1
    MaxTradesPerDay = 2
    SlotMaxDailyLoss = 4
    MaxDailyLoss = 9
    MaxOpenRiskBudget = 4
    InitialBalance = 14
INVARIANTS
    ReservationCoversPosition

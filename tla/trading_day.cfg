SPECIFICATION FairSpec
CONSTANTS
    a = a
    b = b
    c = c
    t = t
    u = u
    Slots = {a, c}
    Tickers = {t, u}
    TickerOf <- SharedTicker
    Session <- TwoSessions
    Days = 2
    DayMinutes = 4
    StartMinute = 0
    Signals <- LongOnly
    Prices = {2}
    RiskPerTrade = 2
    UtilPct = 95
    Slippage = 0
    CommissionPerUnit = 1
    MaxTradesPerDay = 2
    SlotMaxDailyLoss = 4
    MaxDailyLoss = 9
    MaxOpenRiskBudget = 4
    InitialBalance = 8
INVARIANTS
    ReservationCoversPosition
    NothingHeldOvernight
PROPERTIES
    NoEntryAfterSlotLimit
    EveryPositionIsClosed

SPECIFICATION Spec
CONSTANTS
    a = a
    b = b
    c = c
    t = t
    u = u
    Slots = {a, b}
    Tickers = {t}
    TickerOf <- SharedTicker
    Session <- OneSession
    Days = 1
    DayMinutes = 4
    StartMinute = 2
    Signals <- BothWays
    Prices = {2, 5}
    RiskPerTrade = 3
    UtilPct = 95
    Slippage = 1
    CommissionPerUnit = 1
    MaxTradesPerDay = 2
    SlotMaxDailyLoss = 4
    MaxDailyLoss = 9
    MaxOpenRiskBudget = 8
    InitialBalance = 9
SYMMETRY SameTickerSlots
INVARIANTS
    TypeOK
    OneOwnerPerPosition
    NoLeakedReservation
    LedgerAgrees
PROPERTIES
    ImplementsTickerLock

SPECIFICATION MCSpec
CONSTANTS
    Slots = {"a", "b", "c"}
    Rank <- MCRank
    Tickers = {"t", "u"}
    TickerOf <- MCTickerOf
    Frame <- MCFrame
    Session <- MCSession
    Days = 2
    DayMinutes = 4
    HistoryEnd <- MCHistoryEnd
    Signals <- MCSignals
    Prices = {2}
    RiskPerTrade = 2
    UtilPct = 95
    Slippage = 0
    CommissionPerUnit = 1
    MaxTradesPerDay = 2
    SlotMaxDailyLoss = 4
    MaxDailyLoss = 9
    MaxOpenRiskBudget = 4
    InitialBalance = 12
    MaxNow = 4
    ChunkBars = 2
    MaxRetries = 1
    RecordingDays = 2
    MaxMessages = 4
    BufferSize = 2
    MaxFaults = 2
INVARIANTS
    ReportIsTheAccount
    TradesEndWithTheirDay
    ReservedWithinTheDay
    HistoryIsComplete
    RecordingIsComplete
PROPERTIES
    ExitsBeforeEntries

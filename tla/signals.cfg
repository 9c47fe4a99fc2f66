\* Two short days of a session, every bar over a few prices.
SPECIFICATION Spec
CONSTANTS
    Entries = {"close", "retest", "fade", "momentum", "filtered", "daytrend", "reversion",
               "random", "vwap", "prevday", "midday", "late", "gap"}
    Starts = {0, 1}
    RangeEnd = 2
    Threshold = 30
    FadeWindow = 2
    TradeEnd = 4
    Hour = 3
    Lookback = 2
    TrendBars = 2
    EntryFrom = 1
    EntryUntil = 3
    CompressionStart = 1
    CompressionEnd = 2
    MinRanges = 3
    ReadyBars = 2
    LimitBars = 2
    MaxPrice = 4
    Early = 1
    Last = 5
    Days = 2
    MaxGap = 2
INVARIANTS DayIsTheMarkets OrderIsTradable NothingPendingWhileBusy
PROPERTIES LimitIsHonest FadesAFreshBreakout ContinuesTheFirstBreakout

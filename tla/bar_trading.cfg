\* The live strategy handles a closed bar before the next one begins.
SPECIFICATION Spec
CONSTANTS
    PartsOfR = 2
    ActivationR = 1
    DiscreteStepR = 1
    StageMax = 2
    BreakevenR = 0
    BreakevenOffset = 0
    MaxPrice = 5
    BarsPerDay = 3
    LastInstant = 5
    MaxLag = 0
    MaxTrades = 1
    StopDistances = {2}
    TakeDistances = {0, 2}
    StaleAgeBars = 3
    RewardRatio = 2
INVARIANTS
    SameExit
    SameStop
PROPERTY
    BacktestFillsInsideBar

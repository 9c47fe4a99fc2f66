\* One closed bar may still wait while the market trades the next one.
SPECIFICATION Spec
CONSTANTS
    PartsOfR = 3
    ActivationR = 1
    DiscreteStepR = 1
    StageMax = 2
    BreakevenR = 0
    BreakevenOffset = 0
    MaxPrice = 5
    BarsPerDay = 3
    LastInstant = 5
    MaxLag = 1
    MaxTrades = 2
    StopDistances = {3}
    TakeDistances = {0, 2}
    StaleAgeBars = 3
    RewardRatio = 2
INVARIANT
    TrailsOnPricesSinceEntry

SPECIFICATION FairSpec
CONSTANTS
    Routes = {r1, r2}
    BarDur = 2
    CloseGrace = 1
    RawCap = 1
    OutCap = 1
    MaxDelay = 2
    MaxBars = 2
    r1 = r1
    r2 = r2
INVARIANT OnlyClosedBars
PROPERTIES BarsInOrder ClosedByLastUpdate EveryBarCloses

SPECIFICATION FairRealSpec
CONSTANTS
    MaxBackoff = 2
    AlertAfter = 4
    AlertRepeat = 5
    MinuteTicks = 4
    DayLength = 8
    NightFrom = 6
    Lots = {1}
    Bound = 1
INVARIANTS TypeOK AllClearIsGiven ShortBreaksAreSilent BooksPartOnlyBySilence
PROPERTIES OutageIsAlerted Reconnects ClosedInTheEnd

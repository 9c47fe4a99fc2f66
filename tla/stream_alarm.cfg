SPECIFICATION Spec
CONSTANTS
    MaxBackoff = 4
    AlertAfter = 6
    AlertRepeat = 7
    MinuteTicks = 2
    DayLength = 12
    NightFrom = 9
PROPERTY RefusalIsToldAtOnce

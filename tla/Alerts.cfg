SPECIFICATION PartSpec
CONSTANTS
    Miners = {m1, m2}
    RowActions <- AllRows
    MaxClock = 3
    MaxRows = 3
    MaxReplaced = 1
    SleepEnabled = {m1}
    WorkTicks <- Always
    StaleAfter = 1
    NotMining = 2
    Slack = 1
    Repeat = 2
    Settings <- Unwatching
    MaxTrouble = 1
    MaxChanges = 1
INVARIANTS
    IncrementalIsScan
    SightIsNotCleared
PROPERTIES
    AlarmsSpaced
    LatchIsTold

SPECIFICATION FairService
CONSTANTS
    Grace = 2
    Cooldown = 2
    MaxFailures = 2
    WorkTicks <- Night
    Settle = 2
    Answers <- Clear
    Faults <- Broken
    Modes <- LiveOnly
    PromptPolls = TRUE
    MaxClock = 11
    MaxCrashes = 1
    MaxByHand = 1
    MaxCommands = 0
    FailAfter = 0
    RestartCooldown = 2
    RateWindow = 3
    MaxRestarts = 1
    AsleepRecheck = 1
    Recovery = 1
    MaxGap = 3
    MaxRows = 100
    Outcomes = {"restart"}
    Illegible = FALSE
    WatchdogModes = {TRUE}
INVARIANTS
    HandedToHuman
PROPERTIES
    WokenOrReported
    DeadIsReported

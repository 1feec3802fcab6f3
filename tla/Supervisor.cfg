SPECIFICATION ServiceSpec
CONSTANTS
    Grace = 1
    Cooldown = 1
    MaxFailures = 1
    WorkTicks <- Night
    Settle = 0
    Answers <- Honest
    Faults <- Broken
    Modes <- AnyMode
    PromptPolls = FALSE
    MaxClock = 4
    MaxCrashes = 1
    MaxByHand = 0
    MaxCommands = 1
    FailAfter = 0
    RestartCooldown = 2
    RateWindow = 3
    MaxRestarts = 2
    AsleepRecheck = 2
    Recovery = 1
    MaxGap = 3
    MaxRows = 100
    Outcomes = {"restart"}
    Illegible = TRUE
    WatchdogModes = {TRUE}
PROPERTIES
    RestartSparesSleepers

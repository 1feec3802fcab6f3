SPECIFICATION Spec
CONSTANTS
    FailAfter = 0
    Cooldown = 2
    RateWindow = 6
    MaxRestarts = 2
    Recovery = 1
    MaxGap = 3
    MaxRows = 100
    AsleepRecheck = 2
    Modes <- LiveOnly
    Readings <- DeadMiner
    PowerAnswers = {"unreadable"}
    Outcomes = {"restart_failed"}
    PromptPolls = TRUE
    MaxClock = 7
    MaxCrashes = 2
    MaxClears = 1
INVARIANTS
    RateLimitedSinceClear

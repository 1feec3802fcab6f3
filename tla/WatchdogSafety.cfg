SPECIFICATION Spec
CONSTANTS
    FailAfter = 1
    Cooldown = 2
    RateWindow = 4
    MaxRestarts = 2
    Recovery = 1
    MaxGap = 3
    MaxRows = 4
    AsleepRecheck = 3
    Modes <- LiveOrRehearsal
    Readings <- AnyReading
    PowerAnswers = {"awake", "asleep"}
    Outcomes = {"restart_failed"}
    PromptPolls = FALSE
    MaxClock = 6
    MaxCrashes = 1
    MaxClears = 1
CONSTRAINT ClearsFollowActs
INVARIANTS
    TypeOK
    AttemptsSpaced
    RateLimited
    LatchEarned
    ConfirmedBeforeAttempt
    WaitIsBounded
PROPERTIES
    KeepsBudget

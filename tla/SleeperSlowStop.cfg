SPECIFICATION Spec
CONSTANTS
    Grace = 2
    Cooldown = 2
    MaxFailures = 2
    WorkTicks <- Night
    Settle = 1
    Answers <- Honest
    Faults <- NoFaults
    Modes <- LiveOnly
    PromptPolls = FALSE
    MaxClock = 7
    MaxCrashes = 0
    MaxByHand = 0
INVARIANTS
    DoubtfulIsWoken

SPECIFICATION Spec
CONSTANTS
    Grace = 2
    Cooldown = 2
    MaxFailures = 2
    WorkTicks <- Never
    Settle = 0
    Answers <- Hollow
    Faults <- NoFaults
    Modes <- LiveOnly
    PromptPolls = FALSE
    MaxClock = 7
    MaxCrashes = 1
    MaxByHand = 0
INVARIANTS
    IneffectiveIsSurfaced

SPECIFICATION Spec
CONSTANTS
    Grace = 2
    Cooldown = 2
    MaxFailures = 2
    WorkTicks <- Night
    Settle = 0
    Answers <- AnyAnswer
    Faults <- AnyFault
    Modes <- AnyMode
    PromptPolls = FALSE
    MaxClock = 7
    MaxCrashes = 2
    MaxByHand = 1
INVARIANTS
    TypeOK
    SleptIsNotHandedOver
    DoubtfulIsWoken
    RestartChangesNothing
    WakesOnlyWhatItSlept
    ActuationsSpaced
    GivesUp
    AttentionEarned

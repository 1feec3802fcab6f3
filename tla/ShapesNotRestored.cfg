SPECIFICATION DriversSpec
CONSTANTS
    Commands <- ThreeCommands
    Target <- Targets
    Client <- Clients
    Shapes = 2
    Settles = TRUE
    MaxStops = 1
    SleepChain <- SleepCommands
    WakeChain <- WakeCommands
    Mechanisms <- AllMechanisms
    BodyLength = 2
    MaxMoves = 1
INVARIANTS
    OriginalIsRestored
CHECK_DEADLOCK FALSE

SPECIFICATION FilesSpec
CONSTANTS
    Writers = {command, request}
    Readers = {service}
    Durations = {2}
    KeepEnded = 0
    Attempts = 2
    MaxClock = 2
    MaxOps = 2
    MaxStops = 1
    MaxFaults = 1
    MaxByHand = 1
    Pages = {page1, page2}
    Texts = {one, two, bad}
    Invalid = {bad}
    First = one
    KeepBackups = 2
    RenameRetries = 2
    MaxSaves = 3
    MaxTrouble = 1
    MaxForeign = 1
    MaxLen = 4
    MaxStep = 2
    Recovery = 1
    MaxGap = 1
    MaxRows = 3
    DayLength = 4
    NotLoaded = NotLoaded
    MinReboot = 3
INVARIANTS
    CacheFresh
    PromiseKept
    OverwrittenIsKept
    FleetFollows
    WalkKeepsItsPromise
    HoursAreAsWritten
    SettingsAreWhatWasSaid
PROPERTIES
    EventuallyNoticed
    EditsAreSeen

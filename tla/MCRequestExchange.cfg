CONSTANTS
    Create = Create
    Abort = Abort
    Obj = Obj
    NoObject = NoObject
    Sessions = {1}
    MaxRequestId = 2
    Timeout = 1
    MaxRetries = 1
    DuplicateWindow = 2
    MaxDelay = 2
    MaxSubmissions = 3
    MaxWait = 4
    MaxTime = 5
    Starts = {0, 2}
    DiscoveryInterval = 3
    Commands <- MCCommands
    CreateCommands <- MCCreateCommands
    Objects <- MCObjects
    Interactive = Interactive
    Safety = Safety
    System = System
    Bus = Bus
    Classes <- MCClasses
    ClassOf <- MCClassOf
    Limit <- MCLimit
    Frames <- MCFrames
    ControlFrames <- MCControlFrames
    Window = 2
    Mode = "Classical"
    Second = 1
    ArbitrationRate = 135
    DataRate = 135
SPECIFICATION AdmittedSpec
INVARIANTS NoStaleAnswer AttemptsAreSpaced BudgetIsKept
PROPERTIES TimeoutIsLast
CHECK_DEADLOCK FALSE

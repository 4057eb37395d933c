CONSTANTS
    c1 = c1
    c2 = c2
    c3 = c3
    n1 = n1
    Create = Create
    Use = Use
    Abort = Abort
    Obj = Obj
    NoObject = NoObject
    NoKey = NoKey
    Clients = {c1, c2}
    Nodes = {n1}
    CallNode <- MCCallNode
    CallCommand <- MCCallCommand
    CallObject <- MCCallObject
    Commands <- MCCommands
    CreateCommands <- MCCreateCommands
    SafetyCommands <- MCSafetyCommands
    Objects <- MCObjects
    MaxRequestId = 2
    Timeout = 1
    MaxRetries = 1
    DuplicateWindow = 1
    CacheSize = 1
    MaxSession = 2
    MaxBoot = 2
    MaxControls = 1
    FaultyCan = TRUE
    MaxDisturbances = 1
SPECIFICATION FairSpec
PROPERTIES ImplementsRemoteCall CallsEnd

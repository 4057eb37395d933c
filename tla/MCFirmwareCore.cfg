CONSTANTS
    Clients = {c1}
    Boards <- MCBoards
    Commands <- MCCommands
    GpioSlots = 1
    UartPorts = 1
    CacheSize = 1
    CacheData = 1
    RxSize = 2
    TxSize = 2
    Levels = {FALSE}
    MaxObjectId = 2
    ReadSizes = {1, 2}
    JobSize = 2
    ChunkSize = 2
    MaxBegins = 3
    MaxRequests = 5
    MaxRetries = 1
    MaxRepeats = 1
    MaxBytes = 3
    MaxBoots = 2
SPECIFICATION Spec
INVARIANTS TypeOK ObjectsAreDistinct RepeatedOnlyAfterEviction WritesAreExact OkMeansReset
CHECK_DEADLOCK FALSE

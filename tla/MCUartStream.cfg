CONSTANTS
    RingSize = 2
    ChunkSize = 2
    BufferSize = 2
    SlotCount = 1
    TransferIds = 3
    MaxBytes = 4
    MaxRequests = 1
    MaxBoots = 2
    MaxFaults = 1
SPECIFICATION FairSpec
CHECK_DEADLOCK FALSE
INVARIANTS ReadIsInOrder EveryGapIsCounted
PROPERTIES RequestsGetThrough BytesLeave

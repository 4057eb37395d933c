CONSTANTS
    s1 = s1
    s2 = s2
    pin = pin
    port = port
    x = x
    y = y
    NoOwner = NoOwner
    Pins = {pin}
    Ports = {port}
    Axes = {}
    LeaseSupported = {pin, port}
    LeaseRequired = {pin}
    SharedRead = {port}
    Sessions = {s1, s2}
    Durations = {1, 2}
    RxCapacity = 1
    TxCapacity = 1
    Setup <- One
    Pulse <- One
    Low <- One
    RatePeriod <- Two
    Capacity = 2
    Lead = 1
    SegmentDurations = {}
    StepCounts = {}
    MaxObject = 2
    MaxSequence = 0
    MaxNow = 3
SPECIFICATION Spec
SYMMETRY Symmetry
CHECK_DEADLOCK FALSE
INVARIANTS TypeOK ExclusiveIsAlone ObjectsMatchLeases IdsAreUnique FreePinsAreLow
PROPERTIES NoUseAfterExpiry

CONSTANTS
    s1 = s1
    s2 = s2
    pin = pin
    port = port
    x = x
    y = y
    NoOwner = NoOwner
    Pins = {}
    Ports = {}
    Axes = {x, y}
    LeaseSupported = {x, y}
    LeaseRequired = {x}
    SharedRead = {}
    Sessions = {s1, s2}
    Durations = {3}
    RxCapacity = 1
    TxCapacity = 1
    Setup <- One
    Pulse <- One
    Low <- One
    RatePeriod <- Two
    Capacity = 2
    Lead = 1
    SegmentDurations = {0, 3, 4}
    StepCounts <- MCStepCounts
    MaxObject = 1
    MaxSequence = 2
    MaxNow = 5
SPECIFICATION Spec
SYMMETRY Symmetry
CHECK_DEADLOCK FALSE
INVARIANTS MotionIsCovered QueueIsSeamless LowTimeKept

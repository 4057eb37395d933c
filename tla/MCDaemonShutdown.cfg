CONSTANTS
    c1 = c1
    c2 = c2
    Clients = {c1, c2}
SPECIFICATION FairSpec
PROPERTIES StopEnds
CHECK_DEADLOCK FALSE   \* the daemon stops

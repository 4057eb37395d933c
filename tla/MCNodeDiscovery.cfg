CONSTANTS
    mock = mock
    board = board
    Nodes = {mock, board}
    Talkative = {mock}
    MaxNodeId = 2
    ControlIds = 3
    CacheSize = 1
    MaxFaults = 2
SPECIFICATION FairSpec
INVARIANTS TypeOK AddressesAreDistinct
PROPERTIES AddressIsStable NodesSettle

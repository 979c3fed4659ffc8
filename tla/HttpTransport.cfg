SPECIFICATION HttpSpec
CONSTANTS
    HLanes <- TwoLanes
    HQCap = 1
    HRecvCap = 1
    HMaxBackoff = 2
    HMaxCalls <- CallsOfEach
INVARIANTS
    BuffersAccounted
PROPERTIES
    HttpImplementsLane
CHECK_DEADLOCK FALSE

SPECIFICATION Spec
CONSTANTS
    HLanes <- TwoLanes
    HQCap = 1
    HRecvCap = 1
    HMaxBackoff = 2
    HMaxCalls <- CallsOfEach
    GLoops <- TwoLoops
    GMaxConns = 3
    GMaxCalls = 1
    GMaxSends = 2
    GMaxBackoff = 3
    QReaders <- TwoReaders
    QSenders <- TwoSenders
    QMaxConns = 2
    QMaxFrames = 2
INVARIANTS
    QuicClosedForGood
CHECK_DEADLOCK FALSE

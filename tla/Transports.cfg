SPECIFICATION Spec
CONSTANTS
    HLanes <- TwoLanes
    HQCap = 1
    HRecvCap = 1
    HMaxBackoff = 2
    HMaxCalls <- CallsOfEach
    GLoops <- TwoLoops
    GMaxConns = 3
    GMaxCalls = 2
    GMaxSends = 2
    GMaxBackoff = 3
    QReaders <- TwoReaders
    QSenders <- TwoSenders
    QMaxConns = 2
    QMaxFrames = 2
INVARIANTS
    TypeOK
    SingleReader
    NoLostConn
    Attended
    FramesWhole
    NilStreamOnlyAfterClose
PROPERTIES
    ImplementsLink
    Recovers
    CloseEndsAll
CHECK_DEADLOCK FALSE

SPECIFICATION Spec
CONSTANTS
    HighCap = 1
    NormalCap = 1
    LowCap = 2
    Samples <- TwoTimes
    BytesPerUnit = 90
    ChunkSize = 1
INVARIANTS
    AtMostOneOvertakes
    OneOwner
    WindowFollowsSamples
PROPERTIES
    ClientEnds
CHECK_DEADLOCK FALSE

SPECIFICATION Spec
CONSTANTS
    Pumps <- TwoPumps
    MaxConns = 2
    MaxData = 1
    QCap = 2
    MaxBackoff = 2
INVARIANTS
    SafeChannelClose
CHECK_DEADLOCK FALSE

SPECIFICATION Spec
CONSTANTS
    Pumps <- TwoPumps
    MaxConns = 2
    MaxData = 1
    QCap = 2
    MaxBackoff = 2
INVARIANTS
    TypeOK
    OneReader
    Attended
    CloseIsFinal
    FirstConnectionGreets
    NilConnOnlyAfterClose
PROPERTIES
    ImplementsLink
    Reconnects
    CloseReturns
CHECK_DEADLOCK FALSE

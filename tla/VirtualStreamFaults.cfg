SPECIFICATION Spec
CONSTANTS
    Chunks = 3
    Window = 2
    AckCap = 1
    LowCap = 5
    MaxOther = 1
    ResumePoints <- MayResume
    Faults <- AllFaults
    Prompt = FALSE
INVARIANTS
    TypeOK
    WindowAccounting
    WaitsForSomething
    RoomForEnd
    TotalTellsLoss
PROPERTIES
    UploadReturns
    ImplementsPipe
CHECK_DEADLOCK FALSE

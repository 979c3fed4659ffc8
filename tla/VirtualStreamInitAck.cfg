SPECIFICATION Spec
CONSTANTS
    Chunks = 2
    Window = 2
    AckCap = 1
    LowCap = 4
    MaxOther = 0
    ResumePoints <- NoResume
    Faults <- NoFaults
    Prompt = TRUE
INVARIANTS
    ChunksAwaitInitAck
CHECK_DEADLOCK FALSE

SPECIFICATION Spec
CONSTANTS
    Chunks = 4
    Window = 3
    AckCap = 1
    LowCap = 2
    MaxOther = 0
    ResumePoints <- NoResume
    Faults <- NoFaults
    Prompt = TRUE
INVARIANTS
    IndexIsPosition
PROPERTIES
    UploadSucceeds
CHECK_DEADLOCK FALSE

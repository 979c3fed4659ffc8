SPECIFICATION Spec
CONSTANTS
    Chunks = 2
    Window = 2
    AckCap = 1
    LowCap = 3
    MaxOther = 3
    ResumePoints <- NoResume
    Faults <- OnlyClose
    Prompt = TRUE
PROPERTIES
    UploadReturns
CHECK_DEADLOCK FALSE

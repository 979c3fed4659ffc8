SPECIFICATION Spec
CONSTANTS
    f1 = f1
    Files <- OneFile
    Chunks = 2
    AutoDownload = TRUE
    MaxNotify = 2
    MaxManual = 1
    MaxBoth = 1
    Faults <- AllFaults
INVARIANTS
    OneReportPerReceiver
    SizeTellsLoss
    LateChunksOnly
PROPERTIES
    ImplementsDelivery
    DownloadCompletes
CHECK_DEADLOCK FALSE

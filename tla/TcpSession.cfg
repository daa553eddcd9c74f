SPECIFICATION Spec
CONSTANTS
    MaxUp = 2
    MaxDown = 2
    InFlight = 2
    MaxSeg = 2
    Wnd = 2
    PipeCap = 2
    TunCap = 2
    TunFails = TRUE
    Modulus = 7
    Window = 2
INVARIANTS
    TypeOK
    UploadIntegrity
    DownloadIntegrity
    AckedIsForwarded
    FinAfterData
    FinAfterDownload
    WindowExact
PROPERTY ImplementsStreamProxy
CHECK_DEADLOCK FALSE

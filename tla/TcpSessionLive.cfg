SPECIFICATION FairSpec
CONSTANTS
    MaxUp = 2
    MaxDown = 1
    InFlight = 2
    MaxSeg = 1
    Wnd = 1
    PipeCap = 2
    TunCap = 2
    TunFails = FALSE
PROPERTIES
    ClientEnds
    UploadAcked
CHECK_DEADLOCK FALSE

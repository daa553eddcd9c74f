SPECIFICATION SpecLossy
CONSTANTS
    MaxUp = 2
    MaxDown = 1
    InFlight = 2
    MaxSeg = 2
    Wnd = 2
    PipeCap = 2
    TunCap = 2
    TunFails = FALSE
INVARIANT UploadWhole
CHECK_DEADLOCK FALSE

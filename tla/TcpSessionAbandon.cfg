SPECIFICATION FairSpec
CONSTANTS
    MaxUp = 2
    MaxDown = 1
    InFlight = 2
    MaxSeg = 2
    Wnd = 2
    PipeCap = 2
    TunCap = 2
    TunFails = FALSE
PROPERTY AbandonEnds
CHECK_DEADLOCK FALSE

SPECIFICATION Spec
CONSTANTS
    MaxUp = 2
    MaxDown = 2
    InFlight = 2
    MaxSeg = 2
    Wnd = 2
    PipeCap = 2
    TunCap = 2
    TunFails = FALSE
INVARIANT AckedForwardedAtClose
CHECK_DEADLOCK FALSE

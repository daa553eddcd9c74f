SPECIFICATION FairSpec
CONSTANTS
    MaxOpens = 1
    MaxPending = 1
    FailingOpens = {}
CHECK_DEADLOCK FALSE
PROPERTY DisconnectEndsTunnel

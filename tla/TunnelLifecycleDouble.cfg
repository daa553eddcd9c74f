SPECIFICATION FairSpec
CONSTANTS
    MaxOpens = 2
    MaxPending = 2
    FailingOpens = {}
CHECK_DEADLOCK FALSE
INVARIANT OneTunnelThread

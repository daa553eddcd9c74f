SPECIFICATION FairSessions
CONSTANTS
    t1 = t1
    u1 = u1
    TcpFlows <- OneTcp
    UdpFlows <- OneUdp
    MaxOpens = 3
    MaxPending = 1
    FailingOpens = {3}
CHECK_DEADLOCK FALSE
INVARIANTS
    TypeOKSessions
    OneTunnelThread
    DisconnectedIsIdle
    PromiseSetOnce
    NoLostWakeup
    PollsOwnTun
    ForegroundWhileRunning
    WritesToOwnTun
PROPERTIES
    StopHeeded
    OnlyBlockedRemain

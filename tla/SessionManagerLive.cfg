SPECIFICATION FairSpec
CONSTANTS
    t1 = t1
    t2 = t2
    u1 = u1
    o1 = o1
    o2 = o2
    o3 = o3
    None = None
    TcpFlows <- OneTcp
    UdpFlows <- OneUdp
    Objects <- TwoObjects
    PipeCap = 1
    MaxPackets = 4

CHECK_DEADLOCK FALSE
PROPERTIES
    RemovalCompletes
    TunnelReturns

SPECIFICATION Spec
CONSTANTS
    t1 = t1
    t2 = t2
    u1 = u1
    o1 = o1
    o2 = o2
    o3 = o3
    None = None
    TcpFlows <- TwoTcp
    UdpFlows <- OneUdp
    Objects <- ThreeObjects
    PipeCap = 2
    MaxPackets = 5
SYMMETRY ObjectSymmetry
CHECK_DEADLOCK FALSE
INVARIANTS
    TypeOK
    NoDangling
    OneSessionPerFlow
    RemoveOwn
    ProtectBeforeConnect
    SynFiltered
    RoutedInOrder
    OnlyBurstsDeadlock
PROPERTIES
    ImplementsFlowTable
    WedgeStays

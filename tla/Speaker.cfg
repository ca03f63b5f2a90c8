CONSTANTS
    n1 = n1
    n2 = n2
    u1 = u1
    u2 = u2
    s1 = s1
    d = d
    agg = agg
    Self = Self
    None = None
    NodePeers = {n1, n2}
    Upstreams = {u1, u2}
    SubPrefixes = {s1}
    Foreign = {d}
    Aggregate = agg
    MaxPending = 2
    BGPFaults = FALSE
    KernelFaults = TRUE
    CoreRestarts = TRUE
SPECIFICATION FairSpec
INVARIANTS
    SpeakerTypeOK
    FIBFollowsRIB
    OnlyPlannedRoutes
    NodeRoutesStayInside
    KernelRoutesAreOffered
PROPERTIES
    RemovedNodeLeavesKernel

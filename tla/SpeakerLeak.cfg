CONSTANTS
    n1 = n1
    n2 = n2
    u1 = u1
    s1 = s1
    d = d
    agg = agg
    Self = Self
    None = None
    NodePeers = {n1, n2}
    Upstreams = {u1}
    SubPrefixes = {s1}
    Foreign = {d}
    Aggregate = agg
    MaxPending = 2
    BGPFaults = TRUE
    KernelFaults = FALSE
    CoreRestarts = FALSE
SPECIFICATION Spec
CHECK_DEADLOCK FALSE
INVARIANTS
    NodeRoutesStayInside

CONSTANTS
    n1 = n1
    n2 = n2
    k1 = k1
    k1b = k1b
    k2 = k2
    None = None
    Nodes = {n1, n2}
    Keys = {k1, k1b, k2}
    KeyOwner <- OwnerOfTwoKeys
    Slots = {s1, s2}
    NumIPs = 2
    NumSubnets = 1
    RequestsOverlap = FALSE
    NetlinkFaults = TRUE
    BGPFaults = TRUE
    CoreRestarts = TRUE
    NodesFallSilent = TRUE
    KeysPersist = FALSE
    OperatorRemoves = TRUE
    MaxAttempts = 1
    MaxDisturbances = 2
SPECIFICATION FleetSpec
SYMMETRY SlotSymmetry
INVARIANTS
    FleetTypeOK
    TunnelLeadsToLessee
    AgentKnowsItsLease
    RoutesAreTheLessees

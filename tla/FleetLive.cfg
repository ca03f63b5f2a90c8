CONSTANTS
    n1 = n1
    n2 = n2
    k1 = k1
    k1b = k1b
    k2 = k2
    None = None
    Nodes = {n1, n2}
    Keys = {k1, k2}
    KeyOwner <- OwnerOfOneEach
    Slots = {s1, s2}
    NumIPs = 2
    NumSubnets = 2
    RequestsOverlap = FALSE
    NetlinkFaults = FALSE
    BGPFaults = FALSE
    CoreRestarts = FALSE
    NodesFallSilent = FALSE
    KeysPersist = TRUE
    OperatorRemoves = FALSE
    MaxAttempts = 2
    MaxDisturbances = 2
SPECIFICATION FairFleetSpec
PROPERTIES
    RouteComesBack

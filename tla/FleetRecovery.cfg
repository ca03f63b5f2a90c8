CONSTANTS
    n1 = n1
    n2 = n2
    k1 = k1
    k1b = k1b
    k2 = k2
    None = None
    Nodes = {n1}
    Keys = {k1}
    KeyOwner <- OwnerOfOne
    Slots = {s1, s2}
    NumIPs = 1
    NumSubnets = 1
    RequestsOverlap = FALSE
    NetlinkFaults = FALSE
    BGPFaults = FALSE
    CoreRestarts = FALSE
    NodesFallSilent = TRUE
    KeysPersist = TRUE
    OperatorRemoves = FALSE
    MaxAttempts = 2
    MaxDisturbances = 1
SPECIFICATION FairFleetSpec
PROPERTIES
    RouteComesBack

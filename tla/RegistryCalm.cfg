CONSTANTS
    n1 = n1
    n2 = n2
    n3 = n3
    k1 = k1
    k1b = k1b
    k2 = k2
    k3 = k3
    None = None
    Nodes = {n1, n2, n3}
    Keys = {k1, k2, k3}
    KeyOwner <- OwnerOfThree
    Slots = {s1, s2}
    NumIPs = 2
    NumSubnets = 3
    RequestsOverlap = FALSE
    NetlinkFaults = FALSE
    BGPFaults = FALSE
    CoreRestarts = FALSE
    NodesFallSilent = TRUE
SPECIFICATION Spec
SYMMETRY NodeSymmetry
INVARIANTS
    TypeOK
    LeaseIsBooked
    DownMeansWithdrawn
    HeartbeatRestoresTunnel
PROPERTIES
    RegistryLeases
    NeighbourNotStolen

CONSTANTS
    n1 = n1
    n2 = n2
    n3 = n3
    k1 = k1
    k1b = k1b
    k2 = k2
    k3 = k3
    None = None
    Nodes = {n1, n2}
    Keys = {k1, k1b, k2}
    KeyOwner <- OwnerOfTwoKeys
    Slots = {s1, s2}
    NumIPs = 2
    NumSubnets = 1
    RequestsOverlap = TRUE
    NetlinkFaults = FALSE
    BGPFaults = TRUE
    CoreRestarts = TRUE
    NodesFallSilent = FALSE
SPECIFICATION Spec
SYMMETRY SlotSymmetry
INVARIANTS
    CriticalSectionOwnsLock
    NoLeakedAddresses
    RefusalsAreJustified
    AddressesConserved
PROPERTIES
    LeaseStable
    GhostsAreLateAdds

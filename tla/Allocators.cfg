CONSTANTS
    Nodes = {n1, n2, n3}
    None = None
    NumSubnets = 4
    NumIPs = 4
    AddrBits = 6
    OctetBits = 2
SPECIFICATION AllocatorsSpec
CHECK_DEADLOCK FALSE
INVARIANTS
    SubnetTypeOK
    WGIPTypeOK
    AddressesConserved
    AddrTypeOK
    AggregateIsPartitioned
    PoolIsTheRange
PROPERTIES
    SubnetsAreAPool
    WGIPsAreAPool
    LoopsShrink
    LoopsEnd

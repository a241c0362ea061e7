SPECIFICATION Spec
CONSTANTS
    p1 = p1
    p2 = p2
    Peer <- MCPeers
    Num = 2
    MaxBit = 2
    MaxEvents = 1
INVARIANTS AvailableExact InformedOnce
SYMMETRY MCSymmetry

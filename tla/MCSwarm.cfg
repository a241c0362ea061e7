SPECIFICATION FairSpec
CONSTANTS
    p1 = p1
    p2 = p2
    Peer <- MCPeers
    TorCap = 1
    PeerCap = 1
    MaxEvents = 1
INVARIANTS GoodbyeIsLast
PROPERTIES KillCompletes PeersEnd RequestReturns
CHECK_DEADLOCK FALSE

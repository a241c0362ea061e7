SPECIFICATION FairSpec
CONSTANTS
    p1 = p1
    p2 = p2
    Peer <- MCPeer
    Loads <- MCLoads
    Req = {1, 2}
    MaxUnchoking = 1
    MaxQueued = 0
    ReqQ = 1
    WriterCap = 2
CHECK_DEADLOCK FALSE
INVARIANTS UnchokingExact AnsweredOnce
PROPERTIES Answered ComesBack

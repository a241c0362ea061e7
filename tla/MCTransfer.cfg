SPECIFICATION FairSpec
CONSTANTS
    p1 = p1
    p2 = p2
    w1 = w1
    Peer <- MCPeer
    Fast <- MCFast
    Writer <- MCWriter
    N = 2
    ShortLast = TRUE
    maxInFlight = 2
    EventCap = 1
    Starts <- MCStarts
 
PROPERTIES LoopReturns GoneIsNoticed
CHECK_DEADLOCK FALSE

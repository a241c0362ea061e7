CONSTANTS
    Num = 2
    Chunks = 2
    LastChunks = 1
    p1 = p1
    w1 = w1
    f1 = f1
    f2 = f2
    e1 = e1
    Nil = Nil
    Zero = Zero
    Peer <- MCPeer
    Webseed <- MCWebseed
    Corrupt <- MCCorrupt
    Finaliser <- MCFinaliser
    Expirer <- MCExpirer
SPECIFICATION FairSpec
INVARIANTS ReadVerified CountExact Attribution
PROPERTIES HashStable StoreSpec DelTerminates
CHECK_DEADLOCK FALSE

SPECIFICATION HandshakeFairSpec
CONSTANTS
    KeyLen = 7
    PadMax = 2
    HeaderLen = 2
    HashLen = 2
    IdLen = 2
    ReqLen = 2
    VcLen = 2
    SelLen = 2
    IaLen = 2
    MaxMsg = 2
CHECK_DEADLOCK FALSE
INVARIANTS Agreement StreamIntact RefusedForCause
PROPERTIES Settles

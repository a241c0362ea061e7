SPECIFICATION MetadataFairSpec
CONSTANTS
    good = good
    other = other
    wrong = wrong
    Peer <- MCPeers
    Good <- MCGood
    Claim <- MCClaim
    TrueSize = 3
    ChunkSize = 2
    Wrap = 2
    MaxAsk = 2
    MaxVotes = 2
    MaxBad = 1
 
PROPERTIES Completes

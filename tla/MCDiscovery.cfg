SPECIFICATION FairSpec
CONSTANTS
    Settings <- MCSettings
    Scheme <- MCScheme
    Reachable = {"v4"}
    Intervals = {0, 10}
    Retries = {0, 30}
    Step = 20
    Forever = 40
    Tries = 2
    MaxLaunched = 1
    EventsCap = 1
    TorCap = 1
    MaxFound = 1
    Casts <- MCCasts
CHECK_DEADLOCK FALSE
  
PROPERTIES Polite TiersServed

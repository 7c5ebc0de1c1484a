SPECIFICATION FairSpec
CONSTANTS
    ClientChunks = 0
    ServerChunks = 2
    PubCap = 1
    WriteCap = 1
    MaxLinkLoss = 1
INVARIANTS
    StreamOrdered
PROPERTIES
    StdinEndEndsClient
    
    TargetEndReachesClient
CHECK_DEADLOCK FALSE

SPECIFICATION Spec
CONSTANTS
    ClientChunks = 2
    ServerChunks = 3
    PubCap = 1
    WriteCap = 1
    MaxLinkLoss = 0
INVARIANTS
    TypeOK
    StreamIntact
    ClosedAfterData
PROPERTIES
    ImplementsPipe
CHECK_DEADLOCK FALSE

\* One client, the broker hands one QoS 1 packet over twice.
SPECIFICATION FairSpec
CONSTANTS
    Clients = {c1}
    HandIDs = {}
    BadIDs = {}
    OldClients = {}
    Server = server
    NoID = noid
    MaxTunnels = 2
    ControlCap = 2
    ClosedCap = 1
    MaxHand = 0
    MaxRedeliver = 1
    MaxLinkLoss = 0
    Faults = {}
INVARIANTS
    TopicsAgree
    RegistryConsistent
    OpenImpliesTracked
    SubscriptionsMatchTunnels
PROPERTIES
    EofEndsClient
    ServerCloseReachesClient
CHECK_DEADLOCK FALSE

\* Two clients, a reliable network and target: the protocol at its best.
SPECIFICATION Spec
CONSTANTS
    Clients = {c1, c2}
    HandIDs = {}
    BadIDs = {}
    OldClients = {}
    Server = server
    NoID = noid
    MaxTunnels = 2
    ControlCap = 1
    ClosedCap = 1
    MaxHand = 0
    MaxRedeliver = 0
    MaxLinkLoss = 0
    Faults = {}
SYMMETRY ClientSymmetry
INVARIANTS
    TypeOK
    TopicsAgree
    SubscribedBeforeData
    OpenImpliesTracked
    ClosedSignalPending
    SubscriptionsMatchTunnels
CHECK_DEADLOCK FALSE

\* The target refuses the connection.
SPECIFICATION FairSpec
CONSTANTS
    Clients = {c1}
    HandIDs = {}
    BadIDs = {}
    OldClients = {}
    Server = server
    NoID = noid
    MaxTunnels = 1
    ControlCap = 2
    ClosedCap = 1
    MaxHand = 0
    MaxRedeliver = 0
    MaxLinkLoss = 0
    Faults = {"dial"}
PROPERTIES
    ConfirmIsAnswered
CHECK_DEADLOCK FALSE

\* A closed packet that comes while the server dials.
SPECIFICATION Spec
CONSTANTS
    Clients = {c1}
    HandIDs = {}
    BadIDs = {}
    OldClients = {}
    Server = server
    NoID = noid
    MaxTunnels = 1
    ControlCap = 2
    ClosedCap = 1
    MaxHand = 0
    MaxRedeliver = 0
    MaxLinkLoss = 0
    Faults = {}
PROPERTIES
    ClosedNotDropped
CHECK_DEADLOCK FALSE

\* One client, one of another version, and a request typed by hand; every failure
\* the code meets, except that nothing is delivered twice (see redelivery.cfg).
SPECIFICATION Spec
CONSTANTS
    Clients = {c1, c2}
    HandIDs = {bad}
    BadIDs = {bad}
    OldClients = {c2}
    Server = server
    NoID = noid
    MaxTunnels = 2
    ControlCap = 2
    ClosedCap = 1
    MaxHand = 1
    MaxRedeliver = 0
    MaxLinkLoss = 1
    Faults = {"dial", "subscribe", "qos0"}
INVARIANTS
    RegistryConsistent
    ClosedSignalPending
CHECK_DEADLOCK FALSE

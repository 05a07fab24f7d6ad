\* One loop, or a main loop and an io loop; a write that waits for EPOLLOUT, or none.
SPECIFICATION Spec
CONSTANTS
    MaxThreads = 2
    MaxConns = 3
    Peers <- MCPeers
    MaxQueue = 1
    Setups <- MCSetups
CHECK_DEADLOCK FALSE
INVARIANTS
    TypeOK
    HandlersRunOnLiveConnections
    RegistrationsAgree
    OpenConnectionsServed
    ConnectedBeforeRemoved
    EventsReachTheirConnection
PROPERTIES
    Reclaimed

SPECIFICATION Spec
CONSTANTS
    MaxThreads = 1
    MaxConns = 2
    Peers <- MCPeers
    MaxQueue = 1
    Setups <- MCAloneSetup
CHECK_DEADLOCK FALSE
INVARIANTS
    HandlersRunOnLiveConnections

\* One request of any kind, and everything that can go wrong with it.
SPECIFICATION FairSpec
CONSTANTS
    MaxReq = 1
    MaxBlocks = 2
    FifoLen = 2
    MaxResp = 1
    CmdTicks = 3
    CmdTimeoutW = 2
    DataTicks = 5
    InitDelay = 0
    Late = {"plain", "stop", "read", "write"}
    Damaged = {"plain", "stop", "read", "write"}
    DataDamaged = {"read", "write"}
    MapMayFail = TRUE
    Requests <- AllRequests
PROPERTIES
    RequestIsAnswered
CHECK_DEADLOCK FALSE

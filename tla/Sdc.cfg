\* All kinds of requests.  Commands fail unless that leaves the data engine on.
SPECIFICATION Spec
CONSTANTS
    MaxReq = 2
    MaxBlocks = 2
    FifoLen = 2
    MaxResp = 1
    CmdTicks = 3
    CmdTimeoutW = 2
    DataTicks = 5
    InitDelay = 0
    Late = {"plain", "stop", "write"}
    Damaged = {"plain", "stop"}
    DataDamaged = {"read", "write"}
    MapMayFail = TRUE
    Requests <- AllRequests
INVARIANTS
    CommandResultIsOwn
    EngineIsReady
    CardChangeIsReported
PROPERTIES
    DmaKeepsToBuffer
    OkMeansOwnData
CHECK_DEADLOCK FALSE

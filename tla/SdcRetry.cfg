\* The answer to a read command arrives damaged, and another request follows.
SPECIFICATION Spec
CONSTANTS
    MaxReq = 2
    MaxBlocks = 2
    FifoLen = 2
    MaxResp = 1
    CmdTicks = 3
    CmdTimeoutW = 2
    DataTicks = 5
    InitDelay = 0
    Late = {}
    Damaged = {"read"}
    DataDamaged = {}
    MapMayFail = FALSE
    Requests <- AllRequests
PROPERTIES
    OkMeansOwnData
CHECK_DEADLOCK FALSE

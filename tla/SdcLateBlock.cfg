\* Reads of the boot ROM; the answer to a read command may come too late.
SPECIFICATION PollingSpec
CONSTANTS
    MaxReq = 2
    MaxBlocks = 1
    FifoLen = 2
    MaxResp = 1
    CmdTicks = 6
    CmdTimeoutW = 3
    DataTicks = 12
    InitDelay = 0
    MaxBusy = 0
    Late = {"read"}
    Damaged = {}
    DataDamaged = {}
PROPERTIES
    DiskReadIsOwn
CHECK_DEADLOCK FALSE

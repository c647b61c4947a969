\* Cards of every kind, one read that fails, a card taken out and another put
\* in; polling users of the UART and of the SD card controller one after the other.
SPECIFICATION FirmwareSpec
CONSTANTS
    SS = 8
    Align = 2
    MaxDir = 8
    MaxFat12 = 8
    MaxFat16 = 9
    MaxFat32 = 10
    Disk <- MCDisk
    NoCard = "none"
    Name = "BOOT.ELF"
    MemAddr = 0
    MemEnd = 4
    MemAlt = 40
    MemTop = 44
    Chunk = 20
    Verdict <- MCVerdict
    OtherVerdicts <- MCOtherVerdicts
    Chains <- MCChains
    Image <- MCImage
    MaxReads = 12
    MaxFaults = 1
    MaxSwaps = 2
    RingMask = 3
    MaxRx = 5
    MaxTty = 6
    FlowChars = {}
    NoChar = NoChar
    MaxReq = 1
    MaxBlocks = 2
    FifoLen = 2
    MaxResp = 1
    CmdTicks = 3
    CmdTimeoutW = 2
    DataTicks = 5
    InitDelay = 0
    MaxBusy = 1
    Late = {"plain", "stop", "read", "write"}
    Damaged = {"plain", "stop", "read", "write"}
    DataDamaged = {"read", "write"}
INVARIANTS
    WindowHoldsSector
    CursorIsTrue
    ImageIsFile
    RomMemoryIsKept
    VerdictIsTrue
    PolledCharsInOrder
    PolledEngineIsReady
PROPERTIES
    LoaderSpec
    FirmwareIsLive
CHECK_DEADLOCK FALSE

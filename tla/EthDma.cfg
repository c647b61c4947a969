SPECIFICATION Spec
CONSTANTS
    WordBytes = 4
    BurstSize = 4
    PageWords = 8
    AxisWidths = {1, 4}
    TxPackets <- Packets
    RxBuffers <- Buffers
    FrameSizes <- Frames
    MemoryBytes = 52
    RegBits = 1
    DataBits = 2
    PhyReset <- MCPhyReset
    MaxGivenUp = 1
INVARIANTS
    TxStreamIsPacket
    TxBurstIsLegal
    RxStaysInBuffer
    RxFrameIsStored
    RxBurstIsLegal
    MdioOkIsTrue
PROPERTY
    EnginesFinish

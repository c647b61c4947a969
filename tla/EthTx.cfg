\* Transmit side in a ring of four slots; one receive buffer at most.
SPECIFICATION Spec
CONSTANTS
    RingMask = 3
    RxBufs = {r1}
    TxBufs = {t1, t2, t3, t4}
    NoBuf = NoBuf
    MtuMayGrow = FALSE
    AllocMayFail = FALSE
SYMMETRY BufferSymmetry
INVARIANTS
    StoppedQueueHasPacketOut
    XmitNeverSpins
PROPERTIES
    TxImplementsDmaRing
CHECK_DEADLOCK FALSE

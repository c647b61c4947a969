\* Receive side in a ring of four slots, with changes of MTU and failing
\* allocation; at most one packet to send at a time.
SPECIFICATION Spec
CONSTANTS
    RingMask = 3
    RxBufs = {r1, r2, r3}
    TxBufs = {t1}
    NoBuf = NoBuf
    MtuMayGrow = TRUE
    AllocMayFail = TRUE
SYMMETRY BufferSymmetry
INVARIANTS
    NoBufferLostOrShared
    NoLostInterrupt
    DmaIntoOwnedBuffer
PROPERTIES
    RxImplementsDmaRing
CHECK_DEADLOCK FALSE

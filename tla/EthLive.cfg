\* Progress, in the smallest rings, two slots, where axi_eth_xmit has to spin;
\* receive buffers may not be available.
SPECIFICATION FairSpec
CONSTANTS
    RingMask = 1
    RxBufs = {r1, r2}
    TxBufs = {t1, t2}
    NoBuf = NoBuf
    MtuMayGrow = FALSE
    AllocMayFail = TRUE
INVARIANTS
    RingsAreWellFormed
PROPERTIES
    PacketsComplete
    FramesAreTaken
CHECK_DEADLOCK FALSE

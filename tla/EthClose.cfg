\* axi_eth_dev_close against its own comment.
SPECIFICATION FairSpec
CONSTANTS
    RingMask = 1
    RxBufs = {r1}
    TxBufs = {t1}
    NoBuf = NoBuf
    MtuMayGrow = FALSE
    AllocMayFail = FALSE
PROPERTIES
    CloseTerminates
CHECK_DEADLOCK FALSE

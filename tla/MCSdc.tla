------------------------------- MODULE MCSdc --------------------------------
(***************************************************************************)
(* Instances of SdcDriver for TLC.                                         *)
(***************************************************************************)
EXTENDS SdcProps

Shape(kind, blocks, sbc, stop) ==
    [kind |-> kind, blocks |-> blocks, sbc |-> sbc, stop |-> stop]

\* A command without data, a read and a write of one block, and both of two
\* blocks, with the number of blocks announced (sbc) or not.
AllRequests ==
    {Shape("plain", 1, FALSE, FALSE), Shape("read", 1, FALSE, FALSE),
     Shape("write", 1, FALSE, FALSE), Shape("read", 2, FALSE, TRUE),
     Shape("write", 2, TRUE, TRUE)}
=============================================================================

-------------------------------- MODULE Ring --------------------------------
(***************************************************************************)
(* Positions of a ring of RingMask + 1 slots, as the Ethernet descriptor   *)
(* rings and the UART FIFOs index it: a pointer of the NIC or of the UART  *)
(* is a register of log2(RingMask + 1) bits that wraps, the driver masks   *)
(* its own copy with RingMask.                                             *)
(***************************************************************************)
EXTENDS Integers

CONSTANT RingMask           \* highest slot number: priv->ring_mask

\* A ring needs two slots at least: one is always kept empty.
ASSUME RingMaskAssumption == RingMask \in Nat \ {0}

Slots == 0 .. RingMask

\* (i + 1) & ring_mask
RingNext(i) == IF i = RingMask THEN 0 ELSE i + 1

\* (to - from) & ring_mask: the number of steps that lead from one to the other
RingDist(from, to) ==
    IF from <= to THEN to - from ELSE to - from + RingMask + 1

\* (i + n) & ring_mask
RingAdvance(i, n) ==
    IF i + n <= RingMask THEN i + n ELSE i + n - (RingMask + 1)

\* The slots from "from" (included) to "to" (excluded).
RingWindow(from, to) ==
    {s \in Slots : RingDist(from, s) < RingDist(from, to)}

\* What f holds in that window, in ring order.
RingSeq(f, from, to) ==
    [n \in 1 .. RingDist(from, to) |-> f[RingAdvance(from, n - 1)]]
=============================================================================

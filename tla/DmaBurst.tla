------------------------------ MODULE DmaBurst ------------------------------
(***************************************************************************)
(* What the two burst engines of the Ethernet NIC, ethernet/ethernet.v,    *)
(* share: words as functions from byte offsets, the pointers of a FIFO of  *)
(* BurstSize words and the length of a burst.                              *)
(*                                                                         *)
(* A byte is a number that names where it comes from, 0 stands for a byte  *)
(* of zeros (what a shift leaves behind) and Junk for a byte no one gave a *)
(* value to.                                                               *)
(***************************************************************************)
EXTENDS Integers

CONSTANTS WordBytes,    \* bytes of a bus word (dma_word_bits / 8)
          BurstSize,    \* words of the FIFO of an engine
          PageWords,    \* words of the 4 KB page no burst may cross
          AxisWidths    \* bytes of a word of the streams (axis_word_bits / 8)

ASSUME DmaAssumption ==
    /\ WordBytes \in Nat \ {0}
    /\ BurstSize \in Nat /\ BurstSize > 1
    /\ PageWords \in Nat \ {0} /\ PageWords % BurstSize = 0
    /\ AxisWidths \subseteq {1, WordBytes}

\* The width of the streams is a parameter of the design: all boards take a
\* byte or a bus word.
VARIABLE axisBytes

Bytes == 0 .. WordBytes - 1
Fifo == 0 .. BurstSize - 1
\* Mutant: wait for a whole burst.
MinBurstWhole == BurstSize

MinBurst == BurstSize \div 2
Junk == -1
ZeroWord == [k \in Bytes |-> 0]

\* A word shifted towards its first byte (>>), and away from it (<<).
ShiftDown(word, n) ==
    [k \in Bytes |-> IF k + n < WordBytes THEN word[k + n] ELSE 0]
ShiftUp(word, n) == [k \in Bytes |-> IF k >= n THEN word[k - n] ELSE 0]

\* Bitwise or: the bytes of a word where the other one has zeros.
Or(u, v) == [k \in Bytes |-> CASE u[k] = 0 -> v[k]
                               [] v[k] = 0 -> u[k]
                               [] OTHER -> Junk]

NextPtr(p) == IF p = BurstSize - 1 THEN 0 ELSE p + 1

\* Words in the FIFO, and words it has room for: it is never filled up, since
\* equal pointers mean empty.
DataLen(inp, out) == IF out <= inp THEN inp - out ELSE inp - out + BurstSize
FreeLen(inp, out) == BurstSize - 1 - DataLen(inp, out)

\* Mutant: bursts that do not look at the page.
BurstLenAnyPage(first, wanted) == wanted

\* Words of a burst at word "first", less one: as many as wanted, but no
\* further than the page.  When the page is nearer than the burst is long, the
\* distance to its end is in the low bits of the address.
BurstLen(first, wanted) ==
    IF PageWords - 1 - (first % PageWords) >= wanted
        THEN wanted ELSE BurstSize - 1 - (first % BurstSize)

\* A burst of len + 1 words at "first" stays in one page.
InOnePage(first, len) == (first % PageWords) + len < PageWords
=============================================================================

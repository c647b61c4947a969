--------------------------- MODULE EthDma_proofs ---------------------------
(***************************************************************************)
(* Proofs about the burst engines of the Ethernet NIC, for every width of  *)
(* the bus, every FIFO and page size, and all packets and buffers: bursts, *)
(* pages and FIFOs of both engines, and that the transmit engine hands the *)
(* MAC the bytes of the packet, in order and no other.  At the end, that   *)
(* an MDIO call which reports success is true, for every PHY.              *)
(***************************************************************************)
EXTENDS EthTxDma, EthRxDma, EthMdio, TLAPS

-----------------------------------------------------------------------------
(* Bursts and pages.                                                       *)

\* Quotient and remainder.
LEMMA DivMod ==
    ASSUME NEW n \in Nat, NEW d \in Nat \ {0}
    PROVE  /\ n \div d \in Nat /\ n % d \in 0 .. d - 1
           /\ n = d * (n \div d) + (n % d)
  OBVIOUS

LEMMA QuotientUnique ==
    ASSUME NEW n \in Nat, NEW d \in Nat \ {0}, NEW q \in Nat, NEW r \in 0 .. d - 1,
           n = d * q + r
    PROVE  n % d = r /\ n \div d = q
  OBVIOUS

\* The position in a page is that in a FIFO-sized piece of it, plus pieces: when
\* less than a FIFO's words are left of the page, the low bits tell how many.
LEMMA LowBits ==
    ASSUME NEW n \in Nat
    PROVE  /\ n % BurstSize \in 0 .. BurstSize - 1
           /\ n % PageWords \in 0 .. PageWords - 1
           /\ BurstSize - 1 - (n % BurstSize) <= PageWords - 1 - (n % PageWords)
<1> DEFINE k == PageWords \div BurstSize
           q == n \div PageWords
           r == n % PageWords
           j == r \div BurstSize
           s == r % BurstSize
<1>0. BurstSize \in Nat \ {0} /\ PageWords \in Nat \ {0}
      /\ PageWords % BurstSize = 0
  BY DmaAssumption
<1>1. k \in Nat /\ PageWords = BurstSize * k
  BY <1>0, DivMod
<1>2. q \in Nat /\ r \in 0 .. PageWords - 1 /\ n = PageWords * q + r
  BY <1>0, DivMod
<1> HIDE DEF k, q, r
<1>3. j \in Nat /\ s \in 0 .. BurstSize - 1 /\ r = BurstSize * j + s
  <2>1. r \in Nat
    BY <1>0, <1>2
  <2> QED BY <1>0, <2>1, DivMod
<1> HIDE DEF j, s
<1>4. n % BurstSize = s
  <2>1. k * q + j \in Nat /\ n = BurstSize * (k * q + j) + s
    BY <1>0, <1>1, <1>2, <1>3
  <2> QED BY <1>0, <1>3, <2>1, QuotientUnique
<1>5. j <= k - 1
  <2>1. BurstSize * j < BurstSize * k
    BY <1>0, <1>1, <1>2, <1>3
  <2>2. ~(j >= k)
    <3>1. ASSUME j >= k PROVE BurstSize * j >= BurstSize * k
      BY <1>0, <1>1, <1>3, <3>1
    <3> QED BY <2>1, <3>1, <1>0, <1>1, <1>3
  <2> QED BY <2>2, <1>1, <1>3
<1>6. BurstSize * j <= BurstSize * (k - 1)
  BY <1>0, <1>1, <1>3, <1>5
<1>7. BurstSize * (k - 1) = PageWords - BurstSize
  BY <1>0, <1>1
<1>8. r - s <= PageWords - BurstSize
  BY <1>0, <1>1, <1>3, <1>6, <1>7
<1> QED
  BY <1>0, <1>2, <1>3, <1>4, <1>8 DEF r

\* A burst is no longer than wanted, and stays in its page.
LEMMA BurstInPage ==
    ASSUME NEW first \in Nat, NEW wanted \in Fifo
    PROVE  /\ BurstLen(first, wanted) \in 0 .. wanted
           /\ InOnePage(first, BurstLen(first, wanted))
<1> DEFINE inFifo == first % BurstSize
           inPage == first % PageWords
<1>1. /\ inFifo \in 0 .. BurstSize - 1 /\ inPage \in 0 .. PageWords - 1
      /\ BurstSize - 1 - inFifo <= PageWords - 1 - inPage
  BY LowBits
<1>2. BurstLen(first, wanted) =
        IF PageWords - 1 - inPage >= wanted THEN wanted ELSE BurstSize - 1 - inFifo
  BY DEF BurstLen
<1>3. InOnePage(first, BurstLen(first, wanted)) <=>
        inPage + BurstLen(first, wanted) < PageWords
  BY DEF InOnePage
<1> HIDE DEF inFifo, inPage
<1> QED
  BY <1>1, <1>2, <1>3, DmaAssumption DEF Fifo

\* The next word of a burst that has one.
LEMMA NextInPage ==
    ASSUME NEW first \in Nat, NEW len \in Nat \ {0}, InOnePage(first, len)
    PROVE  InOnePage(first + 1, len - 1)
<1> DEFINE q == first \div PageWords
           r == first % PageWords
<1>0. PageWords \in Nat \ {0}
  BY DmaAssumption
<1>1. q \in Nat /\ r \in 0 .. PageWords - 1 /\ first = PageWords * q + r
  BY <1>0, DivMod
<1>2. r + len < PageWords
  BY DEF InOnePage
<1> HIDE DEF q, r
<1>3. (first + 1) % PageWords = r + 1
  <2>1. /\ first + 1 \in Nat /\ r + 1 \in 0 .. PageWords - 1
        /\ first + 1 = PageWords * q + (r + 1)
    BY <1>0, <1>1, <1>2
  <2> QED BY <1>0, <1>1, <2>1, QuotientUnique
<1> QED
  BY <1>0, <1>1, <1>2, <1>3 DEF InOnePage

-----------------------------------------------------------------------------
(* The FIFO.                                                               *)

LEMMA FifoTypes ==
    ASSUME NEW inp \in Fifo, NEW out \in Fifo
    PROVE  /\ 0 \in Fifo
           /\ NextPtr(inp) \in Fifo
           /\ DataLen(inp, out) \in Fifo /\ FreeLen(inp, out) \in Fifo
           /\ DataLen(inp, out) = 0 <=> inp = out
  BY DmaAssumption DEF Fifo, NextPtr, DataLen, FreeLen

\* A word put into a FIFO that has room, and one taken from a FIFO that has one.
LEMMA FifoPut ==
    ASSUME NEW inp \in Fifo, NEW out \in Fifo, FreeLen(inp, out) # 0
    PROVE  /\ FreeLen(NextPtr(inp), out) = FreeLen(inp, out) - 1
           /\ DataLen(NextPtr(inp), out) = DataLen(inp, out) + 1
  BY DmaAssumption DEF Fifo, NextPtr, DataLen, FreeLen

LEMMA FifoTake ==
    ASSUME NEW inp \in Fifo, NEW out \in Fifo, inp # out
    PROVE  /\ FreeLen(inp, NextPtr(out)) = FreeLen(inp, out) + 1
           /\ DataLen(inp, NextPtr(out)) = DataLen(inp, out) - 1
  BY DmaAssumption DEF Fifo, NextPtr, DataLen, FreeLen

\* The pointers of a FIFO are positions in the stream of words, less whole
\* rounds.
LEMMA FifoNext ==
    ASSUME NEW m \in Nat
    PROVE  m % BurstSize \in Fifo /\ (m + 1) % BurstSize = NextPtr(m % BurstSize)
<1> DEFINE B == BurstSize
           j == m \div B
           s == m % B
<1>0. B \in Nat \ {0}
  BY DmaAssumption
<1>1. j \in Nat /\ s \in 0 .. B - 1 /\ m = B * j + s
  BY <1>0, DivMod
<1>2. NextPtr(m % BurstSize) = IF s = B - 1 THEN 0 ELSE s + 1
  BY DEF NextPtr
<1> HIDE DEF B, j, s
<1>3. CASE s = B - 1
  <2>1. m + 1 = B * (j + 1) + 0 /\ j + 1 \in Nat /\ 0 \in 0 .. B - 1 /\ m + 1 \in Nat
    BY <1>0, <1>1, <1>3
  <2>2. (m + 1) % B = 0
    BY <1>0, <2>1, QuotientUnique
  <2> QED BY <1>1, <1>2, <1>3, <2>2 DEF B, s, Fifo
<1>4. CASE s # B - 1
  <2>1. m + 1 = B * j + (s + 1) /\ s + 1 \in 0 .. B - 1 /\ m + 1 \in Nat
    BY <1>0, <1>1, <1>4
  <2>2. (m + 1) % B = s + 1
    BY <1>0, <1>1, <2>1, QuotientUnique
  <2> QED BY <1>1, <1>2, <1>4, <2>2 DEF B, s, Fifo
<1> QED BY <1>3, <1>4

\* Less than a FIFO apart, the pointers tell how far.
LEMMA FifoDistance ==
    ASSUME NEW q \in Nat, NEW p \in Nat, q <= p, p - q < BurstSize
    PROVE  /\ DataLen(p % BurstSize, q % BurstSize) = p - q
           /\ p % BurstSize = q % BurstSize <=> p = q
<1> DEFINE B == BurstSize
           i == p \div B
           s == p % B
           j == q \div B
           r == q % B
<1>0. B \in Nat \ {0}
  BY DmaAssumption
<1>1. /\ i \in Nat /\ s \in 0 .. B - 1 /\ p = B * i + s
      /\ j \in Nat /\ r \in 0 .. B - 1 /\ q = B * j + r
  BY <1>0, DivMod
<1>2. DataLen(p % BurstSize, q % BurstSize) = IF r <= s THEN s - r ELSE s - r + B
  BY DEF DataLen
<1>3. p - q < B
  OBVIOUS
<1> HIDE DEF B, i, s, j, r
<1>4. i = j \/ i = j + 1
  <2>1. ~(i < j)
    <3> SUFFICES ASSUME i < j PROVE FALSE
      OBVIOUS
    <3>1. B * (i + 1) <= B * j /\ B * (i + 1) = B * i + B
      BY <1>0, <1>1
    <3> QED BY <1>0, <1>1, <3>1
  <2>2. ~(i > j + 1)
    <3> SUFFICES ASSUME i > j + 1 PROVE FALSE
      OBVIOUS
    <3>1. B * (j + 2) <= B * i /\ B * (j + 2) = B * j + B + B
      BY <1>0, <1>1
    <3> QED BY <1>0, <1>1, <1>3, <3>1
  <2> QED BY <1>1, <2>1, <2>2
<1>5. CASE i = j
  <2>1. p - q = s - r /\ r <= s
    BY <1>0, <1>1, <1>5
  <2> QED BY <1>1, <1>2, <2>1 DEF B, s, r
<1>6. CASE i = j + 1
  <2>1. B * i = B * j + B
    BY <1>0, <1>1, <1>6
  <2>2. p - q = s - r + B /\ s < r
    BY <1>0, <1>1, <1>3, <2>1
  <2> QED BY <1>0, <1>1, <1>2, <2>2 DEF B, s, r
<1> QED BY <1>4, <1>5, <1>6

-----------------------------------------------------------------------------
(* The transmit engine.                                                    *)

\* A packet has a word to read until its last word has come.
TxWordsLeft == tx_start /\ tx_axis_start /\ ~tx_m_axi_stop => tx_word_left >= 1

\* No burst is under way once the last word has come, nor is its address.
TxBusAtRest == /\ tx_m_axi_stop => ~m_axi_rd_cyc
               /\ m_axi_arvalid => m_axi_rd_cyc

TxInv == TxTypeOK /\ TxBurstIsLegal /\ TxWordsLeft /\ TxBusAtRest

\* Words of a packet.
LEMMA TxLoadWords ==
    ASSUME NEW p \in TxPackets
    PROVE  (p.size + (p.addr % WordBytes) + WordBytes - 1) \div WordBytes \in Nat \ {0}
<1> DEFINE n == p.size + (p.addr % WordBytes) + WordBytes - 1
           q == n \div WordBytes
<1>0. WordBytes \in Nat \ {0} /\ p.size \in Nat \ {0} /\ p.addr \in Nat
  BY DmaAssumption, TxAssumption
<1>1. p.addr % WordBytes \in 0 .. WordBytes - 1
  BY <1>0, DivMod
<1>2. n \in Nat /\ n >= WordBytes
  BY <1>0, <1>1
<1> HIDE DEF n
<1>3. q \in Nat /\ n % WordBytes \in 0 .. WordBytes - 1
      /\ n = WordBytes * q + (n % WordBytes)
  BY <1>0, <1>2, DivMod
<1> HIDE DEF q
<1>4. q # 0
  BY <1>0, <1>2, <1>3
<1>5. q \in Nat \ {0}
  BY <1>3, <1>4
<1> QED BY <1>5 DEF q, n

\* The stream side only makes room.
LEMMA TxStreamMakesRoom ==
    ASSUME TxTypeOK, TxTake \/ TxHold
    PROVE  /\ tx_burst_out' \in Fifo /\ tx_axis_stop' \in BOOLEAN
           /\ FreeLen(tx_burst_inp, tx_burst_out') \in Fifo
           /\ FreeLen(tx_burst_inp, tx_burst_out') >= TxFree
<1> USE DEF TxTypeOK
<1>1. CASE TxHold
  BY <1>1, FifoTypes, DmaAssumption DEF TxHold, txStream, TxFree, Fifo
<1>2. CASE TxTake
  <2>0. tx_burst_inp # tx_burst_out
    BY <1>2 DEF TxTake, TxValid
  <2>1. tx_burst_out' \in {tx_burst_out, NextPtr(tx_burst_out)}
    BY <1>2 DEF TxTake
  <2>2. NextPtr(tx_burst_out) \in Fifo
    BY FifoTypes
  <2>3. tx_axis_stop' \in BOOLEAN
    <3>1. tx_axis_stop' = (tx_axis_stop \/ TxLast)
      BY <1>2 DEF TxTake
    <3> QED BY <3>1
  <2>4. FreeLen(tx_burst_inp, tx_burst_out') >= TxFree
    <3>1. TxFree \in Int
      BY FifoTypes DEF TxFree, Fifo
    <3> QED BY <2>0, <2>1, <3>1, FifoTake DEF TxFree
  <2> QED BY <2>1, <2>2, <2>3, <2>4, FifoTypes
<1> QED BY <1>1, <1>2

LEMMA TxInvInit ==
    ASSUME TxInit PROVE TxInv
<1>1. 0 \in Fifo
  BY DmaAssumption DEF Fifo
<1>2. TxTypeOK
  BY <1>1 DEF TxInit, TxTypeOK
<1> QED
  BY <1>2 DEF TxInit, TxInv, TxBurstIsLegal, TxWordsLeft, TxBusAtRest

LEMMA TxInvIdle ==
    ASSUME TxInv, NEW start \in BOOLEAN, TxIdle(start)
    PROVE  TxInv'
<1>1. ~m_axi_rd_cyc /\ ~m_axi_rd_cyc' /\ ~m_axi_arvalid'
  BY DEF TxInv, TxBurstIsLegal, TxBusAtRest, TxIdle, txBus
<1>2. TxTypeOK'
  BY FifoTypes, DmaAssumption
     DEF TxInv, TxTypeOK, TxIdle, txPacket, txBus, Fifo
<1> QED
  BY <1>1, <1>2 DEF TxInv, TxBurstIsLegal, TxWordsLeft, TxBusAtRest, TxIdle

LEMMA TxInvLoad ==
    ASSUME TxInv, TxLoad
    PROVE  TxInv'
<1>1. ~m_axi_rd_cyc /\ ~m_axi_rd_cyc' /\ ~m_axi_arvalid'
  BY DEF TxInv, TxBurstIsLegal, TxBusAtRest, TxLoad, txBus
<1>2. PICK p \in TxPackets :
        /\ tx_pkt' = p
        /\ tx_word_left' =
              (p.size + (p.addr % WordBytes) + WordBytes - 1) \div WordBytes
  BY DEF TxLoad
<1>3. tx_word_left' \in Nat \ {0}
  BY <1>2, TxLoadWords
<1>4. tx_pkt' \in [addr : Nat, size : Nat]
  BY <1>2, TxAssumption
<1>5. TxTypeOK'
  BY <1>3, <1>4 DEF TxInv, TxTypeOK, TxLoad, txBus
<1> QED
  BY <1>1, <1>3, <1>5
     DEF TxInv, TxBurstIsLegal, TxWordsLeft, TxBusAtRest, TxLoad

\* What the stream side of an edge leaves to the bus side.
LEMMA TxRunFrame ==
    ASSUME TxInv, TxRun
    PROVE  /\ tx_axis_start' = tx_axis_start /\ tx_axis_start = TRUE
           /\ tx_pkt' = tx_pkt
           /\ tx_start' \in BOOLEAN
           /\ ~tx_m_axi_stop => tx_start' = TRUE
  BY DEF TxInv, TxTypeOK, TxRun, txPacket

LEMMA TxInvRun ==
    ASSUME TxInv, TxRun
    PROVE  TxInv'
<1> USE DEF TxInv, TxTypeOK
<1>0. /\ tx_burst_out' \in Fifo /\ tx_axis_stop' \in BOOLEAN
      /\ FreeLen(tx_burst_inp, tx_burst_out') \in Fifo
      /\ FreeLen(tx_burst_inp, tx_burst_out') >= TxFree
      /\ TxFree \in Fifo
  <2>1. TxTake \/ TxHold
    BY DEF TxRun
  <2> QED BY <2>1, TxStreamMakesRoom, FifoTypes DEF TxFree
<1>1. /\ tx_axis_start' = tx_axis_start /\ tx_axis_start = TRUE
      /\ tx_pkt' = tx_pkt /\ tx_start' \in BOOLEAN /\ tx_start = TRUE
      /\ ~tx_m_axi_stop => tx_start' = TRUE
  BY TxRunFrame DEF TxRun
<1>2. CASE TxStartBurst
  <2>0. tx_pkt.addr \in Nat /\ WordBytes \in Nat \ {0}
    BY DmaAssumption
  <2>1. TxBurstFirst \in Nat
    <3>1. tx_pkt.addr + tx_pkt_offs \in Nat
      BY <2>0
    <3> QED BY <2>0, <3>1, DivMod DEF TxBurstFirst
  <2>2. tx_word_left >= 1
    BY <1>1, <1>2 DEF TxStartBurst, TxWordsLeft
  <2>3. /\ TxBurstWanted \in Fifo
        /\ TxBurstWanted + 1 <= TxFree /\ TxBurstWanted + 1 <= tx_word_left
    <3>1. TxFree \in 1 .. BurstSize - 1
      BY <1>0, <1>2, DmaAssumption DEF TxStartBurst, Fifo
    <3>2. tx_word_left \in Nat \ {0}
      BY <2>2
    <3> HIDE DEF TxInv, TxTypeOK
    <3> QED BY <3>1, <3>2, DmaAssumption DEF TxBurstWanted, Fifo
  <2>4. /\ TxBurstLen \in 0 .. TxBurstWanted
        /\ InOnePage(TxBurstFirst, TxBurstLen)
    BY <2>1, <2>3, BurstInPage DEF TxBurstLen
  <2>5. /\ m_axi_rd_cyc' = TRUE /\ m_axi_arvalid' = TRUE
        /\ rdNext' = TxBurstFirst /\ rdLeft' = TxBurstLen + 1
        /\ tx_burst_inp' = tx_burst_inp /\ tx_m_axi_stop' = tx_m_axi_stop
        /\ tx_word_left' = tx_word_left /\ tx_pkt_offs' = tx_pkt_offs
        /\ tx_m_axi_stop = FALSE
    BY <1>2 DEF TxStartBurst, txFifo, txRead
  <2>6. rdLeft' \in Nat /\ rdLeft' >= 1 /\ rdLeft' - 1 = TxBurstLen
    BY <2>3, <2>4, <2>5 DEF Fifo
  <2>7. TxTypeOK'
    BY <1>0, <1>1, <2>1, <2>5, <2>6
  <2>8. TxBurstIsLegal'
    <3>1. rdLeft' <= TxFree' /\ rdLeft' <= tx_word_left'
      BY <1>0, <2>3, <2>4, <2>5 DEF TxFree, Fifo
    <3>2. InOnePage(rdNext', rdLeft' - 1)
      BY <2>4, <2>5, <2>6
    <3> QED BY <1>1, <2>5, <2>6, <3>1, <3>2 DEF TxBurstIsLegal, InOnePage
  <2> QED BY <2>2, <2>5, <2>7, <2>8 DEF TxWordsLeft, TxBusAtRest
<1>3. CASE TxAddress
  <2>1. /\ m_axi_rd_cyc' = m_axi_rd_cyc /\ m_axi_arvalid' = FALSE
        /\ m_axi_rd_cyc = TRUE
        /\ rdNext' = rdNext /\ rdLeft' = rdLeft
        /\ tx_burst_inp' = tx_burst_inp /\ tx_m_axi_stop' = tx_m_axi_stop
        /\ tx_word_left' = tx_word_left /\ tx_pkt_offs' = tx_pkt_offs
    BY <1>3 DEF TxAddress, txFifo, txRead
  <2>2. TxTypeOK'
    BY <1>0, <1>1, <2>1
  <2>3. rdLeft <= TxFree'
    BY <1>0, <2>1 DEF TxBurstIsLegal, TxFree, Fifo
  <2>4. tx_start' = TRUE
    BY <1>1, <2>1 DEF TxBusAtRest
  <2> QED
    BY <1>1, <2>1, <2>2, <2>3, <2>4
       DEF TxBurstIsLegal, TxWordsLeft, TxBusAtRest, InOnePage
<1>4. CASE TxBeat
  <2>1. /\ m_axi_rd_cyc = TRUE /\ m_axi_arvalid' = FALSE
        /\ tx_m_axi_stop = FALSE
        /\ rdLeft > 0 /\ rdLeft <= TxFree /\ rdLeft <= tx_word_left
        /\ InOnePage(rdNext, rdLeft - 1)
    BY <1>4 DEF TxBeat, TxBurstIsLegal, TxBusAtRest
  <2>2. /\ rdNext' = rdNext + 1 /\ rdLeft' = rdLeft - 1
        /\ tx_word_left' = tx_word_left - 1
    BY <1>4 DEF TxBeat
  <2>3. /\ tx_m_axi_stop' \in BOOLEAN /\ m_axi_rd_cyc' \in BOOLEAN
        /\ tx_m_axi_stop' <=> tx_word_left <= 1
        /\ m_axi_rd_cyc' <=> rdLeft # 1
    <3>1. /\ tx_m_axi_stop' = (tx_m_axi_stop \/ tx_word_left <= 1)
          /\ m_axi_rd_cyc' = (rdLeft # 1)
      BY <1>4 DEF TxBeat
    <3> QED BY <2>1, <3>1
  <2>4. tx_burst_inp' \in {tx_burst_inp, NextPtr(tx_burst_inp)}
    BY <1>4 DEF TxBeat, TxPush
  <2>5. /\ tx_burst_inp' \in Fifo
        /\ FreeLen(tx_burst_inp', tx_burst_out') >= TxFree - 1
    <3>1. NextPtr(tx_burst_inp) \in Fifo
      BY FifoTypes
    <3>2. FreeLen(tx_burst_inp, tx_burst_out') # 0
      BY <1>0, <2>1 DEF Fifo
    <3>3. FreeLen(NextPtr(tx_burst_inp), tx_burst_out')
            = FreeLen(tx_burst_inp, tx_burst_out') - 1
      BY <1>0, <3>2, FifoPut
    <3> QED BY <1>0, <2>4, <3>1, <3>3 DEF Fifo
  <2>6. tx_pkt_offs' \in Nat
    <3>1. TxShift \in 0 .. WordBytes - 1
      BY DmaAssumption, DivMod DEF TxShift
    <3>2. tx_pkt_offs' \in {tx_pkt.size, WordBytes - TxShift, tx_pkt_offs + WordBytes}
      BY <1>4 DEF TxBeat
    <3> QED BY <3>1, <3>2, DmaAssumption
  <2>7. TxTypeOK'
    <3>1. rdNext' \in Nat /\ rdLeft' \in Nat /\ tx_word_left' \in Nat
      BY <2>1, <2>2
    <3> QED BY <1>0, <1>1, <2>1, <2>3, <2>5, <2>6, <3>1
  <2>8. TxBurstIsLegal'
    <3> SUFFICES ASSUME m_axi_rd_cyc' PROVE
          /\ tx_start' /\ tx_axis_start' /\ rdLeft' > 0
          /\ InOnePage(rdNext', rdLeft' - 1)
          /\ rdLeft' <= TxFree' /\ rdLeft' <= tx_word_left'
      BY DEF TxBurstIsLegal, InOnePage
    <3>1. rdLeft - 1 \in Nat \ {0}
      BY <2>1, <2>3
    <3>2. InOnePage(rdNext + 1, rdLeft - 1 - 1)
      BY <2>1, <3>1, NextInPage
    <3>3. rdLeft' <= TxFree'
      BY <1>0, <2>1, <2>2, <2>5, FifoTypes DEF TxFree, Fifo
    <3> QED BY <1>1, <2>1, <2>2, <2>3, <3>1, <3>2, <3>3
  <2>9. ~tx_m_axi_stop' => tx_word_left' >= 1
    BY <2>1, <2>2, <2>3
  <2>10. tx_m_axi_stop' => ~m_axi_rd_cyc'
    BY <2>1, <2>3
  <2> QED BY <2>1, <2>7, <2>8, <2>9, <2>10 DEF TxWordsLeft, TxBusAtRest
<1>5. CASE TxTail \/ TxBusWait
  <2>1. /\ m_axi_rd_cyc' = m_axi_rd_cyc /\ m_axi_arvalid' = m_axi_arvalid
        /\ rdNext' = rdNext /\ rdLeft' = rdLeft
        /\ tx_m_axi_stop' = tx_m_axi_stop
        /\ tx_word_left' = tx_word_left /\ tx_pkt_offs' = tx_pkt_offs
    BY <1>5 DEF TxTail, TxBusWait, txRead, txBus
  <2>2. /\ tx_burst_inp' \in {tx_burst_inp, NextPtr(tx_burst_inp)}
        /\ m_axi_rd_cyc => tx_burst_inp' = tx_burst_inp
    BY <1>5 DEF TxTail, TxBusWait, TxPush, txFifo
  <2>3. tx_burst_inp' \in Fifo
    BY <2>2, FifoTypes
  <2>4. TxTypeOK'
    BY <1>0, <1>1, <2>1, <2>3
  <2>5. m_axi_rd_cyc => rdLeft <= TxFree' /\ tx_start'
    BY <1>0, <1>1, <2>1, <2>2 DEF TxBurstIsLegal, TxBusAtRest, TxFree, Fifo
  <2> QED
    BY <1>1, <2>1, <2>4, <2>5
       DEF TxBurstIsLegal, TxWordsLeft, TxBusAtRest, InOnePage
<1> QED
  BY <1>2, <1>3, <1>4, <1>5 DEF TxRun, TxBusStep

LEMMA TxInvStutter ==
    ASSUME TxInv, UNCHANGED txVars
    PROVE  TxInv'
  BY DEF txVars, txCtl, txPacket, txStream, txFifo, txRead, txBus, TxInv,
     TxTypeOK, TxBurstIsLegal, TxWordsLeft, TxBusAtRest, TxFree, InOnePage

\* Every read burst of the transmit engine stays in its page, finds room in the
\* FIFO for all its words and reads none after the packet; the type invariant
\* and what the engine has still to read are the strengthening.
THEOREM TxBurstsAreLegal == TxSpec => [](TxTypeOK /\ TxBurstIsLegal)
<1>1. TxInit => TxInv
  BY TxInvInit
<1>2. TxInv /\ [TxNext]_txVars => TxInv'
  <2> SUFFICES ASSUME TxInv, [TxNext]_txVars PROVE TxInv'
    OBVIOUS
  <2>1. CASE \E start \in BOOLEAN : TxIdle(start)
    BY <2>1, TxInvIdle
  <2>2. CASE TxLoad
    BY <2>2, TxInvLoad
  <2>3. CASE TxRun
    BY <2>3, TxInvRun
  <2>4. CASE UNCHANGED txVars
    BY <2>4, TxInvStutter
  <2> QED BY <2>1, <2>2, <2>3, <2>4 DEF TxNext
<1>3. TxInv => TxTypeOK /\ TxBurstIsLegal
  BY DEF TxInv
<1> QED BY <1>1, <1>2, <1>3, PTL DEF TxSpec

-----------------------------------------------------------------------------
(* The receive engine.                                                     *)

\* The words there are for the data of a burst.
RxWords == RxData + (IF RxOneMore THEN 1 ELSE 0)

\* A burst is under way only while the bus side runs, and counts its words.
RxBusAtRest ==
    /\ m_axi_wvalid => m_axi_wr_cyc /\ m_axi_wcnt <= m_axi_awlen
    /\ m_axi_wr_cyc => rx_axis_start /\ ~rx_m_axi_stop

\* The buffer has room for a word until rx_m_axi_stop0, which stops the engine
\* at the end of the burst.
RxRoomLeft ==
    /\ rx_start /\ ~rx_axis_start => ~rx_m_axi_stop0
    /\ rx_start /\ rx_axis_start /\ ~rx_m_axi_stop0 => rx_word_left >= 1
    /\ rx_start /\ rx_axis_start /\ ~m_axi_wr_cyc /\ rx_m_axi_stop0 => rx_m_axi_stop

RxInv == RxTypeOK /\ RxBurstIsLegal /\ RxBusAtRest /\ RxRoomLeft

LEMMA RxConstants ==
    /\ WordBytes \in Nat \ {0} /\ BurstSize \in Nat \ {0, 1}
    /\ AxisWidths \subseteq Nat \ {0} /\ SizeRange = 16384
  BY DmaAssumption DEF SizeRange

\* Words of a buffer.
LEMMA RxLoadWords ==
    ASSUME NEW b \in RxBuffers
    PROVE  (b.size + (b.addr % WordBytes) + WordBytes - 1) \div WordBytes
              \in 1 .. SizeRange - 1
<1> DEFINE n == b.size + (b.addr % WordBytes) + WordBytes - 1
           q == n \div WordBytes
<1>0. /\ WordBytes \in Nat \ {0} /\ SizeRange = 16384
      /\ b.addr \in Nat /\ b.size \in Nat
      /\ b.size > WordBytes /\ b.size + WordBytes <= SizeRange
  BY RxConstants, RxAssumption
<1>a. WordBytes \in Nat \ {0} /\ b.addr \in Nat
  BY <1>0
<1>1. b.addr % WordBytes \in 0 .. WordBytes - 1
  BY <1>a, DivMod
<1>2. n \in Nat /\ n >= WordBytes /\ n <= SizeRange - 1 + WordBytes - 1
  BY <1>0, <1>1
<1> HIDE DEF n
<1>b. n \in Nat
  BY <1>2
<1>3. q \in Nat /\ n % WordBytes \in 0 .. WordBytes - 1
      /\ n = WordBytes * q + (n % WordBytes)
  BY <1>a, <1>b, DivMod
<1> HIDE DEF q
<1>4. q # 0
  BY <1>0, <1>2, <1>3
<1>5. q <= SizeRange - 1
  <2>1. WordBytes * q <= SizeRange - 1 + WordBytes - 1
    BY <1>0, <1>2, <1>3
  <2>2. q >= SizeRange => WordBytes * q >= WordBytes * SizeRange
    BY <1>0, <1>3
  <2>3. WordBytes * SizeRange >= SizeRange + WordBytes - 1
    BY <1>0
  <2> QED BY <1>0, <1>3, <2>1, <2>2, <2>3
<1>c. q \in Nat /\ SizeRange \in Nat
  BY <1>0, <1>3
<1>6. q \in 1 .. SizeRange - 1
  BY <1>c, <1>4, <1>5
<1> QED BY <1>6 DEF q, n

\* The stream side keeps its types and only adds data.
LEMMA RxStreamTypes ==
    ASSUME RxTypeOK, RxTake \/ RxNoWord, UNCHANGED <<frame, rxPacket>>
    PROVE  /\ rx_burst_inp' \in Fifo /\ rx_axis_stop' \in BOOLEAN
           /\ given' \in 0 .. frame.size
           /\ rx_axis_byte_offs' \in Nat /\ rx_axis_keep' \in Nat
<1> USE DEF RxTypeOK
<1>1. CASE RxNoWord
  BY <1>1 DEF RxNoWord, rxStream
<1>2. CASE RxTake
  <2>0. axisBytes \in Nat \ {0} /\ frame.size \in Nat
    <3>1. axisBytes \in AxisWidths /\ frame.size \in Nat
      OBVIOUS
    <3> HIDE DEF RxTypeOK
    <3> QED BY <3>1, RxConstants
  <2>1. rx_burst_inp' \in {rx_burst_inp, NextPtr(rx_burst_inp)}
    BY <1>2 DEF RxTake
  <2>2. rx_axis_stop' = (given + axisBytes >= frame.size)
    BY <1>2 DEF RxTake
  <2>3. given' = IF given + axisBytes >= frame.size THEN frame.size
                 ELSE given + axisBytes
    BY <1>2 DEF RxTake
  <2>4. rx_axis_keep' \in {frame.size - given, rx_axis_keep}
    BY <1>2 DEF RxTake
  <2>5. rx_axis_byte_offs' \in {0, rx_axis_byte_offs, rx_axis_byte_offs + axisBytes}
    BY <1>2, <2>0 DEF RxTake
  <2>6. rx_burst_inp' \in Fifo
    BY <2>1, FifoTypes
  <2>7. rx_axis_stop' \in BOOLEAN
    BY <2>2
  <2>8. given' \in 0 .. frame.size
    BY <2>0, <2>3
  <2>9. rx_axis_byte_offs' \in Nat /\ rx_axis_keep' \in Nat
    BY <2>0, <2>4, <2>5
  <2> QED BY <2>6, <2>7, <2>8, <2>9
<1> QED BY <1>1, <1>2

LEMMA RxStreamAddsData ==
    ASSUME RxTypeOK, RxTake \/ RxNoWord, UNCHANGED <<frame, rxPacket>>,
           ~rx_m_axi_stop
    PROVE  /\ rx_burst_inp' \in Fifo
           /\ DataLen(rx_burst_inp', rx_burst_out) \in Fifo
           /\ DataLen(rx_burst_inp', rx_burst_out) >= RxData
           /\ RxOneMore => RxOneMore'
<1> USE DEF RxTypeOK
<1>0. rx_burst_inp' \in Fifo /\ RxData \in Int
      /\ DataLen(rx_burst_inp', rx_burst_out) \in Fifo
  BY RxStreamTypes, FifoTypes DEF RxData, Fifo
<1>1. CASE RxNoWord
  <2>1. /\ rx_burst_inp' = rx_burst_inp /\ rx_axis_stop' = rx_axis_stop
        /\ rx_axis_keep' = rx_axis_keep /\ rx_buf' = rx_buf
        /\ axisBytes' = axisBytes
    BY <1>1 DEF RxNoWord, rxStream, rxPacket
  <2> QED
    BY <1>0, <2>1 DEF RxData, RxOneMore, RxKeepCount, RxShift, RxOffset
<1>2. CASE RxTake
  <2>1. ~RxOneMore
    BY <1>2 DEF RxTake, RxReady, RxOneMore
  <2>2. NextPtr(rx_burst_inp) # rx_burst_out
    BY <1>2 DEF RxTake, RxReady
  <2>3. FreeLen(rx_burst_inp, rx_burst_out) # 0
    BY <2>2, RxConstants DEF FreeLen, DataLen, NextPtr, Fifo
  <2>4. rx_burst_inp' \in {rx_burst_inp, NextPtr(rx_burst_inp)}
    BY <1>2 DEF RxTake
  <2>5. DataLen(NextPtr(rx_burst_inp), rx_burst_out) = RxData + 1
    BY <2>3, FifoPut DEF RxData
  <2> QED BY <1>0, <2>1, <2>4, <2>5 DEF RxData
<1> QED BY <1>1, <1>2

LEMMA RxInvInit ==
    ASSUME RxInit PROVE RxInv
<1>1. 0 \in Fifo /\ 0 \in 0 .. SizeRange - 1
  BY DmaAssumption, RxConstants DEF Fifo
<1>2. /\ frame \in [size : Nat, bad : BOOLEAN]
      /\ rx_buf \in [addr : Nat, size : Nat]
      /\ given \in 0 .. frame.size
  <2>1. frame = NoFrame /\ given = 0 /\ rx_buf = [addr |-> 0, size |-> 0]
    BY DEF RxInit
  <2> QED BY <2>1 DEF NoFrame
<1>3. RxTypeOK
  BY <1>1, <1>2 DEF RxInit, RxTypeOK
<1> QED
  BY <1>3 DEF RxInit, RxInv, RxBurstIsLegal, RxBusAtRest, RxRoomLeft

LEMMA RxInvIdle ==
    ASSUME RxInv, RxIdle
    PROVE  RxInv'
<1> USE DEF RxInv
<1>1. /\ ~m_axi_wr_cyc /\ ~m_axi_wvalid
      /\ m_axi_wr_cyc' = m_axi_wr_cyc /\ m_axi_wvalid' = m_axi_wvalid
  BY DEF RxIdle, rxBus, RxBurstIsLegal, RxBusAtRest
<1>2. 0 \in Fifo
  BY DmaAssumption DEF Fifo
<1>3. frame' \in [size : Nat, bad : BOOLEAN] /\ given' \in 0 .. frame'.size
  <2>1. CASE UNCHANGED rxMac
    BY <2>1 DEF RxTypeOK, rxMac
  <2>2. CASE frame' \in [size : FrameSizes, bad : BOOLEAN] /\ given' = 0
    <3>1. frame'.size \in Nat /\ frame' \in [size : Nat, bad : BOOLEAN]
      BY <2>2, RxAssumption
    <3> QED BY <2>2, <3>1
  <2> QED BY <2>1, <2>2 DEF RxIdle
<1>4. RxTypeOK'
  BY <1>2, <1>3 DEF RxTypeOK, RxIdle, rxBus, rxPacket
<1> QED
  BY <1>1, <1>4 DEF RxBurstIsLegal, RxBusAtRest, RxRoomLeft, RxIdle

LEMMA RxInvLoad ==
    ASSUME RxInv, RxLoad
    PROVE  RxInv'
<1> USE DEF RxInv
<1>1. /\ ~m_axi_wr_cyc /\ ~m_axi_wvalid
      /\ m_axi_wr_cyc' = m_axi_wr_cyc /\ m_axi_wvalid' = m_axi_wvalid
  BY DEF RxLoad, RxBusAtRest
<1>2. PICK b \in RxBuffers :
        /\ rx_buf' = b /\ rx_pkt_addr' = b.addr
        /\ rx_axis_byte_offs' \in {0, b.addr % WordBytes}
        /\ rx_word_left' =
              (b.size + (b.addr % WordBytes) + WordBytes - 1) \div WordBytes
  <2>1. PICK b \in RxBuffers :
          /\ rx_buf' = b /\ rx_pkt_addr' = b.addr
          /\ rx_axis_byte_offs' = IF axisBytes > 1 THEN 0 ELSE b.addr % WordBytes
          /\ rx_word_left' =
                (b.size + (b.addr % WordBytes) + WordBytes - 1) \div WordBytes
    BY DEF RxLoad
  <2> QED BY <2>1
<1>3. rx_word_left' \in 1 .. SizeRange - 1
  BY <1>2, RxLoadWords
<1>4. rx_buf' \in [addr : Nat, size : Nat] /\ b.addr \in Nat
  BY <1>2, RxAssumption
<1>5. rx_axis_byte_offs' \in Nat
  <2> DEFINE off == b.addr % WordBytes
  <2>0. WordBytes \in Nat \ {0} /\ b.addr \in Nat
    BY <1>4, RxConstants
  <2>1. off \in 0 .. WordBytes - 1
    BY <2>0, DivMod
  <2>2. off \in Nat
    <3> HIDE DEF off
    <3> QED BY <2>1
  <2>3. rx_axis_byte_offs' \in {0, off}
    BY <1>2
  <2> HIDE DEF off
  <2> QED BY <2>2, <2>3
<1>c. SizeRange \in Nat
  BY RxConstants
<1>6. rx_word_left' >= 1 /\ rx_word_left' \in 0 .. SizeRange - 1
  <2> DEFINE size == SizeRange
  <2>1. size \in Nat /\ rx_word_left' \in 1 .. size - 1
    BY <1>3, <1>c
  <2> HIDE DEF size
  <2>2. rx_word_left' >= 1 /\ rx_word_left' \in 0 .. size - 1
    BY <2>1
  <2> QED BY <2>2 DEF size
<1>7. RxTypeOK'
  BY <1>2, <1>4, <1>5, <1>6 DEF RxTypeOK, RxLoad, rxMac
<1> QED
  BY <1>1, <1>6, <1>7 DEF RxBurstIsLegal, RxBusAtRest, RxRoomLeft, RxLoad

\* What every edge of a frame in progress does, whatever the bus does.
LEMMA RxRunStream ==
    ASSUME RxInv, RxRun
    PROVE  /\ rx_start = TRUE /\ rx_start' \in BOOLEAN
           /\ rx_axis_start = TRUE /\ rx_axis_start' = TRUE
           /\ ~rx_m_axi_stop => rx_start' = TRUE
           /\ rx_buf' = rx_buf /\ axisBytes' = axisBytes /\ frame' = frame
           /\ rx_burst_inp' \in Fifo /\ rx_axis_stop' \in BOOLEAN
           /\ given' \in 0 .. frame'.size
           /\ rx_axis_byte_offs' \in Nat /\ rx_axis_keep' \in Nat
           /\ ~rx_m_axi_stop =>
                /\ DataLen(rx_burst_inp', rx_burst_out) \in Fifo
                /\ DataLen(rx_burst_inp', rx_burst_out) >= RxData
                /\ RxOneMore => RxOneMore'
<1>1. /\ rx_start = TRUE /\ rx_start' \in BOOLEAN
      /\ rx_axis_start = TRUE /\ rx_axis_start' = TRUE
      /\ ~rx_m_axi_stop => rx_start' = TRUE
      /\ UNCHANGED <<frame, rxPacket>> /\ (RxTake \/ RxNoWord)
  BY DEF RxInv, RxTypeOK, RxRun
<1>2. rx_buf' = rx_buf /\ axisBytes' = axisBytes /\ frame' = frame
  BY <1>1 DEF rxPacket
<1> QED
  BY <1>1, <1>2, RxStreamTypes, RxStreamAddsData DEF RxInv

\* The address of the next word stays an address.
LEMMA RxAddressType ==
    ASSUME RxTypeOK, RxBeat
    PROVE  rx_pkt_addr' \in Nat
<1> USE DEF RxTypeOK
<1>0. WordBytes \in Nat \ {0}
  BY RxConstants
<1>1. RxShift \in Nat
  <2>1. RxOffset \in Nat
    BY <1>0, DivMod DEF RxOffset
  <2> QED BY <2>1 DEF RxShift
<1>2. RxKeepCount \in Nat
  BY <1>1 DEF RxKeepCount
<1>3. CASE RxLastWord
  <2>1. rx_pkt_addr' = rx_pkt_addr + rx_axis_byte_offs + RxKeepCount
                         - (IF RxOneMore THEN WordBytes ELSE 0)
    BY <1>3 DEF RxBeat
  <2>2. RxOneMore => RxKeepCount > WordBytes
    BY DEF RxOneMore
  <2>3. CASE RxOneMore
    <3>1. rx_pkt_addr' = rx_pkt_addr + rx_axis_byte_offs + RxKeepCount - WordBytes
      BY <2>1, <2>3
    <3>2. RxKeepCount > WordBytes
      BY <2>2, <2>3
    <3> QED BY <1>0, <1>2, <3>1, <3>2
  <2>4. CASE ~RxOneMore
    <3>1. rx_pkt_addr' = rx_pkt_addr + rx_axis_byte_offs + RxKeepCount - 0
      BY <2>1, <2>4
    <3> QED BY <1>2, <3>1
  <2> QED BY <2>3, <2>4
<1>4. CASE ~RxLastWord
  <2>1. RxBurstFirst \in Nat
    BY <1>0, DivMod DEF RxBurstFirst
  <2>2. rx_pkt_addr' = (RxBurstFirst + 1) * WordBytes
    BY <1>4 DEF RxBeat
  <2> QED BY <1>0, <2>1, <2>2
<1> QED BY <1>3, <1>4

\* The words there are, as data come and at most n of them go.
LEMMA RxWordsGrow ==
    ASSUME NEW n \in Nat, RxData \in Nat, RxData' \in Nat,
           RxData' >= RxData - n, RxOneMore => RxOneMore'
    PROVE  RxWords \in Nat /\ RxWords' \in Nat /\ RxWords' >= RxWords - n
<1> DEFINE x == IF RxOneMore THEN 1 ELSE 0
           y == IF RxOneMore' THEN 1 ELSE 0
<1>2. x \in 0 .. 1 /\ y \in 0 .. 1 /\ x <= y
  <2>1. CASE RxOneMore
    BY <2>1
  <2>2. CASE ~RxOneMore
    <3>1. x = 0 /\ (y = 0 \/ y = 1)
      BY <2>2
    <3> HIDE DEF x, y
    <3> QED BY <3>1
  <2> QED BY <2>1, <2>2
<1> HIDE DEF x, y
<1> DEFINE d == RxData
           e == RxData'
           w == RxWords
           v == RxWords'
<1>3. /\ d \in Nat /\ e \in Nat /\ e >= d - n
      /\ w = d + x /\ v = e + y
  BY DEF RxWords, x, y
<1> HIDE DEF d, e, w, v
<1>4. w \in Nat /\ v \in Nat /\ v >= w - n
  BY <1>2, <1>3
<1> QED BY <1>4 DEF w, v

\* Words in the FIFO, as a number.
LEMMA RxDataType ==
    ASSUME rx_burst_inp \in Fifo, rx_burst_out \in Fifo
    PROVE  RxData \in 0 .. BurstSize - 1 /\ BurstSize \in Nat \ {0, 1}
<1>1. RxData \in Fifo
  BY FifoTypes DEF RxData
<1> QED BY <1>1, RxConstants DEF Fifo

LEMMA RxInvStartBurst ==
    ASSUME RxInv, RxRun, RxStartBurst
    PROVE  RxInv'
<1>1. /\ rx_start = TRUE /\ rx_axis_start = TRUE /\ rx_axis_start' = TRUE
      /\ rx_m_axi_stop = FALSE /\ rx_start' = TRUE
      /\ DataLen(rx_burst_inp', rx_burst_out) \in Fifo
      /\ DataLen(rx_burst_inp', rx_burst_out) >= RxData
      /\ RxOneMore => RxOneMore'
  BY RxRunStream DEF RxStartBurst, RxInv, RxTypeOK
<1>2. /\ m_axi_wr_cyc' = TRUE /\ m_axi_wvalid' = TRUE /\ m_axi_wcnt' = 0
      /\ m_axi_awaddr' = RxBurstFirst /\ m_axi_awlen' = RxBurstLen
      /\ rx_burst_out' = rx_burst_out
      /\ rx_m_axi_stop0' = rx_m_axi_stop0 /\ rx_m_axi_stop' = rx_m_axi_stop
      /\ rx_pkt_addr' = rx_pkt_addr /\ rx_word_left' = rx_word_left
  BY DEF RxStartBurst, rxWrite, rxFifoOut
<1>3. rx_word_left >= 1 /\ ~rx_m_axi_stop0
  BY <1>1 DEF RxInv, RxRoomLeft, RxStartBurst
<1>4. RxBurstFirst \in Nat
  <2>1. rx_pkt_addr \in Nat
    BY DEF RxInv, RxTypeOK
  <2>2. WordBytes \in Nat \ {0}
    BY RxConstants
  <2> QED BY <2>1, <2>2, DivMod DEF RxBurstFirst
<1>5. RxBurstWanted \in Fifo /\ RxBurstWanted < RxWords
  <2>1. RxData \in 0 .. BurstSize - 1 /\ BurstSize \in Nat \ {0, 1}
    BY RxDataType DEF RxInv, RxTypeOK
  <2>2. rx_word_left \in Nat \ {0}
    BY <1>3, RxConstants DEF RxInv, RxTypeOK
  <2>3. RxData # 0 \/ RxOneMore
    BY DEF RxStartBurst
  <2>4. CASE RxOneMore
    <3>1. /\ RxBurstWanted = (IF rx_word_left >= RxData THEN RxData ELSE rx_word_left) - 0
          /\ RxWords = RxData + 1
      BY <2>4 DEF RxBurstWanted, RxWords
    <3> QED BY <2>1, <2>2, <3>1 DEF Fifo
  <2>5. CASE ~RxOneMore
    <3>1. /\ RxBurstWanted = (IF rx_word_left >= RxData THEN RxData ELSE rx_word_left) - 1
          /\ RxWords = RxData + 0 /\ RxData # 0
      BY <2>3, <2>5 DEF RxBurstWanted, RxWords
    <3> QED BY <2>1, <2>2, <3>1 DEF Fifo
  <2> QED BY <2>4, <2>5
<1>6. /\ RxBurstLen \in 0 .. RxBurstWanted
      /\ InOnePage(RxBurstFirst, RxBurstLen)
  BY <1>4, <1>5, BurstInPage DEF RxBurstLen
<1>7. RxBurstLen \in Fifo /\ 0 \in Fifo /\ 0 <= RxBurstLen
  BY <1>5, <1>6, RxConstants DEF Fifo
<1>8. RxTypeOK'
  BY <1>1, <1>2, <1>4, <1>7, RxRunStream DEF RxInv, RxTypeOK
<1>9. RxBurstIsLegal'
  <2>0. RxData \in Nat /\ RxData' \in Nat /\ RxData' >= RxData - 0
    <3>1. RxData \in Nat
      BY RxDataType DEF RxInv, RxTypeOK
    <3>2. RxData' = DataLen(rx_burst_inp', rx_burst_out)
      BY <1>2 DEF RxData
    <3> QED BY <1>1, <3>1, <3>2, RxConstants DEF Fifo
  <2>1. RxWords \in Nat /\ RxWords' \in Nat /\ RxWords' >= RxWords - 0
    <3>1. RxOneMore => RxOneMore'
      BY <1>1
    <3>2. 0 \in Nat
      OBVIOUS
    <3> QED BY <2>0, <3>1, <3>2, RxWordsGrow
  <2>3. RxWords' > m_axi_awlen' - m_axi_wcnt'
    <3>1. RxBurstWanted \in Nat /\ RxBurstLen \in Nat /\ RxBurstLen <= RxBurstWanted
      BY <1>5, <1>6, RxConstants DEF Fifo
    <3> QED BY <1>2, <1>5, <2>1, <3>1
  <2>4. InOnePage(m_axi_awaddr', m_axi_awlen')
    BY <1>2, <1>6
  <2> QED BY <1>1, <2>3, <2>4 DEF RxBurstIsLegal, InOnePage, RxWords
<1> QED
  BY <1>1, <1>2, <1>3, <1>7, <1>8, <1>9 DEF RxInv, RxBusAtRest, RxRoomLeft

\* A count that is more than one does not get to zero.
LEMMA CountDown ==
    ASSUME NEW d \in Nat \ {0}, NEW w \in 2 .. d - 1
    PROVE  (w - 1) % d >= 1
<1> DEFINE n == w - 1
<1>1. n \in Nat /\ n \in 0 .. d - 1 /\ n = d * 0 + n /\ n >= 1 /\ 0 \in Nat
  OBVIOUS
<1> HIDE DEF n
<1>2. n % d = n
  BY <1>1, QuotientUnique
<1>3. n % d >= 1
  BY <1>1, <1>2
<1> QED BY <1>3 DEF n

LEMMA RxInvBeat ==
    ASSUME RxInv, RxRun, RxBeat
    PROVE  RxInv'
<1>1. /\ m_axi_wr_cyc = TRUE /\ m_axi_wvalid = TRUE
      /\ m_axi_wcnt <= m_axi_awlen
      /\ rx_m_axi_stop = FALSE
      /\ InOnePage(m_axi_awaddr, m_axi_awlen)
      /\ RxWords > m_axi_awlen - m_axi_wcnt
  BY DEF RxInv, RxTypeOK, RxBurstIsLegal, RxBusAtRest, RxBeat, RxWords
<1>2. /\ rx_start = TRUE /\ rx_axis_start = TRUE /\ rx_axis_start' = TRUE
      /\ rx_start' = TRUE
      /\ rx_burst_inp' \in Fifo
      /\ DataLen(rx_burst_inp', rx_burst_out) \in Fifo
      /\ DataLen(rx_burst_inp', rx_burst_out) >= RxData
      /\ RxOneMore => RxOneMore'
  BY <1>1, RxRunStream
<1>3. /\ m_axi_wr_cyc' = m_axi_wr_cyc /\ m_axi_awaddr' = m_axi_awaddr
      /\ m_axi_awlen' = m_axi_awlen /\ rx_m_axi_stop' = rx_m_axi_stop
  BY DEF RxBeat
<1>4. rx_burst_out' = IF RxData # 0 THEN NextPtr(rx_burst_out) ELSE rx_burst_out
  BY DEF RxBeat, rxFifoOut
<1>5. IF m_axi_wcnt = m_axi_awlen
          THEN m_axi_wvalid' = FALSE /\ m_axi_wcnt' = m_axi_wcnt
          ELSE m_axi_wcnt' = m_axi_wcnt + 1 /\ m_axi_wvalid' = m_axi_wvalid
  BY DEF RxBeat
<1>6. IF RxLastWord \/ rx_word_left <= 1 THEN rx_m_axi_stop0' = TRUE
          ELSE rx_m_axi_stop0' = rx_m_axi_stop0
  BY DEF RxBeat
<1>7. rx_word_left' = (rx_word_left - 1) % SizeRange
  BY DEF RxBeat
<1>a. /\ m_axi_awlen \in Fifo /\ m_axi_wcnt \in Fifo /\ rx_burst_out \in Fifo
      /\ rx_word_left \in 0 .. SizeRange - 1 /\ rx_m_axi_stop0 \in BOOLEAN
  <2>1. RxTypeOK
    BY DEF RxInv
  <2> QED BY <2>1 DEF RxTypeOK
<1>c. SizeRange \in Nat \ {0}
  BY RxConstants
<1>8. rx_burst_out' \in Fifo
  <2>1. NextPtr(rx_burst_out) \in Fifo
    BY <1>a, FifoTypes
  <2> QED BY <1>4, <1>a, <2>1
<1>9. m_axi_wcnt' \in Fifo /\ m_axi_wvalid' \in BOOLEAN
      /\ m_axi_wcnt' <= m_axi_awlen'
  <2>1. CASE m_axi_wcnt = m_axi_awlen
    <3>1. m_axi_wvalid' = FALSE /\ m_axi_wcnt' = m_axi_wcnt
      BY <1>5, <2>1
    <3>2. m_axi_wvalid' \in BOOLEAN
      BY <3>1
    <3>3. m_axi_wcnt' \in Fifo /\ m_axi_wcnt' <= m_axi_awlen'
      BY <1>1, <1>3, <1>a, <3>1
    <3> QED BY <3>2, <3>3
  <2>2. CASE m_axi_wcnt # m_axi_awlen
    <3>1. m_axi_wvalid' = m_axi_wvalid /\ m_axi_wcnt' = m_axi_wcnt + 1
      BY <1>5, <2>2
    <3>2. m_axi_wcnt + 1 \in Fifo /\ m_axi_wcnt + 1 <= m_axi_awlen
      BY <1>1, <1>a, <2>2, RxConstants DEF Fifo
    <3>3. m_axi_wvalid' \in BOOLEAN
      BY <1>1, <3>1
    <3> QED BY <1>3, <3>1, <3>2, <3>3
  <2> QED BY <2>1, <2>2
<1>10. rx_word_left' \in 0 .. SizeRange - 1
  <2> DEFINE left == rx_word_left - 1
             size == SizeRange
  <2>1. left \in Int /\ size \in Nat \ {0} /\ rx_word_left' = left % size
    BY <1>7, <1>a, <1>c
  <2> HIDE DEF left, size
  <2>2. rx_word_left' \in 0 .. size - 1
    BY <2>1
  <2> QED BY <2>2 DEF size
<1>b. rx_m_axi_stop0' \in BOOLEAN
  <2>1. CASE RxLastWord \/ rx_word_left <= 1
    BY <1>6, <2>1
  <2>2. CASE ~(RxLastWord \/ rx_word_left <= 1)
    <3>1. rx_m_axi_stop0' = rx_m_axi_stop0
      BY <1>6, <2>2
    <3> QED BY <1>a, <3>1
  <2> QED BY <2>1, <2>2
<1>11. ~rx_m_axi_stop0' => rx_word_left' >= 1
  <2>1. CASE RxLastWord \/ rx_word_left <= 1
    BY <1>6, <2>1
  <2>2. CASE ~(RxLastWord \/ rx_word_left <= 1)
    <3>1. ~(rx_word_left <= 1)
      BY <2>2
    <3>2. SizeRange \in Nat \ {0} /\ rx_word_left \in 0 .. SizeRange - 1
      BY <1>a, <1>c
    <3>3. rx_word_left \in 2 .. SizeRange - 1
      BY <3>1, <3>2
    <3>4. (rx_word_left - 1) % SizeRange >= 1
      BY <3>2, <3>3, CountDown
    <3> QED BY <1>7, <3>4
  <2> QED BY <2>1, <2>2
<1>12. RxTypeOK'
  BY <1>1, <1>2, <1>3, <1>8, <1>9, <1>10, <1>b, RxRunStream, RxAddressType
     DEF RxInv, RxTypeOK
<1>13. m_axi_wvalid' => RxWords' > m_axi_awlen' - m_axi_wcnt'
  <2> SUFFICES ASSUME m_axi_wvalid' PROVE RxWords' > m_axi_awlen' - m_axi_wcnt'
    OBVIOUS
  <2>1. m_axi_wcnt # m_axi_awlen /\ m_axi_wcnt' = m_axi_wcnt + 1
    BY <1>5
  <2>2. RxData # 0
    <3>1. CASE RxOneMore
      BY <1>1, <1>a, <2>1, <3>1, RxConstants DEF RxWords, Fifo
    <3>2. CASE ~RxOneMore
      BY <1>1, <1>a, <2>1, <3>2, RxConstants DEF RxWords, Fifo
    <3> QED BY <3>1, <3>2
  <2>3. rx_burst_out' = NextPtr(rx_burst_out)
    BY <1>4, <2>2
  <2>4. RxData \in 0 .. BurstSize - 1 /\ BurstSize \in Nat \ {0, 1}
    BY RxDataType DEF RxInv, RxTypeOK
  <2>5. DataLen(rx_burst_inp', rx_burst_out) # 0
    BY <1>2, <2>2, <2>4 DEF Fifo
  <2>6. rx_burst_inp' # rx_burst_out
    BY <1>2, <1>a, <2>5, FifoTypes
  <2>7. RxData' = DataLen(rx_burst_inp', rx_burst_out) - 1
    BY <1>2, <1>a, <2>3, <2>6, FifoTake DEF RxData
  <2>8. RxData \in Nat /\ RxData' \in Nat /\ RxData' >= RxData - 1
    BY <1>2, <2>4, <2>5, <2>7 DEF Fifo
  <2>9. RxWords \in Nat /\ RxWords' \in Nat /\ RxWords' >= RxWords - 1
    <3>1. RxOneMore => RxOneMore'
      BY <1>2
    <3>2. 1 \in Nat
      OBVIOUS
    <3> QED BY <2>8, <3>1, <3>2, RxWordsGrow
  <2>10. m_axi_wcnt \in Nat /\ m_axi_awlen \in Nat
    BY <1>a, RxConstants DEF Fifo
  <2> QED BY <1>1, <1>3, <2>1, <2>9, <2>10
<1>14. RxBurstIsLegal'
  BY <1>1, <1>2, <1>3, <1>13 DEF RxBurstIsLegal, InOnePage, RxWords
<1> QED
  BY <1>1, <1>2, <1>3, <1>9, <1>11, <1>12, <1>14
     DEF RxInv, RxBusAtRest, RxRoomLeft

\* What holds after every other step of the bus in a frame: the engine may run
\* on, and what it has put on the bus is as it was.
LEMMA RxInvOther ==
    ASSUME RxInv, RxRun, RxBusWait \/ (UNCHANGED <<rx_burst_out, rx_m_axi_stop0,
               rx_m_axi_stop, rx_pkt_addr, rx_word_left, m_axi_wr_cyc,
               m_axi_wvalid, m_axi_awaddr, m_axi_awlen, m_axi_wcnt>>)
    PROVE  RxInv'
<1>1. /\ rx_burst_out' = rx_burst_out /\ rx_m_axi_stop0' = rx_m_axi_stop0
      /\ rx_m_axi_stop' = rx_m_axi_stop
      /\ rx_pkt_addr' = rx_pkt_addr /\ rx_word_left' = rx_word_left
      /\ m_axi_wr_cyc' = m_axi_wr_cyc /\ m_axi_wvalid' = m_axi_wvalid
      /\ m_axi_awaddr' = m_axi_awaddr /\ m_axi_awlen' = m_axi_awlen
      /\ m_axi_wcnt' = m_axi_wcnt
  BY DEF RxBusWait, rxFifoOut, rxWrite, rxBus
<1>2. RxTypeOK'
  BY <1>1, RxRunStream DEF RxInv, RxTypeOK
<1>3. /\ rx_start = TRUE /\ rx_axis_start = TRUE /\ rx_axis_start' = TRUE
      /\ ~rx_m_axi_stop => rx_start' = TRUE
  BY RxRunStream
<1>4. m_axi_wvalid' => RxWords' > m_axi_awlen' - m_axi_wcnt'
  <2> SUFFICES ASSUME m_axi_wvalid PROVE RxWords' > m_axi_awlen - m_axi_wcnt
    BY <1>1
  <2>1. RxWords > m_axi_awlen - m_axi_wcnt /\ ~rx_m_axi_stop
    BY DEF RxInv, RxBurstIsLegal, RxBusAtRest, RxWords
  <2>2. /\ DataLen(rx_burst_inp', rx_burst_out) \in Fifo
        /\ DataLen(rx_burst_inp', rx_burst_out) >= RxData
        /\ RxOneMore => RxOneMore'
    BY <2>1, RxRunStream
  <2>3. RxData \in Nat /\ RxData' \in Nat /\ RxData' >= RxData - 0
    <3>1. RxData \in Nat
      BY RxDataType DEF RxInv, RxTypeOK
    <3>2. RxData' = DataLen(rx_burst_inp', rx_burst_out)
      BY <1>1 DEF RxData
    <3> QED BY <2>2, <3>1, <3>2, RxConstants DEF Fifo
  <2>4. RxWords \in Nat /\ RxWords' \in Nat /\ RxWords' >= RxWords - 0
    <3>1. RxOneMore => RxOneMore'
      BY <2>2
    <3>2. 0 \in Nat
      OBVIOUS
    <3> QED BY <2>3, <3>1, <3>2, RxWordsGrow
  <2>5. m_axi_wcnt \in Nat /\ m_axi_awlen \in Nat
    BY RxConstants DEF RxInv, RxTypeOK, Fifo
  <2> QED BY <2>1, <2>4, <2>5
<1>5. m_axi_wr_cyc => ~rx_m_axi_stop
  BY DEF RxInv, RxBusAtRest
<1>6. RxBurstIsLegal'
  BY <1>1, <1>3, <1>4, <1>5 DEF RxInv, RxBurstIsLegal, InOnePage, RxWords
<1> QED
  BY <1>1, <1>2, <1>3, <1>6 DEF RxInv, RxBusAtRest, RxRoomLeft

LEMMA RxInvAcknowledge ==
    ASSUME RxInv, RxRun, NEW error \in BOOLEAN, RxAcknowledge(error)
    PROVE  RxInv'
<1>1. /\ rx_burst_out' = rx_burst_out /\ rx_m_axi_stop0' = rx_m_axi_stop0
      /\ rx_m_axi_stop' = (rx_m_axi_stop \/ rx_m_axi_stop0)
      /\ rx_pkt_addr' = rx_pkt_addr /\ rx_word_left' = rx_word_left
      /\ m_axi_wr_cyc' = FALSE /\ m_axi_wvalid' = m_axi_wvalid
      /\ m_axi_wvalid = FALSE
      /\ m_axi_awaddr' = m_axi_awaddr /\ m_axi_awlen' = m_axi_awlen
      /\ m_axi_wcnt' = m_axi_wcnt
  BY DEF RxAcknowledge, rxFifoOut, RxInv, RxTypeOK
<1>2. rx_m_axi_stop' \in BOOLEAN
  BY <1>1
<1>3. RxTypeOK'
  BY <1>1, <1>2, RxRunStream DEF RxInv, RxTypeOK
<1>4. rx_start = TRUE /\ rx_axis_start = TRUE /\ rx_axis_start' = TRUE
  BY RxRunStream
<1>5. RxBurstIsLegal'
  BY <1>1 DEF RxBurstIsLegal
<1>6. RxRoomLeft'
  BY <1>1, <1>4 DEF RxInv, RxRoomLeft
<1> QED
  BY <1>1, <1>3, <1>5, <1>6 DEF RxInv, RxBusAtRest

LEMMA RxInvRun ==
    ASSUME RxInv, RxRun
    PROVE  RxInv'
<1>1. CASE RxStartBurst
  BY <1>1, RxInvStartBurst
<1>2. CASE RxBeat
  BY <1>2, RxInvBeat
<1>3. CASE \E error \in BOOLEAN : RxAcknowledge(error)
  BY <1>3, RxInvAcknowledge
<1>4. CASE RxBusWait
  BY <1>4, RxInvOther
<1>5. CASE UNCHANGED <<rxDescriptor, rxFifoOut, rxWrite, m_axi_wr_cyc,
                       m_axi_wvalid, m_axi_awaddr, m_axi_awlen, m_axi_wcnt,
                       m_axi_wr_err, memory>>
  <2>1. UNCHANGED <<rx_burst_out, rx_m_axi_stop0, rx_m_axi_stop, rx_pkt_addr,
                    rx_word_left, m_axi_wr_cyc, m_axi_wvalid, m_axi_awaddr,
                    m_axi_awlen, m_axi_wcnt>>
    BY <1>5 DEF rxFifoOut, rxWrite
  <2> QED BY <2>1, RxInvOther
<1> QED
  BY <1>1, <1>2, <1>3, <1>4, <1>5 DEF RxRun, RxBusStep

LEMMA RxInvStutter ==
    ASSUME RxInv, UNCHANGED rxVars
    PROVE  RxInv'
  BY DEF rxVars, rxMac, rxCtl, rxDescriptor, rxPacket, rxStream, rxFifoOut,
     rxWrite, rxBus, RxInv, RxTypeOK, RxBurstIsLegal, RxBusAtRest, RxRoomLeft,
     RxData, RxOneMore, RxKeepCount, RxShift, RxOffset, InOnePage

\* Every write burst of the receive engine belongs to a frame in progress, stays
\* in its page and finds a word of data for each of its words; the engine's
\* types, the rest of the bus and the room in the buffer are the strengthening.
THEOREM RxBurstsAreLegal == RxSpec => [](RxTypeOK /\ RxBurstIsLegal)
<1>1. RxInit => RxInv
  BY RxInvInit
<1>2. RxInv /\ [RxNext]_rxVars => RxInv'
  <2> SUFFICES ASSUME RxInv, [RxNext]_rxVars PROVE RxInv'
    OBVIOUS
  <2>1. CASE RxIdle
    BY <2>1, RxInvIdle
  <2>2. CASE RxLoad
    BY <2>2, RxInvLoad
  <2>3. CASE RxRun
    BY <2>3, RxInvRun
  <2>4. CASE UNCHANGED rxVars
    BY <2>4, RxInvStutter
  <2> QED BY <2>1, <2>2, <2>3, <2>4 DEF RxNext
<1>3. RxInv => RxTypeOK /\ RxBurstIsLegal
  BY DEF RxInv
<1> QED BY <1>1, <1>2, <1>3, PTL DEF RxSpec

-----------------------------------------------------------------------------
(* The stream of the transmit engine.                                      *)

\* Words of the packet in memory, where the first one is, and words of the
\* stream.
TxBusWords == (tx_pkt.size + TxShift + WordBytes - 1) \div WordBytes
TxFirst == tx_pkt.addr \div WordBytes
TxStreamWords == (tx_pkt.size + WordBytes - 1) \div WordBytes

\* Words that have come from memory, that were put into the FIFO, and that the
\* stream has finished with.
TxRead0 == TxBusWords - tx_word_left
TxTailPut == TxShift # 0 /\ tx_m_axi_stop /\ TxTailNeeded /\ ~tx_burst_tail
TxPut == IF TxShift = 0 \/ TxRead0 = 0 THEN TxRead0
         ELSE IF TxTailPut THEN TxRead0 ELSE TxRead0 - 1
TxTaken == Len(sent) \div WordBytes

\* Byte k of word m of the stream.
TxByte(m, k) == tx_pkt.addr + WordBytes * m + k

\* Where the bus side is in the packet.
TxReadPlace ==
    /\ TxRead0 \in 0 .. TxBusWords
    /\ tx_m_axi_stop <=> TxRead0 = TxBusWords
    /\ tx_pkt_offs = IF TxRead0 = 0 THEN 0
                     ELSE IF TxRead0 = TxBusWords THEN tx_pkt.size
                     ELSE WordBytes * TxRead0 - TxShift
    /\ m_axi_rd_cyc => rdNext = TxFirst + TxRead0

\* What the shifter keeps of the last word.
TxKept ==
    /\ TxShift # 0 /\ TxRead0 # 0 =>
          tx_burst_head = ShiftDown(MemoryWord(TxFirst + TxRead0 - 1), TxShift)
    /\ tx_burst_tail => TxShift # 0 /\ TxRead0 # 0 /\ TxTailNeeded
    /\ TxShift # 0 /\ TxRead0 # 0 /\ TxTailNeeded /\ ~tx_m_axi_stop => tx_burst_tail

\* The FIFO holds the words put into it and not taken out.
TxFifoPlace ==
    /\ TxTaken <= TxPut /\ TxPut - TxTaken < BurstSize
    /\ tx_burst_inp = TxPut % BurstSize
    /\ tx_burst_out = TxTaken % BurstSize
TxFifoHolds ==
    \A m \in TxTaken .. TxPut - 1 : \A k \in Bytes :
       TxByte(m, k) < tx_pkt.addr + tx_pkt.size =>
          tx_burst_buf[m % BurstSize][k] = TxByte(m, k)

\* The stream is at a byte of the word it takes, and is over when the last
\* word has gone.
TxStreamPlace ==
    /\ tx_axis_byte_offs = Len(sent) % WordBytes
    /\ axisBytes > 1 => tx_axis_byte_offs = 0
    /\ Len(sent) < tx_pkt.size

TxStreamOver ==
    /\ Len(sent) = tx_pkt.size
    /\ tx_m_axi_stop /\ ~tx_burst_tail /\ tx_burst_inp = tx_burst_out

TxSentBytes == \A i \in 1 .. Len(sent) : sent[i] = tx_pkt.addr + i - 1

TxDataInv ==
    /\ sent \in Seq(Int) /\ DOMAIN tx_burst_buf = Fifo
    /\ axisBytes \in AxisWidths
    /\ tx_axis_start => tx_pkt \in TxPackets /\ TxSentBytes
    /\ tx_start /\ ~tx_axis_start =>
          tx_burst_inp = 0 /\ tx_burst_out = 0 /\ ~tx_axis_stop /\ ~tx_m_axi_stop
    /\ tx_axis_start =>
          IF tx_axis_stop THEN TxStreamOver ELSE TxStreamPlace
    /\ tx_start /\ tx_axis_start => TxReadPlace /\ TxKept
    /\ tx_start /\ tx_axis_start /\ ~tx_axis_stop => TxFifoPlace /\ TxFifoHolds

-----------------------------------------------------------------------------
(* Words and bytes of a packet.                                            *)

LEMMA TxPacketNumbers ==
    ASSUME tx_pkt \in TxPackets
    PROVE  /\ WordBytes \in Nat \ {0}
           /\ tx_pkt.addr \in Nat /\ tx_pkt.size \in Nat \ {0}
           /\ TxShift \in 0 .. WordBytes - 1 /\ TxFirst \in Nat
           /\ tx_pkt.addr = WordBytes * TxFirst + TxShift
<1>1. /\ WordBytes \in Nat \ {0}
      /\ tx_pkt.addr \in Nat /\ tx_pkt.size \in Nat \ {0}
  BY TxAssumption, DmaAssumption
<1> QED BY <1>1, DivMod DEF TxShift, TxFirst

\* The bytes of the last word of the stream, and how many words come from memory
\* for those of the stream: as many, unless the shifter has none to keep at the
\* end.
LEMMA TxPacketWords ==
    ASSUME tx_pkt \in TxPackets
    PROVE  /\ TxStreamWords \in Nat \ {0} /\ TxBusWords \in Nat \ {0}
           /\ (tx_pkt.size - 1) % WordBytes \in 0 .. WordBytes - 1
           /\ tx_pkt.size = WordBytes * TxStreamWords - WordBytes
                              + ((tx_pkt.size - 1) % WordBytes) + 1
           /\ tx_pkt.size % WordBytes =
                IF (tx_pkt.size - 1) % WordBytes = WordBytes - 1 THEN 0
                ELSE ((tx_pkt.size - 1) % WordBytes) + 1
           /\ TxBusWords = IF TxShift = 0 \/ TxTailNeeded
                               THEN TxStreamWords ELSE TxStreamWords + 1
<1> DEFINE W == WordBytes
           size == tx_pkt.size
           n == size - 1
           j == n \div W
           r == n % W
           sh == TxShift
<1>1. /\ W \in Nat \ {0} /\ size \in Nat \ {0} /\ n \in Nat /\ n = size - 1
      /\ sh \in 0 .. W - 1
  BY TxPacketNumbers
<1>2. j \in Nat /\ r \in 0 .. W - 1 /\ n = W * j + r
  <2> HIDE DEF n
  <2> QED BY <1>1, DivMod
<1>3. TxTailNeeded <=> r < W - sh
  BY DEF TxTailNeeded
<1>4. /\ TxStreamWords = (size + W - 1) \div W
      /\ TxBusWords = (size + sh + W - 1) \div W
  BY DEF TxStreamWords, TxBusWords
<1>5. size % W = tx_pkt.size % WordBytes /\ r = (tx_pkt.size - 1) % WordBytes
  OBVIOUS
<1> HIDE DEF W, size, n, j, r, sh
<1>6. W * (j + 1) = W * j + W /\ W * (j + 2) = W * j + W + W
  BY <1>1, <1>2
<1>7. TxStreamWords = j + 1
  <2>1. size + W - 1 \in Nat /\ size + W - 1 = W * (j + 1) + r /\ j + 1 \in Nat
    BY <1>1, <1>2, <1>6
  <2> QED BY <1>1, <1>2, <1>4, <2>1, QuotientUnique
<1>8. TxBusWords = IF r < W - sh THEN j + 1 ELSE j + 2
  <2>0. size + sh + W - 1 \in Nat
    BY <1>1
  <2>1. CASE r < W - sh
    <3>1. /\ size + sh + W - 1 = W * (j + 1) + (r + sh)
          /\ r + sh \in 0 .. W - 1 /\ j + 1 \in Nat
      BY <1>1, <1>2, <1>6, <2>1
    <3>2. (size + sh + W - 1) \div W = j + 1
      BY <1>1, <2>0, <3>1, QuotientUnique
    <3> QED BY <1>4, <2>1, <3>2
  <2>2. CASE ~(r < W - sh)
    <3>1. /\ size + sh + W - 1 = W * (j + 2) + (r + sh - W)
          /\ r + sh - W \in 0 .. W - 1 /\ j + 2 \in Nat
      BY <1>1, <1>2, <1>6, <2>2
    <3>2. (size + sh + W - 1) \div W = j + 2
      BY <1>1, <2>0, <3>1, QuotientUnique
    <3> QED BY <1>4, <2>2, <3>2
  <2> QED BY <2>1, <2>2
<1>9. size % W = IF r = W - 1 THEN 0 ELSE r + 1
  <2>1. CASE r = W - 1
    <3>1. size = W * (j + 1) + 0 /\ 0 \in 0 .. W - 1 /\ j + 1 \in Nat
      BY <1>1, <1>2, <1>6, <2>1
    <3> QED BY <1>1, <2>1, <3>1, QuotientUnique
  <2>2. CASE r # W - 1
    <3>1. size = W * j + (r + 1) /\ r + 1 \in 0 .. W - 1
      BY <1>1, <1>2, <2>2
    <3> QED BY <1>1, <1>2, <2>2, <3>1, QuotientUnique
  <2> QED BY <2>1, <2>2
<1>10. size = W * TxStreamWords - W + r + 1
  BY <1>1, <1>2, <1>6, <1>7
<1>11. TxStreamWords \in Nat \ {0} /\ TxBusWords \in Nat \ {0}
  BY <1>1, <1>2, <1>7, <1>8
<1>12. TxBusWords = IF TxShift = 0 \/ TxTailNeeded
                        THEN TxStreamWords ELSE TxStreamWords + 1
  <2>1. TxBusWords = IF TxTailNeeded THEN TxStreamWords ELSE TxStreamWords + 1
    <3>1. CASE TxTailNeeded
      BY <1>3, <1>7, <1>8, <3>1
    <3>2. CASE ~TxTailNeeded
      <4>1. TxBusWords = j + 2
        BY <1>3, <1>8, <3>2
      <4>2. TxStreamWords + 1 = j + 2
        BY <1>2, <1>7
      <4> QED BY <3>2, <4>1, <4>2
    <3> QED BY <3>1, <3>2
  <2>2. sh = 0 => TxTailNeeded
    BY <1>1, <1>2, <1>3
  <2> QED BY <2>1, <2>2 DEF sh
<1>13. r \in 0 .. W - 1
  BY <1>2
<1> QED BY <1>5, <1>9, <1>10, <1>11, <1>12, <1>13 DEF W, size

\* What the bus reads, as bytes of the packet: word m of an aligned packet.
LEMMA TxAlignedWord ==
    ASSUME tx_pkt \in TxPackets, TxShift = 0, NEW m \in Nat, NEW k \in Bytes
    PROVE  MemoryWord(TxFirst + m)[k] = TxByte(m, k)
<1> DEFINE W == WordBytes
           first == TxFirst
<1>1. /\ W \in Nat \ {0} /\ first \in Nat
      /\ tx_pkt.addr \in Nat /\ tx_pkt.addr = W * first + 0
  BY TxPacketNumbers
<1>2. k \in Int
  BY <1>1 DEF Bytes
<1>3. MemoryWord(TxFirst + m)[k] = (first + m) * W + k
  BY DEF MemoryWord
<1> HIDE DEF W, first
<1>4. (first + m) * W = W * first + W * m
  BY <1>1
<1>5. W * first \in Int /\ W * m \in Int
  BY <1>1
<1>6. (first + m) * W + k = tx_pkt.addr + W * m + k
  BY <1>1, <1>2, <1>4, <1>5
<1> QED BY <1>3, <1>6 DEF TxByte, W

\* What the shifter keeps of word m in memory is the start of word m of the
\* stream.
LEMMA TxKeptWord ==
    ASSUME tx_pkt \in TxPackets, NEW m \in Nat, NEW k \in Bytes
    PROVE  ShiftDown(MemoryWord(TxFirst + m), TxShift)[k] =
             IF k + TxShift < WordBytes THEN TxByte(m, k) ELSE 0
<1> DEFINE W == WordBytes
           first == TxFirst
           sh == TxShift
<1>1. /\ W \in Nat \ {0} /\ first \in Nat /\ sh \in 0 .. W - 1
      /\ tx_pkt.addr \in Nat /\ tx_pkt.addr = W * first + sh
  BY TxPacketNumbers
<1>2. k \in 0 .. W - 1
  BY DEF Bytes
<1>3. ShiftDown(MemoryWord(TxFirst + m), TxShift)[k] =
        IF k + sh < W THEN MemoryWord(TxFirst + m)[k + sh] ELSE 0
  BY DEF ShiftDown
<1>4. k + sh < W => k + sh \in Bytes
  BY <1>1, <1>2 DEF Bytes
<1>5. k + sh < W => MemoryWord(TxFirst + m)[k + sh] = (first + m) * W + (k + sh)
  BY <1>4 DEF MemoryWord
<1> HIDE DEF W, first, sh
<1>6. (first + m) * W = W * first + W * m
  BY <1>1
<1>7. W * first \in Int /\ W * m \in Int
  BY <1>1
<1>8. (first + m) * W + (k + sh) = tx_pkt.addr + W * m + k
  BY <1>1, <1>2, <1>6, <1>7
<1>9. k + sh < W => MemoryWord(TxFirst + m)[k + sh] = TxByte(m, k)
  BY <1>5, <1>8 DEF TxByte, W
<1> QED BY <1>3, <1>9 DEF W, sh

\* Together with the start of the next word in memory it is all of it.
LEMMA TxShiftedWord ==
    ASSUME tx_pkt \in TxPackets, TxShift # 0, NEW m \in Nat, NEW k \in Bytes
    PROVE  Or(ShiftDown(MemoryWord(TxFirst + m), TxShift),
              ShiftUp(MemoryWord(TxFirst + m + 1), WordBytes - TxShift))[k]
             = TxByte(m, k)
<1> DEFINE W == WordBytes
           first == TxFirst
           sh == TxShift
           u == ShiftDown(MemoryWord(TxFirst + m), TxShift)
           v == ShiftUp(MemoryWord(TxFirst + m + 1), WordBytes - TxShift)
<1>1. /\ W \in Nat \ {0} /\ first \in Nat /\ sh \in 1 .. W - 1
      /\ tx_pkt.addr \in Nat /\ tx_pkt.addr = W * first + sh
  <2>1. TxShift \in 0 .. WordBytes - 1 /\ TxShift # 0
    BY TxPacketNumbers
  <2> QED BY <2>1, TxPacketNumbers
<1>2. k \in 0 .. W - 1
  BY DEF Bytes
<1>3. u[k] = IF k + sh < W THEN TxByte(m, k) ELSE 0
  BY TxKeptWord
<1>4. v[k] = IF k >= W - sh THEN MemoryWord(TxFirst + m + 1)[k - (W - sh)] ELSE 0
  BY DEF ShiftUp
<1>5. k >= W - sh => k - (W - sh) \in Bytes
  BY <1>1, <1>2 DEF Bytes
<1>6. k >= W - sh => MemoryWord(TxFirst + m + 1)[k - (W - sh)]
                       = (first + m + 1) * W + (k - (W - sh))
  BY <1>5 DEF MemoryWord
<1>7. Or(u, v)[k] = CASE u[k] = 0 -> v[k] [] v[k] = 0 -> u[k] [] OTHER -> Junk
  BY DEF Or
<1> DEFINE byte == tx_pkt.addr + W * m + k
<1>a. TxByte(m, k) = byte
  BY DEF TxByte
<1> HIDE DEF W, first, sh, u, v
<1>8. (first + m + 1) * W = W * first + W * m + W
  BY <1>1
<1>9. W * first \in Int /\ W * m \in Int
  BY <1>1
<1>10. (first + m + 1) * W + (k - (W - sh)) = byte
  BY <1>1, <1>2, <1>8, <1>9
<1> HIDE DEF byte
<1>11. Or(u, v)[k] = byte
  <2>1. CASE k + sh < W
    <3>1. u[k] = byte
      BY <1>3, <1>a, <2>1
    <3>2. v[k] = 0
      BY <1>1, <1>2, <1>4, <2>1
    <3> QED BY <1>7, <3>1, <3>2
  <2>2. CASE ~(k + sh < W)
    <3>1. u[k] = 0
      BY <1>3, <2>2
    <3>2. k >= W - sh
      BY <1>1, <1>2, <2>2
    <3>3. v[k] = byte
      BY <1>4, <1>6, <1>10, <3>2
    <3> QED BY <1>7, <3>1, <3>3
  <2> QED BY <2>1, <2>2
<1> QED BY <1>11, <1>a DEF u, v

-----------------------------------------------------------------------------
(* The bus side of an edge.                                                *)

\* The bus side puts a word into the FIFO, the next one of the stream as far as
\* the packet goes, or nothing.
TxPutsNothing == TxPut' = TxPut /\ UNCHANGED <<tx_burst_inp, tx_burst_buf>>
TxPutsWord(word) ==
    /\ TxFree # 0 /\ TxPut' = TxPut + 1 /\ TxPush(word)
    /\ \A k \in Bytes : TxByte(TxPut, k) < tx_pkt.addr + tx_pkt.size =>
                           word[k] = TxByte(TxPut, k)
TxPuts == TxPutsNothing \/ \E word : TxPutsWord(word)

\* The packet does not change, and has the numbers above.
LEMMA TxRunPacket ==
    ASSUME TxInv, TxDataInv, TxRun
    PROVE  /\ tx_start = TRUE /\ tx_axis_start = TRUE /\ tx_axis_start' = TRUE
           /\ tx_pkt' = tx_pkt /\ axisBytes' = axisBytes
           /\ tx_pkt \in TxPackets
           /\ TxShift' = TxShift /\ TxFirst' = TxFirst /\ TxBusWords' = TxBusWords
           /\ TxStreamWords' = TxStreamWords /\ TxTailNeeded' = TxTailNeeded
           /\ TxReadPlace /\ TxKept
           /\ TxRead0 \in Nat /\ tx_word_left \in Nat /\ TxBusWords \in Nat \ {0}
           /\ TxRead0 = TxBusWords - tx_word_left
<1>1. /\ tx_start = TRUE /\ tx_axis_start = TRUE /\ tx_axis_start' = TRUE
      /\ tx_pkt' = tx_pkt /\ axisBytes' = axisBytes
      /\ tx_pkt \in TxPackets /\ TxReadPlace /\ TxKept
      /\ tx_word_left \in Nat
  BY DEF TxRun, txPacket, TxInv, TxTypeOK, TxDataInv
<1>2. /\ TxShift' = TxShift /\ TxFirst' = TxFirst
      /\ TxStreamWords' = TxStreamWords
  BY <1>1 DEF TxShift, TxFirst, TxStreamWords
<1>3. TxBusWords' = TxBusWords
  BY <1>1, <1>2 DEF TxBusWords
<1>4. TxTailNeeded' = TxTailNeeded
  BY <1>1, <1>2 DEF TxTailNeeded
<1>5. TxBusWords \in Nat \ {0}
  BY <1>1, TxPacketWords
<1>6. TxRead0 \in Nat
  BY <1>1, <1>5 DEF TxReadPlace
<1> QED BY <1>1, <1>2, <1>3, <1>4, <1>5, <1>6 DEF TxRead0

\* Steps that move no word and change no register.
LEMMA TxBusStill ==
    ASSUME TxInv, TxDataInv, TxRun,
           UNCHANGED <<txFifo, txRead>>,
           m_axi_rd_cyc' => rdNext' = TxFirst + TxRead0
    PROVE  TxReadPlace' /\ TxKept' /\ TxPutsNothing
<1>1. /\ tx_burst_buf' = tx_burst_buf /\ tx_burst_inp' = tx_burst_inp
      /\ tx_burst_head' = tx_burst_head /\ tx_burst_tail' = tx_burst_tail
      /\ tx_pkt_offs' = tx_pkt_offs /\ tx_word_left' = tx_word_left
      /\ tx_m_axi_stop' = tx_m_axi_stop
  BY DEF txFifo, txRead
<1>2. TxRead0' = TxRead0
  BY <1>1, TxRunPacket DEF TxRead0
<1>3. TxTailPut' = TxTailPut
  BY <1>1, TxRunPacket DEF TxTailPut
<1>4. TxPut' = TxPut
  BY <1>2, <1>3, TxRunPacket DEF TxPut
<1>5. TxKept'
  BY <1>1, <1>2, TxRunPacket DEF TxKept
<1>6. TxReadPlace'
  <2>1. /\ TxRead0 \in 0 .. TxBusWords
        /\ tx_m_axi_stop <=> TxRead0 = TxBusWords
        /\ tx_pkt_offs = IF TxRead0 = 0 THEN 0
                         ELSE IF TxRead0 = TxBusWords THEN tx_pkt.size
                         ELSE WordBytes * TxRead0 - TxShift
    BY TxRunPacket DEF TxReadPlace
  <2> QED BY <1>1, <1>2, <2>1, TxRunPacket DEF TxReadPlace
<1> QED BY <1>1, <1>4, <1>5, <1>6 DEF TxPutsNothing

\* A burst starts at the word the engine has got to.
LEMMA TxBurstPlace ==
    ASSUME TxInv, TxDataInv, TxRun, ~tx_m_axi_stop
    PROVE  TxBurstFirst = TxFirst + TxRead0
<1> DEFINE W == WordBytes
           first == TxFirst
           n == TxRead0
           sh == TxShift
<1>1. /\ W \in Nat \ {0} /\ first \in Nat /\ sh \in 0 .. W - 1
      /\ tx_pkt.addr \in Nat /\ tx_pkt.addr = W * first + sh
      /\ n \in Nat
  BY TxRunPacket, TxPacketNumbers
<1>2. TxRead0 # TxBusWords
  BY TxRunPacket DEF TxReadPlace
<1>3. tx_pkt_offs = IF n = 0 THEN 0 ELSE W * n - sh
  <2>1. tx_pkt_offs = IF TxRead0 = 0 THEN 0
                      ELSE IF TxRead0 = TxBusWords THEN tx_pkt.size
                      ELSE WordBytes * TxRead0 - TxShift
    BY TxRunPacket DEF TxReadPlace
  <2>2. n = 0 => tx_pkt_offs = 0
    BY <2>1
  <2>3. n # 0 => tx_pkt_offs = W * n - sh
    BY <1>2, <2>1
  <2> HIDE DEF W, n, sh
  <2> QED BY <2>2, <2>3
<1>4. TxBurstFirst = (tx_pkt.addr + tx_pkt_offs) \div W
  BY DEF TxBurstFirst
<1> HIDE DEF W, first, n, sh
<1>5. CASE n = 0
  <2>1. tx_pkt.addr + tx_pkt_offs = tx_pkt.addr
    BY <1>1, <1>3, <1>5
  <2>2. tx_pkt.addr \div W = first
    BY <1>1, QuotientUnique
  <2>3. first + n = first
    BY <1>1, <1>5
  <2> QED BY <1>4, <2>1, <2>2, <2>3 DEF first, n
<1>6. CASE n # 0
  <2> DEFINE q == first + n
             a == tx_pkt.addr + tx_pkt_offs
  <2>1. W * q = W * first + W * n
    BY <1>1
  <2>2. W * first \in Int /\ W * n \in Int /\ q \in Nat /\ 0 \in 0 .. W - 1
    BY <1>1
  <2>3. W * q \in Nat
    BY <1>1, <2>2
  <2>4. a = W * q + 0
    BY <1>1, <1>3, <1>6, <2>1, <2>2
  <2>5. a \in Nat
    BY <2>3, <2>4
  <2> HIDE DEF q, a
  <2>6. a \div W = q
    BY <1>1, <2>2, <2>4, <2>5, QuotientUnique
  <2> QED BY <1>4, <2>6 DEF a, q, first, n
<1> QED BY <1>5, <1>6

\* A word comes from memory: where the bus side is then.
LEMMA TxBeatPlace ==
    ASSUME TxInv, TxDataInv, TxRun, TxBeat
    PROVE  /\ TxReadPlace' /\ ~tx_m_axi_stop
           /\ TxRead0' = TxRead0 + 1 /\ rdNext = TxFirst + TxRead0
           /\ tx_pkt_offs = 0 <=> TxRead0 = 0
           /\ tx_m_axi_stop' <=> TxRead0' = TxBusWords
<1> DEFINE W == WordBytes
           n == TxRead0
           words == TxBusWords
           sh == TxShift
           left == tx_word_left
<1>1. /\ W \in Nat \ {0} /\ sh \in 0 .. W - 1
      /\ n \in Nat /\ left \in Nat /\ words \in Nat \ {0} /\ n = words - left
      /\ TxFirst \in Nat
  BY TxRunPacket, TxPacketNumbers
<1>2. /\ m_axi_rd_cyc = TRUE /\ tx_m_axi_stop = FALSE
      /\ left >= 1 /\ rdNext = TxFirst + n
  <2>1. /\ m_axi_rd_cyc = TRUE /\ tx_m_axi_stop = FALSE
        /\ rdLeft > 0 /\ rdLeft <= left /\ rdLeft \in Nat
    BY DEF TxBeat, TxInv, TxTypeOK, TxBurstIsLegal, TxBusAtRest
  <2>2. rdNext = TxFirst + n
    BY <2>1, TxRunPacket DEF TxReadPlace
  <2>3. left >= 1
    BY <1>1, <2>1
  <2> QED BY <2>1, <2>2, <2>3
<1>3. /\ tx_word_left' = left - 1 /\ rdNext' = rdNext + 1
      /\ tx_m_axi_stop' = (left <= 1)
      /\ tx_pkt_offs' = IF left <= 1 THEN tx_pkt.size
                        ELSE IF tx_pkt_offs = 0 THEN W - sh
                        ELSE tx_pkt_offs + W
  BY <1>2 DEF TxBeat
<1>4. TxRead0' = n + 1
  <2>1. TxRead0' = words - tx_word_left'
    BY TxRunPacket DEF TxRead0
  <2> HIDE DEF n, words, left
  <2> QED BY <1>1, <1>3, <2>1
<1>5. n # words
  BY <1>1, <1>2
<1>6. /\ n = 0 => tx_pkt_offs = 0
      /\ n # 0 => tx_pkt_offs = W * n - sh
  <2>1. tx_pkt_offs = IF TxRead0 = 0 THEN 0
                      ELSE IF TxRead0 = TxBusWords THEN tx_pkt.size
                      ELSE WordBytes * TxRead0 - TxShift
    BY TxRunPacket DEF TxReadPlace
  <2> QED BY <1>5, <2>1
<1>7. /\ TxBusWords' = words /\ TxShift' = sh /\ tx_pkt' = tx_pkt
      /\ TxFirst' = TxFirst
  BY TxRunPacket
<1> HIDE DEF W, n, words, sh, left
<1>8. tx_pkt_offs = 0 <=> n = 0
  <2> SUFFICES ASSUME n # 0 PROVE tx_pkt_offs # 0
    BY <1>6
  <2>1. W * n >= W
    BY <1>1
  <2>2. W * n \in Int
    BY <1>1
  <2> QED BY <1>1, <1>6, <2>1, <2>2
<1>9. n + 1 \in 0 .. words /\ (left <= 1 <=> n + 1 = words) /\ n + 1 # 0
  BY <1>1, <1>2
<1>10. tx_m_axi_stop' <=> n + 1 = words
  BY <1>3, <1>9
<1>11. tx_pkt_offs' = IF n + 1 = words THEN tx_pkt.size ELSE W * (n + 1) - sh
  <2>1. CASE n + 1 = words
    BY <1>3, <1>9, <2>1
  <2>2. CASE n + 1 # words
    <3>1. W * (n + 1) = W * n + W
      BY <1>1
    <3>2. CASE n = 0
      <4>1. tx_pkt_offs' = W - sh
        BY <1>3, <1>6, <1>9, <2>2, <3>2
      <4>2. W * n = 0
        BY <1>1, <3>2
      <4> QED BY <1>1, <2>2, <3>1, <4>1, <4>2
    <3>3. CASE n # 0
      <4>1. tx_pkt_offs' = tx_pkt_offs + W /\ tx_pkt_offs = W * n - sh
        BY <1>3, <1>6, <1>8, <1>9, <2>2, <3>3
      <4>2. W * n \in Int
        BY <1>1
      <4> QED BY <1>1, <2>2, <3>1, <4>1, <4>2
    <3> QED BY <3>2, <3>3
  <2> QED BY <2>1, <2>2
<1>12. tx_pkt_offs' = IF n + 1 = 0 THEN 0
                       ELSE IF n + 1 = words THEN tx_pkt.size
                       ELSE W * (n + 1) - sh
  BY <1>9, <1>11
<1>13. rdNext' = TxFirst + (n + 1)
  BY <1>1, <1>2, <1>3
<1>14. TxReadPlace'
  BY <1>4, <1>7, <1>9, <1>10, <1>12, <1>13 DEF TxReadPlace, W
<1> QED
  BY <1>2, <1>4, <1>8, <1>10, <1>14 DEF n, words

\* ... and what goes into the FIFO and stays in the shifter.
LEMMA TxBeatPuts ==
    ASSUME TxInv, TxDataInv, TxRun, TxBeat
    PROVE  TxKept' /\ TxPuts
<1> DEFINE n == TxRead0
<1>1. /\ tx_pkt \in TxPackets /\ tx_pkt' = tx_pkt
      /\ TxShift' = TxShift /\ TxFirst' = TxFirst
      /\ TxTailNeeded' = TxTailNeeded /\ TxKept
      /\ n \in Nat
  BY TxRunPacket
<1>2. /\ ~tx_m_axi_stop /\ rdNext = TxFirst + n /\ TxRead0' = n + 1
      /\ tx_pkt_offs = 0 <=> n = 0
  BY TxBeatPlace
<1>3. TxFree # 0
  <2>1. rdLeft > 0 /\ rdLeft <= TxFree /\ rdLeft \in Nat
    BY DEF TxBeat, TxInv, TxTypeOK, TxBurstIsLegal
  <2> QED BY <2>1
<1>4. n + 1 \in Nat /\ n + 1 # 0 /\ n + 1 - 1 = n
  BY <1>1
<1>5. CASE TxShift = 0
  <2>1. /\ TxPush(MemoryWord(TxFirst + n))
        /\ tx_burst_head' = tx_burst_head /\ tx_burst_tail' = tx_burst_tail
    BY <1>2, <1>5 DEF TxBeat
  <2>2. TxPut = n /\ TxPut' = n + 1
    BY <1>1, <1>2, <1>5 DEF TxPut
  <2>3. TxPutsWord(MemoryWord(TxFirst + n))
    <3>1. \A k \in Bytes : MemoryWord(TxFirst + n)[k] = TxByte(n, k)
      BY <1>1, <1>5, TxAlignedWord
    <3> QED BY <1>3, <2>1, <2>2, <3>1 DEF TxPutsWord
  <2>4. TxKept'
    BY <1>1, <1>5, <2>1 DEF TxKept
  <2> QED BY <2>3, <2>4 DEF TxPuts
<1>6. CASE TxShift # 0
  <2> DEFINE word == MemoryWord(TxFirst + n)
             pair == Or(tx_burst_head, ShiftUp(word, WordBytes - TxShift))
  <2>1. /\ tx_burst_head' = ShiftDown(word, TxShift)
        /\ tx_burst_tail' = (tx_burst_tail \/ TxTailNeeded)
        /\ n # 0 => TxPush(pair)
        /\ n = 0 => UNCHANGED <<tx_burst_buf, tx_burst_inp>>
    BY <1>2, <1>6 DEF TxBeat
  <2>2. tx_burst_tail' <=> TxTailNeeded
    BY <1>1, <2>1 DEF TxKept
  <2>3. TxKept'
    <3>1. TxFirst' + TxRead0' - 1 = TxFirst + n
      <4>1. TxFirst \in Nat
        BY <1>1, TxPacketNumbers
      <4> QED BY <1>1, <1>2, <4>1
    <3>2. tx_burst_head' = ShiftDown(MemoryWord(TxFirst' + TxRead0' - 1), TxShift')
      BY <1>1, <2>1, <3>1
    <3>3. TxRead0' # 0
      BY <1>2, <1>4
    <3> QED BY <1>1, <1>6, <2>2, <3>2, <3>3 DEF TxKept
  <2>4. ~TxTailPut'
    BY <1>1, <2>2 DEF TxTailPut
  <2>5. TxPut' = n
    BY <1>1, <1>2, <1>4, <1>6, <2>4 DEF TxPut
  <2>6. CASE n = 0
    <3>1. TxPut = 0
      BY <2>6 DEF TxPut
    <3> QED BY <2>1, <2>3, <2>5, <2>6, <3>1 DEF TxPuts, TxPutsNothing
  <2>7. CASE n # 0
    <3>1. ~TxTailPut
      BY <1>2 DEF TxTailPut
    <3>2. TxPut = n - 1
      BY <1>6, <2>7, <3>1 DEF TxPut
    <3>3. n - 1 \in Nat /\ TxPut' = TxPut + 1
      BY <1>1, <2>5, <2>7, <3>2
    <3>4. tx_burst_head = ShiftDown(MemoryWord(TxFirst + (n - 1)), TxShift)
      <4>1. tx_burst_head = ShiftDown(MemoryWord(TxFirst + n - 1), TxShift)
        BY <1>1, <1>6, <2>7 DEF TxKept
      <4>2. TxFirst + n - 1 = TxFirst + (n - 1)
        BY <1>1, TxPacketNumbers
      <4> QED BY <4>1, <4>2
    <3>5. TxFirst + n = TxFirst + (n - 1) + 1
      BY <1>1, TxPacketNumbers
    <3>6. \A k \in Bytes : pair[k] = TxByte(n - 1, k)
      <4> SUFFICES ASSUME NEW k \in Bytes PROVE pair[k] = TxByte(n - 1, k)
        OBVIOUS
      <4> QED BY <1>1, <1>6, <3>3, <3>4, <3>5, TxShiftedWord
    <3>7. TxPutsWord(pair)
      <4>1. TxPush(pair)
        BY <2>1, <2>7
      <4> HIDE DEF pair
      <4> QED BY <1>3, <3>2, <3>3, <3>6, <4>1 DEF TxPutsWord
    <3> HIDE DEF pair
    <3> QED BY <2>3, <3>7 DEF TxPuts
  <2> QED BY <2>6, <2>7
<1> QED BY <1>5, <1>6

\* The kept end of the packet is the last word of the stream, as far as the
\* packet goes.
LEMMA TxTailPuts ==
    ASSUME TxInv, TxDataInv, TxRun, TxTail
    PROVE  TxReadPlace' /\ TxKept' /\ TxPuts
<1> DEFINE n == TxRead0
           T == TxStreamWords
           r == (tx_pkt.size - 1) % WordBytes
           W == WordBytes
           sh == TxShift
<1>1. /\ tx_pkt \in TxPackets /\ tx_pkt' = tx_pkt
      /\ TxShift' = TxShift /\ TxFirst' = TxFirst /\ TxBusWords' = TxBusWords
      /\ TxTailNeeded' = TxTailNeeded /\ TxKept /\ TxReadPlace
      /\ n \in Nat
  BY TxRunPacket
<1>2. /\ ~m_axi_rd_cyc /\ tx_m_axi_stop /\ tx_burst_tail
      /\ TxFree # 0 /\ TxPush(tx_burst_head)
      /\ tx_burst_tail' = FALSE /\ tx_burst_head' = tx_burst_head
      /\ tx_pkt_offs' = tx_pkt_offs /\ tx_word_left' = tx_word_left
      /\ tx_m_axi_stop' = tx_m_axi_stop /\ m_axi_rd_cyc' = m_axi_rd_cyc
  BY DEF TxTail, txRead, txBus
<1>3. /\ TxShift # 0 /\ n # 0 /\ TxTailNeeded
      /\ n = TxBusWords /\ TxRead0' = n
      /\ tx_burst_head = ShiftDown(MemoryWord(TxFirst + n - 1), TxShift)
  <2>1. TxShift # 0 /\ n # 0 /\ TxTailNeeded
    BY <1>1, <1>2 DEF TxKept
  <2>2. n = TxBusWords
    BY <1>1, <1>2 DEF TxReadPlace
  <2>3. TxRead0' = n
    BY <1>1, <1>2 DEF TxRead0
  <2> QED BY <1>1, <2>1, <2>2, <2>3 DEF TxKept
<1>4. TxKept'
  BY <1>1, <1>2, <1>3 DEF TxKept
<1>5. TxReadPlace'
  BY <1>1, <1>2, <1>3 DEF TxReadPlace
<1>6. /\ TxPut = n - 1 /\ TxPut' = n /\ n - 1 \in Nat /\ TxPut' = TxPut + 1
  <2>1. ~TxTailPut /\ TxTailPut'
    BY <1>1, <1>2, <1>3 DEF TxTailPut
  <2>2. TxPut = n - 1 /\ TxPut' = n
    BY <1>1, <1>3, <2>1 DEF TxPut
  <2> QED BY <1>1, <1>3, <2>2
<1>7. /\ W \in Nat \ {0} /\ T \in Nat \ {0} /\ n = T
      /\ tx_pkt.addr \in Nat /\ tx_pkt.size \in Nat
      /\ r \in 0 .. W - 1 /\ sh \in 0 .. W - 1
      /\ tx_pkt.size = W * T - W + r + 1 /\ r < W - sh
  <2>1. n = T
    BY <1>1, <1>3, TxPacketWords
  <2>2. r < W - sh
    BY <1>3 DEF TxTailNeeded
  <2> QED BY <1>1, <2>1, <2>2, TxPacketNumbers, TxPacketWords
<1>8. ASSUME NEW k \in Bytes, TxByte(n - 1, k) < tx_pkt.addr + tx_pkt.size
      PROVE  tx_burst_head[k] = TxByte(n - 1, k)
  <2>1. k \in 0 .. W - 1
    BY DEF Bytes
  <2>2. tx_pkt.addr + W * (n - 1) + k < tx_pkt.addr + tx_pkt.size
    BY <1>8 DEF TxByte
  <2>3. TxFirst + n - 1 = TxFirst + (n - 1)
    BY <1>1, TxPacketNumbers
  <2>4. k + sh < W
    <3> HIDE DEF W, n, T, r, sh
    <3>1. W * (n - 1) = W * T - W
      BY <1>7
    <3>2. W * T \in Int
      BY <1>7
    <3>3. W * (n - 1) + k < tx_pkt.size
      BY <1>7, <2>1, <2>2, <3>1, <3>2
    <3> QED BY <1>7, <2>1, <3>1, <3>2, <3>3
  <2>5. ShiftDown(MemoryWord(TxFirst + (n - 1)), TxShift)[k] =
          IF k + sh < W THEN TxByte(n - 1, k) ELSE 0
    BY <1>1, <1>6, TxKeptWord
  <2> QED BY <1>3, <2>3, <2>4, <2>5
<1>9. TxPutsWord(tx_burst_head)
  BY <1>2, <1>6, <1>8 DEF TxPutsWord
<1> QED
  BY <1>4, <1>5, <1>9 DEF TxPuts

LEMMA TxBusMoves ==
    ASSUME TxInv, TxDataInv, TxRun
    PROVE  /\ TxReadPlace' /\ TxKept' /\ TxPuts
           /\ tx_m_axi_stop /\ ~tx_burst_tail =>
                /\ tx_m_axi_stop' /\ ~tx_burst_tail' /\ TxPut' = TxPut
                /\ tx_burst_inp' = tx_burst_inp
<1>0. /\ tx_m_axi_stop => ~m_axi_rd_cyc
      /\ m_axi_rd_cyc => rdNext = TxFirst + TxRead0
  BY TxRunPacket DEF TxInv, TxBusAtRest, TxReadPlace
<1>1. CASE TxStartBurst
  <2>1. rdNext' = TxFirst + TxRead0 /\ UNCHANGED <<txFifo, txRead>>
    BY <1>1, TxBurstPlace DEF TxStartBurst
  <2> QED BY <1>1, <2>1, TxBusStill DEF TxPuts, TxStartBurst
<1>2. CASE TxAddress \/ TxBusWait
  <2>1. /\ UNCHANGED <<txFifo, txRead>>
        /\ m_axi_rd_cyc' => rdNext' = TxFirst + TxRead0
    BY <1>0, <1>2 DEF TxAddress, TxBusWait, txBus
  <2>2. TxReadPlace' /\ TxKept' /\ TxPutsNothing
    BY <2>1, TxBusStill
  <2>3. tx_m_axi_stop' = tx_m_axi_stop /\ tx_burst_tail' = tx_burst_tail
    BY <2>1 DEF txFifo, txRead
  <2> QED BY <2>2, <2>3 DEF TxPuts, TxPutsNothing
<1>3. CASE TxBeat
  BY <1>3, TxBeatPlace, TxBeatPuts
<1>4. CASE TxTail
  BY <1>4, TxTailPuts DEF TxTail
<1> QED
  BY <1>1, <1>2, <1>3, <1>4 DEF TxRun, TxBusStep

-----------------------------------------------------------------------------
(* The stream side of an edge.                                             *)

\* The FIFO never gets more words than the stream has, and has got them all when
\* the bus side has stopped and nothing is kept.
LEMMA TxPutBounded ==
    ASSUME TxInv, TxDataInv, TxRun
    PROVE  /\ TxPut \in Nat /\ TxStreamWords \in Nat \ {0}
           /\ TxPut <= TxStreamWords
           /\ TxPut = TxStreamWords <=> tx_m_axi_stop /\ ~tx_burst_tail
<1> DEFINE n == TxRead0
           T == TxStreamWords
           N == TxBusWords
<1>1. /\ n \in 0 .. N /\ T \in Nat \ {0} /\ N \in Nat \ {0}
      /\ N = IF TxShift = 0 \/ TxTailNeeded THEN T ELSE T + 1
      /\ tx_m_axi_stop <=> n = N
      /\ tx_burst_tail => TxShift # 0 /\ n # 0 /\ TxTailNeeded
  BY TxRunPacket, TxPacketWords DEF TxReadPlace, TxKept
<1>2. TxPut = IF TxShift = 0 \/ n = 0 THEN n
              ELSE IF TxTailPut THEN n ELSE n - 1
  BY DEF TxPut
<1>3. TxTailPut <=> TxShift # 0 /\ tx_m_axi_stop /\ TxTailNeeded /\ ~tx_burst_tail
  BY DEF TxTailPut
<1> HIDE DEF n, T, N
<1>4. TxPut \in Nat /\ TxPut <= T /\ (TxPut = T <=> tx_m_axi_stop /\ ~tx_burst_tail)
  <2>1. CASE TxShift = 0
    <3>1. TxPut = n /\ N = T /\ ~tx_burst_tail
      BY <1>1, <1>2, <2>1
    <3> QED BY <1>1, <3>1
  <2>2. CASE TxShift # 0 /\ TxTailNeeded
    <3>1. N = T
      BY <1>1, <2>2
    <3>2. TxTailPut <=> tx_m_axi_stop /\ ~tx_burst_tail
      BY <1>3, <2>2
    <3>3. CASE n = 0
      <4>1. TxPut = 0 /\ ~tx_m_axi_stop
        BY <1>1, <1>2, <3>3
      <4> QED BY <1>1, <4>1
    <3>4. CASE n # 0 /\ TxTailPut
      <4>1. TxPut = n /\ n = N
        BY <1>1, <1>2, <2>2, <3>2, <3>4
      <4> QED BY <1>1, <3>1, <3>2, <3>4, <4>1
    <3>5. CASE n # 0 /\ ~TxTailPut
      <4>1. TxPut = n - 1
        BY <1>2, <2>2, <3>5
      <4>2. TxPut \in Nat /\ TxPut < T
        BY <1>1, <3>1, <3>5, <4>1
      <4> QED BY <1>1, <3>2, <3>5, <4>2
    <3> QED BY <3>3, <3>4, <3>5
  <2>3. CASE TxShift # 0 /\ ~TxTailNeeded
    <3>1. N = T + 1 /\ ~tx_burst_tail /\ ~TxTailPut
      BY <1>1, <1>3, <2>3
    <3>2. CASE n = 0
      <4>1. TxPut = 0 /\ n # N
        BY <1>1, <1>2, <3>2
      <4> QED BY <1>1, <4>1
    <3>3. CASE n # 0
      <4>1. TxPut = n - 1
        BY <1>2, <2>3, <3>1, <3>3
      <4>2. TxPut \in Nat /\ TxPut <= T /\ (TxPut = T <=> n = N)
        BY <1>1, <3>1, <3>3, <4>1
      <4> QED BY <1>1, <3>1, <4>2
    <3> QED BY <3>2, <3>3
  <2> QED BY <2>1, <2>2, <2>3
<1> QED BY <1>1, <1>4 DEF T

\* Where the stream is: byte tx_axis_byte_offs of word TxTaken.
LEMMA TxStreamNumbers ==
    ASSUME TxInv, TxDataInv, TxRun, ~tx_axis_stop
    PROVE  /\ Len(sent) \in Nat /\ TxTaken \in Nat
           /\ tx_axis_byte_offs \in 0 .. WordBytes - 1
           /\ Len(sent) = WordBytes * TxTaken + tx_axis_byte_offs
           /\ Len(sent) < tx_pkt.size
           /\ axisBytes = 1 \/ (axisBytes = WordBytes /\ tx_axis_byte_offs = 0)
           /\ TxTaken <= TxPut /\ TxPut - TxTaken < BurstSize
           /\ tx_burst_inp = TxPut % BurstSize
           /\ tx_burst_out = TxTaken % BurstSize
<1>1. TxStreamPlace /\ TxFifoPlace /\ sent \in Seq(Int)
  BY TxRunPacket DEF TxDataInv
<1>2. Len(sent) \in Nat
  BY <1>1
<1>3. WordBytes \in Nat \ {0} /\ axisBytes \in {1, WordBytes}
  BY DmaAssumption DEF TxDataInv
<1>4. /\ TxTaken \in Nat /\ Len(sent) % WordBytes \in 0 .. WordBytes - 1
      /\ Len(sent) = WordBytes * TxTaken + (Len(sent) % WordBytes)
  BY <1>2, <1>3, DivMod DEF TxTaken
<1>5. axisBytes = 1 \/ (axisBytes = WordBytes /\ tx_axis_byte_offs = 0)
  <2>1. axisBytes > 1 => tx_axis_byte_offs = 0
    BY <1>1 DEF TxStreamPlace
  <2> QED BY <1>3, <2>1
<1> QED
  BY <1>1, <1>2, <1>4, <1>5 DEF TxStreamPlace, TxFifoPlace

\* Which stream word is the last one, and that its bytes are the last bytes of
\* the packet.
LEMMA TxLastIsLast ==
    ASSUME TxInv, TxDataInv, TxRun, ~tx_axis_stop, TxTake
    PROVE  /\ TxTaken + 1 <= TxPut
           /\ TxKeep \in Nat \ {0} /\ tx_axis_byte_offs + TxKeep <= WordBytes
           /\ TxLast => /\ Len(sent) + TxKeep = tx_pkt.size
                        /\ tx_m_axi_stop /\ ~tx_burst_tail
                        /\ tx_burst_inp = NextPtr(tx_burst_out)
           /\ ~TxLast => /\ TxKeep = axisBytes
                         /\ Len(sent) + axisBytes < tx_pkt.size
<1> DEFINE W == WordBytes
           L == Len(sent)
           Q == TxTaken
           o == tx_axis_byte_offs
           P == TxPut
           T == TxStreamWords
           S == tx_pkt.size
           r == (tx_pkt.size - 1) % WordBytes
<1>1. /\ L \in Nat /\ Q \in Nat /\ o \in 0 .. W - 1 /\ L = W * Q + o /\ L < S
      /\ axisBytes = 1 \/ (axisBytes = W /\ o = 0)
      /\ Q <= P /\ P - Q < BurstSize
  BY TxStreamNumbers
<1>2. /\ W \in Nat \ {0} /\ S \in Nat \ {0} /\ T \in Nat \ {0}
      /\ r \in 0 .. W - 1 /\ S = W * T - W + r + 1
      /\ S % W = IF r = W - 1 THEN 0 ELSE r + 1
  BY TxRunPacket, TxPacketNumbers, TxPacketWords
<1>3. /\ P \in Nat /\ P <= T
      /\ P = T <=> tx_m_axi_stop /\ ~tx_burst_tail
  BY TxPutBounded
<1>4. Q + 1 <= P
  <2>1. tx_burst_inp # tx_burst_out
    BY DEF TxTake, TxValid
  <2>2. P # Q
    BY <2>1, TxStreamNumbers
  <2> HIDE DEF P, Q
  <2> QED BY <1>1, <1>3, <2>2
<1>5. NextPtr(tx_burst_out) = tx_burst_inp <=> P = Q + 1
  <2>1. NextPtr(tx_burst_out) = (Q + 1) % BurstSize
    BY <1>1, TxStreamNumbers, FifoNext
  <2>2. tx_burst_inp = P % BurstSize
    BY TxStreamNumbers
  <2> HIDE DEF P, Q
  <2>3. P - (Q + 1) < BurstSize /\ Q + 1 \in Nat /\ BurstSize \in Nat
    BY <1>1, <1>3, DmaAssumption
  <2>4. P % BurstSize = (Q + 1) % BurstSize <=> P = Q + 1
    BY <1>3, <1>4, <2>3, FifoDistance
  <2> QED BY <2>1, <2>2, <2>4
<1>6. TxLast <=> Q + 1 = T /\ o = TxByteLast
  <2>1. TxLast <=> P = T /\ P = Q + 1 /\ o = TxByteLast
    BY <1>3, <1>5 DEF TxLast
  <2> HIDE DEF P, Q, T, o
  <2>2. Q + 1 = T => P = T
    BY <1>1, <1>2, <1>3, <1>4
  <2> QED BY <2>1, <2>2
<1>7. TxLast => /\ tx_m_axi_stop /\ ~tx_burst_tail
                /\ tx_burst_inp = NextPtr(tx_burst_out)
  BY DEF TxLast
<1>8. /\ axisBytes = 1 => TxByteLast = r /\ TxKeep = 1
      /\ axisBytes > 1 => TxByteLast = 0
      /\ TxKeep = IF TxLast /\ axisBytes > 1 /\ S % W # 0 THEN S % W ELSE axisBytes
  BY DEF TxByteLast, TxKeep
<1> HIDE DEF W, L, Q, o, P, T, S, r
<1>9. /\ W * (T - 1) = W * T - W
      /\ W * (Q + 1) = W * Q + W
      /\ Q + 1 < T => W * (Q + 1) <= W * (T - 1)
      /\ W * T \in Int /\ W * Q \in Int
  BY <1>1, <1>2
<1>10. Q + 1 < T => W * Q + W < S
  BY <1>1, <1>2, <1>9
<1>11. Q + 1 = T => W * Q = W * T - W
  <2>1. Q + 1 = T => Q = T - 1
    BY <1>1, <1>2
  <2> QED BY <1>9, <2>1
<1>12. Q + 1 <= T
  BY <1>1, <1>2, <1>3, <1>4
<1>13. CASE axisBytes = 1
  <2>1. TxKeep = 1 /\ TxByteLast = r
    BY <1>8, <1>13
  <2>2. Q + 1 = T /\ o = r => L + 1 = S
    BY <1>1, <1>2, <1>9, <1>11
  <2>3. ~(Q + 1 = T /\ o = r) => L + 1 < S
    <3>1. CASE Q + 1 < T
      BY <1>1, <1>2, <1>9, <1>10, <3>1
    <3>2. CASE Q + 1 = T
      BY <1>1, <1>2, <1>9, <1>11, <3>2
    <3> QED BY <1>1, <1>2, <1>12, <3>1, <3>2
  <2>4. o + 1 <= W
    BY <1>1, <1>2
  <2> QED
    BY <1>4, <1>6, <1>7, <1>13, <2>1, <2>2, <2>3, <2>4 DEF W, L, Q, o, P, S
<1>14. CASE axisBytes # 1
  <2>1. axisBytes = W /\ o = 0 /\ W > 1 /\ TxByteLast = 0
    BY <1>1, <1>2, <1>8, <1>14
  <2>2. TxLast <=> Q + 1 = T
    BY <1>6, <2>1
  <2>3. TxLast => TxKeep = r + 1
    BY <1>2, <1>8, <2>1
  <2>4. ~TxLast => TxKeep = W
    BY <1>8, <2>1
  <2>5. TxLast => L + TxKeep = S /\ TxKeep \in 1 .. W
    BY <1>1, <1>2, <1>9, <1>11, <2>1, <2>2, <2>3
  <2>6. ~TxLast => L + W < S
    <3>1. L = W * Q
      BY <1>1, <1>9, <2>1
    <3>2. ~TxLast => Q + 1 < T
      BY <1>1, <1>2, <1>12, <2>2
    <3> QED BY <1>10, <3>1, <3>2
  <2>7. TxKeep \in Nat \ {0} /\ o + TxKeep <= W
    BY <1>2, <2>1, <2>4, <2>5
  <2> QED
    BY <1>4, <1>7, <2>1, <2>4, <2>5, <2>6, <2>7 DEF W, L, Q, o, P, S
<1> QED BY <1>13, <1>14

LEMMA Concatenation ==
    ASSUME NEW s \in Seq(Int), NEW t \in Seq(Int)
    PROVE  /\ s \o t \in Seq(Int) /\ Len(s \o t) = Len(s) + Len(t)
           /\ \A i \in 1 .. Len(s) : (s \o t)[i] = s[i]
           /\ \A i \in Len(s) + 1 .. Len(s) + Len(t) :
                 (s \o t)[i] = t[i - Len(s)]
  OBVIOUS

\* The bytes the MAC takes are the next bytes of the packet.
LEMMA TxTakeSends ==
    ASSUME TxInv, TxDataInv, TxRun, ~tx_axis_stop, TxTake
    PROVE  /\ sent' \in Seq(Int) /\ Len(sent') = Len(sent) + TxKeep
           /\ TxSentBytes'
<1> DEFINE A == tx_pkt.addr
           L == Len(sent)
           n == TxKeep
           o == tx_axis_byte_offs
           word == [k \in 1 .. n |-> tx_burst_buf[tx_burst_out][o + k - 1]]
<1>1. /\ sent \in Seq(Int) /\ TxSentBytes /\ tx_pkt' = tx_pkt
      /\ A \in Nat /\ tx_pkt.size \in Nat /\ WordBytes \in Nat \ {0}
  BY TxRunPacket, TxPacketNumbers DEF TxDataInv
<1>2. /\ L \in Nat /\ TxTaken \in Nat /\ o \in 0 .. WordBytes - 1
      /\ L = WordBytes * TxTaken + o /\ axisBytes \in Nat
      /\ tx_burst_out = TxTaken % BurstSize
  BY <1>1, TxStreamNumbers
<1>3. /\ n \in Nat \ {0} /\ o + n <= WordBytes
      /\ L + n <= tx_pkt.size /\ TxTaken + 1 <= TxPut
  <2>1. /\ n \in Nat \ {0} /\ o + n <= WordBytes /\ TxTaken + 1 <= TxPut
        /\ TxLast => L + n = tx_pkt.size
        /\ ~TxLast => n = axisBytes /\ L + axisBytes < tx_pkt.size
    BY TxLastIsLast
  <2> HIDE DEF n, L
  <2>2. L + n <= tx_pkt.size
    BY <1>1, <1>2, <2>1
  <2> QED BY <2>1, <2>2
<1>4. sent' = sent \o word
  BY DEF TxTake, TxStreamWord
<1>5. ASSUME NEW k \in 1 .. n
      PROVE  word[k] = A + L + k - 1
  <2>1. word[k] = tx_burst_buf[tx_burst_out][o + k - 1]
    OBVIOUS
  <2>2. o + k - 1 \in Bytes
    <3> HIDE DEF o, n
    <3> QED BY <1>1, <1>2, <1>3 DEF Bytes
  <2>3. TxTaken \in TxTaken .. TxPut - 1
    <3>1. TxPut \in Nat
      BY TxPutBounded
    <3> QED BY <1>2, <1>3, <3>1
  <2>4. TxByte(TxTaken, o + k - 1) = A + L + k - 1
    <3> DEFINE x == WordBytes * TxTaken
    <3>1. TxByte(TxTaken, o + k - 1) = A + x + (o + k - 1)
      BY DEF TxByte
    <3>2. x \in Int /\ L = x + o
      BY <1>1, <1>2
    <3> HIDE DEF x, L, A, o, n
    <3>3. A + x + (o + k - 1) = A + L + k - 1
      BY <1>1, <1>2, <1>3, <3>2
    <3> QED BY <3>1, <3>3 DEF L, A, o
  <2>5. A + L + k - 1 < tx_pkt.addr + tx_pkt.size
    <3>1. k \in 1 .. n /\ A = tx_pkt.addr
      OBVIOUS
    <3> HIDE DEF L, A, n
    <3> QED BY <1>1, <1>2, <1>3, <3>1
  <2>6. tx_burst_buf[TxTaken % BurstSize][o + k - 1] = TxByte(TxTaken, o + k - 1)
    BY <2>2, <2>3, <2>4, <2>5, TxRunPacket DEF TxDataInv, TxFifoHolds
  <2> QED BY <1>2, <2>1, <2>4, <2>6
<1> HIDE DEF A, L, n, o
<1>6. word \in Seq(Int) /\ Len(word) = n
  <2>1. ASSUME NEW k \in 1 .. n PROVE word[k] \in Int
    <3>1. A + L + k - 1 \in Int
      BY <1>1, <1>2, <1>3
    <3> QED BY <1>5, <3>1
  <2>2. DOMAIN word = 1 .. n
    OBVIOUS
  <2>3. word = [k \in 1 .. n |-> word[k]]
    OBVIOUS
  <2> HIDE DEF word
  <2>4. word \in [1 .. n -> Int]
    BY <2>1, <2>2, <2>3
  <2>5. word \in Seq(Int)
    BY <1>3, <2>4
  <2> QED BY <1>3, <2>2, <2>5
<1> HIDE DEF word
<1>7. sent' \in Seq(Int) /\ Len(sent') = L + n
  <2>1. sent \o word \in Seq(Int) /\ Len(sent \o word) = Len(sent) + Len(word)
    BY <1>1, <1>6, Concatenation
  <2> QED BY <1>4, <1>6, <2>1 DEF L
<1>8. ASSUME NEW i \in 1 .. L + n
      PROVE  sent'[i] = A + i - 1
  <2>1. CASE i <= L
    <3>1. i \in 1 .. L
      BY <1>2, <2>1
    <3>2. sent'[i] = sent[i]
      BY <1>1, <1>4, <1>6, <3>1, Concatenation DEF L
    <3>3. sent[i] = A + i - 1
      BY <1>1, <3>1 DEF TxSentBytes, A, L
    <3> QED BY <3>2, <3>3
  <2>2. CASE ~(i <= L)
    <3>1. i - L \in 1 .. n
      BY <1>2, <1>3, <2>2
    <3>2. sent'[i] = word[i - L]
      <4>1. i \in Len(sent) + 1 .. Len(sent) + Len(word)
        BY <1>2, <1>3, <1>6, <2>2 DEF L
      <4> QED BY <1>1, <1>4, <1>6, <4>1, Concatenation DEF L
    <3>3. word[i - L] = A + L + (i - L) - 1
      BY <1>5, <3>1
    <3>4. A + L + (i - L) - 1 = A + i - 1
      BY <1>1, <1>2
    <3> QED BY <3>2, <3>3, <3>4
  <2> QED BY <2>1, <2>2
<1>9. TxSentBytes'
  BY <1>1, <1>7, <1>8 DEF TxSentBytes, A
<1> QED BY <1>7, <1>9 DEF L, n

\* What is left of the FIFO and where the stream is, when it goes on.
LEMMA TxTakeGoesOn ==
    ASSUME TxInv, TxDataInv, TxRun, ~tx_axis_stop, TxTake, ~TxLast
    PROVE  /\ TxStreamPlace' /\ tx_axis_stop' = FALSE
           /\ TxTaken' \in {TxTaken, TxTaken + 1}
           /\ tx_burst_out' = TxTaken' % BurstSize
<1> DEFINE W == WordBytes
           L == Len(sent)
           Q == TxTaken
           o == tx_axis_byte_offs
           w == axisBytes
           L1 == Len(sent')
<1>1. /\ L \in Nat /\ Q \in Nat /\ o \in 0 .. W - 1 /\ L = W * Q + o
      /\ w = 1 \/ (w = W /\ o = 0)
      /\ W \in Nat \ {0}
      /\ tx_burst_out = Q % BurstSize
  BY TxStreamNumbers, DmaAssumption
<1>2. L1 = L + w /\ L1 < tx_pkt.size
  <2>1. Len(sent') = Len(sent) + TxKeep
    BY TxTakeSends
  <2>2. TxKeep = axisBytes /\ Len(sent) + axisBytes < tx_pkt.size
    BY TxLastIsLast
  <2> QED BY <2>1, <2>2
<1>3. /\ tx_axis_byte_offs' = (o + w) % W
      /\ tx_axis_stop' = FALSE
      /\ tx_burst_out' = IF o = W - w THEN NextPtr(tx_burst_out) ELSE tx_burst_out
  BY DEF TxTake
<1>4. TxTaken' = L1 \div W
  BY DEF TxTaken
<1>5. tx_pkt' = tx_pkt /\ axisBytes' = w
  BY TxRunPacket
<1> HIDE DEF W, L, Q, o, w, L1
<1>6. CASE o = W - w
  <2>1. L1 = W * (Q + 1) + 0 /\ Q + 1 \in Nat /\ 0 \in 0 .. W - 1 /\ L1 \in Nat
    <3>1. W * (Q + 1) = W * Q + W /\ W * Q \in Nat
      BY <1>1
    <3> QED BY <1>1, <1>2, <1>6, <3>1
  <2>2. L1 % W = 0 /\ L1 \div W = Q + 1
    BY <1>1, <2>1, QuotientUnique
  <2>3. (o + w) % W = 0
    <3>1. o + w = W * 1 + 0 /\ o + w \in Nat /\ 1 \in Nat
      BY <1>1, <1>6
    <3> QED BY <1>1, <2>1, <3>1, QuotientUnique
  <2>4. tx_burst_out' = (Q + 1) % BurstSize
    BY <1>1, <1>3, <1>6, FifoNext
  <2> QED
    BY <1>2, <1>3, <1>4, <1>5, <2>2, <2>3, <2>4 DEF TxStreamPlace, L1, Q, W
<1>7. CASE o # W - w
  <2>0. w = 1 /\ o + 1 \in 0 .. W - 1
    BY <1>1, <1>7
  <2>1. L1 = W * Q + (o + 1) /\ L1 \in Nat
    <3>1. W * Q \in Nat
      BY <1>1
    <3> QED BY <1>1, <1>2, <2>0, <3>1
  <2>2. L1 % W = o + 1 /\ L1 \div W = Q
    BY <1>1, <2>0, <2>1, QuotientUnique
  <2>3. (o + w) % W = o + 1
    <3>1. o + 1 = W * 0 + (o + 1) /\ o + 1 \in Nat /\ 0 \in Nat
      BY <1>1, <2>0
    <3>2. (o + 1) % W = o + 1
      BY <1>1, <2>0, <3>1, QuotientUnique
    <3> QED BY <2>0, <3>2
  <2>4. tx_burst_out' = Q % BurstSize
    BY <1>1, <1>3, <1>7
  <2>5. ~(axisBytes' > 1)
    BY <1>5, <2>0
  <2> QED
    BY <1>2, <1>3, <1>4, <1>5, <2>2, <2>3, <2>4, <2>5 DEF TxStreamPlace, L1, Q, W
<1> QED BY <1>6, <1>7

\* A word put into the FIFO does not disturb the others.
LEMMA TxFifoMoves ==
    ASSUME TxInv, TxDataInv, TxRun, ~tx_axis_stop,
           TxTaken' \in {TxTaken, TxTaken + 1}, TxTaken' <= TxPut,
           tx_burst_out' = TxTaken' % BurstSize
    PROVE  TxFifoPlace' /\ TxFifoHolds'
<1> DEFINE Q == TxTaken
           Q1 == TxTaken'
           P == TxPut
           B == BurstSize
           size == tx_pkt.addr + tx_pkt.size
<1>1. /\ Q \in Nat /\ P \in Nat /\ Q <= P /\ P - Q < B /\ B \in Nat
      /\ tx_burst_inp = P % B /\ tx_burst_out = Q % B
      /\ Q1 \in {Q, Q + 1} /\ Q1 <= P
      /\ tx_burst_out' = Q1 % B
  BY TxStreamNumbers, TxPutBounded, DmaAssumption
<1>2. /\ tx_pkt' = tx_pkt /\ tx_pkt \in TxPackets /\ DOMAIN tx_burst_buf = Fifo
      /\ TxFifoHolds
  BY TxRunPacket DEF TxDataInv
<1>3. ASSUME NEW m \in Int, NEW k \in Bytes
      PROVE  TxByte(m, k)' = TxByte(m, k)
  BY <1>2 DEF TxByte
<1>4. \A m \in Q .. P - 1 : \A k \in Bytes :
         TxByte(m, k) < size => tx_burst_buf[m % B][k] = TxByte(m, k)
  BY <1>2 DEF TxFifoHolds
<1> HIDE DEF Q, Q1, P, B, size
<1>5. Q1 \in Nat /\ Q <= Q1
  BY <1>1
<1>6. CASE TxPutsNothing
  <2>1. /\ TxPut' = P /\ tx_burst_inp' = tx_burst_inp
        /\ tx_burst_buf' = tx_burst_buf
    BY <1>6 DEF TxPutsNothing, P
  <2>2. P - Q1 < B
    BY <1>1
  <2>3. TxFifoPlace'
    BY <1>1, <2>1, <2>2 DEF TxFifoPlace, Q1, B
  <2>4. Q1 .. P - 1 \subseteq Q .. P - 1
    BY <1>1
  <2>5. TxFifoHolds'
    <3> SUFFICES ASSUME NEW m \in Q1 .. P - 1, NEW k \in Bytes, TxByte(m, k) < size
                 PROVE  tx_burst_buf[m % B][k] = TxByte(m, k)
      BY <1>2, <2>1 DEF TxFifoHolds, Q1, P, B, size, TxByte
    <3> QED BY <1>4, <2>4
  <2> QED BY <2>3, <2>5
<1>7. ASSUME NEW word, TxPutsWord(word)
      PROVE  TxFifoPlace' /\ TxFifoHolds'
  <2>1. /\ TxFree # 0 /\ TxPut' = P + 1
        /\ tx_burst_buf' = [tx_burst_buf EXCEPT ![tx_burst_inp] = word]
        /\ tx_burst_inp' = NextPtr(tx_burst_inp)
        /\ \A k \in Bytes : TxByte(P, k) < size => word[k] = TxByte(P, k)
    BY <1>7 DEF TxPutsWord, TxPush, P, size
  <2>2. P - Q + 1 < B
    <3>1. DataLen(P % B, Q % B) = P - Q
      BY <1>1, FifoDistance DEF B
    <3>2. TxFree = B - 1 - (P - Q)
      BY <1>1, <3>1 DEF TxFree, FreeLen, B
    <3> QED BY <1>1, <2>1, <3>2
  <2>3. tx_burst_inp' = TxPut' % B
    BY <1>1, <2>1, FifoNext DEF B
  <2>4. Q1 <= TxPut' /\ TxPut' - Q1 < B
    BY <1>1, <2>1, <2>2
  <2>5. TxFifoPlace'
    BY <1>1, <2>3, <2>4 DEF TxFifoPlace, Q1, B
  <2>6. P % B \in Fifo
    BY <1>1, FifoNext DEF B
  <2>7. TxFifoHolds'
    <3> SUFFICES ASSUME NEW m \in Q1 .. TxPut' - 1, NEW k \in Bytes,
                        TxByte(m, k) < size
                 PROVE  tx_burst_buf'[m % B][k] = TxByte(m, k)
      BY <1>2 DEF TxFifoHolds, Q1, B, size, TxByte
    <3>0. m \in Q1 .. P
      BY <1>1, <2>1
    <3>1. CASE m = P
      <4>1. tx_burst_buf'[m % B] = word
        BY <1>1, <1>2, <2>1, <2>6, <3>1
      <4> QED BY <2>1, <3>1, <4>1
    <3>2. CASE m # P
      <4>1. m \in Q .. P - 1 /\ m \in Nat
        BY <1>1, <3>0, <3>2
      <4>2. m <= P /\ P - m < B
        BY <1>1, <4>1
      <4>3. P % B # m % B
        BY <1>1, <3>2, <4>1, <4>2, FifoDistance DEF B
      <4>4. m % B \in Fifo
        BY <4>1, FifoNext DEF B
      <4>5. tx_burst_buf'[m % B] = tx_burst_buf[m % B]
        BY <1>1, <1>2, <2>1, <4>3, <4>4
      <4> QED BY <1>4, <4>1, <4>5
    <3> QED BY <3>1, <3>2
  <2> QED BY <2>5, <2>7
<1> QED BY <1>6, <1>7, TxBusMoves DEF TxPuts

-----------------------------------------------------------------------------
(* The engine.                                                             *)

LEMMA TxDataInit ==
    ASSUME TxInit PROVE TxDataInv
  BY DEF TxInit, TxDataInv

LEMMA TxDataIdle ==
    ASSUME TxInv, TxDataInv, NEW start \in BOOLEAN, TxIdle(start)
    PROVE  TxDataInv'
  BY DEF TxIdle, TxDataInv, txPacket

LEMMA TxDataLoad ==
    ASSUME TxInv, TxDataInv, TxLoad
    PROVE  TxDataInv'
<1>1. PICK p \in TxPackets :
        /\ tx_pkt' = p
        /\ tx_word_left' =
              (p.size + (p.addr % WordBytes) + WordBytes - 1) \div WordBytes
  BY DEF TxLoad
<1>2. /\ tx_axis_start' = TRUE /\ tx_axis_byte_offs' = 0
      /\ tx_burst_tail' = FALSE /\ tx_pkt_offs' = 0 /\ sent' = <<>>
      /\ tx_burst_inp' = 0 /\ tx_burst_out' = 0
      /\ tx_axis_stop' = FALSE /\ tx_m_axi_stop' = FALSE
      /\ tx_burst_buf' = tx_burst_buf /\ axisBytes' = axisBytes
      /\ ~m_axi_rd_cyc'
  BY DEF TxLoad, txBus, TxInv, TxTypeOK, TxBurstIsLegal, TxDataInv
<1>3. TxBusWords' = tx_word_left' /\ TxBusWords' \in Nat \ {0}
  BY <1>1, TxLoadWords DEF TxBusWords, TxShift
<1>4. TxRead0' = 0 /\ TxRead0' # TxBusWords'
  <2> DEFINE n == TxBusWords'
  <2>1. n \in Nat \ {0} /\ TxRead0' = n - n
    BY <1>3 DEF TxRead0
  <2> HIDE DEF n
  <2>2. TxRead0' = 0 /\ TxRead0' # n
    BY <2>1
  <2> QED BY <2>2 DEF n
<1>5. WordBytes \in Nat \ {0} /\ BurstSize \in Nat \ {0} /\ p.size \in Nat \ {0}
  BY TxAssumption, DmaAssumption
<1>6. 0 % WordBytes = 0 /\ 0 \div WordBytes = 0 /\ 0 % BurstSize = 0
  <2> DEFINE W == WordBytes
             B == BurstSize
  <2>1. 0 \in Nat /\ 0 = W * 0 + 0 /\ 0 \in 0 .. W - 1
    BY <1>5
  <2>2. 0 = B * 0 + 0 /\ 0 \in 0 .. B - 1
    BY <1>5
  <2> QED BY <1>5, <2>1, <2>2, QuotientUnique
<1>7. TxTaken' = 0 /\ TxPut' = 0 /\ Len(sent') = 0
  BY <1>2, <1>4, <1>6 DEF TxTaken, TxPut
<1>8. TxReadPlace' /\ TxKept'
  BY <1>2, <1>3, <1>4 DEF TxReadPlace, TxKept
<1>9. TxStreamPlace' /\ TxSentBytes'
  BY <1>1, <1>2, <1>5, <1>6, <1>7 DEF TxStreamPlace, TxSentBytes
<1>10. TxFifoPlace' /\ TxFifoHolds'
  BY <1>2, <1>5, <1>6, <1>7 DEF TxFifoPlace, TxFifoHolds
<1>11. sent' \in Seq(Int)
  BY <1>2
<1> QED
  BY <1>1, <1>2, <1>8, <1>9, <1>10, <1>11 DEF TxDataInv

\* What every edge of a packet in progress leaves alone or keeps.
LEMMA TxRunKeeps ==
    ASSUME TxInv, TxDataInv, TxRun
    PROVE  /\ axisBytes' \in AxisWidths
           /\ DOMAIN tx_burst_buf' = Fifo
           /\ tx_axis_start' = TRUE /\ tx_pkt' \in TxPackets
           /\ TxReadPlace' /\ TxKept'
<1>1. DOMAIN tx_burst_buf' = Fifo
  BY TxBusMoves DEF TxPuts, TxPutsNothing, TxPutsWord, TxPush, TxDataInv
<1> QED
  BY <1>1, TxBusMoves, TxRunPacket DEF TxDataInv

LEMMA TxDataRun ==
    ASSUME TxInv, TxDataInv, TxRun
    PROVE  TxDataInv'
<1>0. tx_pkt' = tx_pkt /\ tx_axis_start = TRUE /\ tx_axis_stop \in BOOLEAN
  BY TxRunPacket DEF TxInv, TxTypeOK
<1>1. CASE tx_axis_stop
  <2>1. TxStreamOver /\ TxSentBytes /\ sent \in Seq(Int)
    BY <1>0, <1>1 DEF TxDataInv
  <2>2. tx_m_axi_stop' /\ ~tx_burst_tail' /\ tx_burst_inp' = tx_burst_inp
    BY <2>1, TxBusMoves DEF TxStreamOver
  <2>3. sent' = sent /\ tx_axis_stop' = tx_axis_stop /\ tx_burst_out' = tx_burst_out
    BY <2>1 DEF TxRun, TxTake, TxHold, TxValid, txStream, TxStreamOver
  <2>4. TxStreamOver' /\ TxSentBytes'
    BY <1>0, <2>1, <2>2, <2>3 DEF TxStreamOver, TxSentBytes
  <2> QED
    BY <1>1, <2>1, <2>3, <2>4, TxRunKeeps DEF TxDataInv
<1>2. CASE ~tx_axis_stop /\ TxHold
  <2>1. /\ sent' = sent /\ tx_axis_stop' = tx_axis_stop
        /\ tx_burst_out' = tx_burst_out /\ tx_axis_byte_offs' = tx_axis_byte_offs
    BY <1>2 DEF TxHold, txStream
  <2>2. TxTaken' = TxTaken
    BY <2>1 DEF TxTaken
  <2>3. /\ TxStreamPlace /\ TxSentBytes /\ TxFifoPlace /\ sent \in Seq(Int)
    BY <1>2, TxRunPacket DEF TxDataInv
  <2>4. TxStreamPlace' /\ TxSentBytes'
    BY <2>1, <2>3, TxRunPacket DEF TxStreamPlace, TxSentBytes
  <2>5. TxFifoPlace' /\ TxFifoHolds'
    <3>1. TxTaken' <= TxPut /\ tx_burst_out' = TxTaken' % BurstSize
      BY <2>1, <2>2, <2>3 DEF TxFifoPlace
    <3> QED BY <1>2, <2>2, <3>1, TxFifoMoves
  <2> QED
    BY <1>2, <2>1, <2>3, <2>4, <2>5, TxRunKeeps DEF TxDataInv
<1>3. CASE ~tx_axis_stop /\ TxTake /\ ~TxLast
  <2>1. sent' \in Seq(Int) /\ TxSentBytes'
    BY <1>3, TxTakeSends
  <2>2. /\ TxStreamPlace' /\ tx_axis_stop' = FALSE
        /\ TxTaken' \in {TxTaken, TxTaken + 1}
        /\ tx_burst_out' = TxTaken' % BurstSize
    BY <1>3, TxTakeGoesOn
  <2>3. TxTaken' <= TxPut
    <3>1. TxTaken + 1 <= TxPut /\ TxTaken \in Nat /\ TxPut \in Nat
      BY <1>3, TxLastIsLast, TxStreamNumbers, TxPutBounded
    <3> QED BY <2>2, <3>1
  <2>4. TxFifoPlace' /\ TxFifoHolds'
    BY <1>3, <2>2, <2>3, TxFifoMoves
  <2> QED
    BY <2>1, <2>2, <2>4, TxRunKeeps DEF TxDataInv
<1>4. CASE ~tx_axis_stop /\ TxTake /\ TxLast
  <2>1. /\ sent' \in Seq(Int) /\ TxSentBytes'
        /\ Len(sent') = Len(sent) + TxKeep
    BY <1>4, TxTakeSends
  <2>2. /\ Len(sent) + TxKeep = tx_pkt.size
        /\ tx_m_axi_stop /\ ~tx_burst_tail
        /\ tx_burst_inp = NextPtr(tx_burst_out)
    BY <1>4, TxLastIsLast
  <2>3. tx_m_axi_stop' /\ ~tx_burst_tail' /\ tx_burst_inp' = tx_burst_inp
    BY <2>2, TxBusMoves
  <2>4. tx_axis_stop' = TRUE /\ tx_burst_out' = NextPtr(tx_burst_out)
    BY <1>4 DEF TxTake
  <2>5. TxStreamOver'
    BY <1>0, <2>1, <2>2, <2>3, <2>4 DEF TxStreamOver
  <2> QED
    BY <2>1, <2>4, <2>5, TxRunKeeps DEF TxDataInv
<1> QED
  BY <1>1, <1>2, <1>3, <1>4 DEF TxRun

\* The MAC gets the bytes of the packet, in order and no other, and the end of
\* the packet is marked on its last byte, whatever the alignment and the length
\* of the packet, the width of the stream and the pace of the MAC and the bus.
\* What the FIFO and the shifter hold, as bytes of the packet, is the
\* strengthening.
THEOREM TxStreamsPacket == TxSpec => []TxStreamIsPacket
<1>1. TxInit => TxInv /\ TxDataInv
  BY TxInvInit, TxDataInit
<1>2. TxInv /\ TxDataInv /\ [TxNext]_txVars => (TxInv /\ TxDataInv)'
  <2> SUFFICES ASSUME TxInv, TxDataInv, [TxNext]_txVars
               PROVE  (TxInv /\ TxDataInv)'
    OBVIOUS
  <2>1. CASE \E start \in BOOLEAN : TxIdle(start)
    BY <2>1, TxInvIdle, TxDataIdle
  <2>2. CASE TxLoad
    BY <2>2, TxInvLoad, TxDataLoad
  <2>3. CASE TxRun
    BY <2>3, TxInvRun, TxDataRun
  <2>4. CASE UNCHANGED txVars
    <3>1. TxInv'
      BY <2>4, TxInvStutter
    <3>2. TxDataInv'
      BY <2>4 DEF txVars, txCtl, txPacket, txStream, txFifo, txRead, txBus, TxDataInv,
         TxSentBytes, TxStreamOver, TxStreamPlace, TxReadPlace, TxKept, TxFifoPlace,
         TxFifoHolds, TxTaken, TxPut, TxTailPut, TxRead0, TxBusWords, TxFirst,
         TxShift, TxByte, TxTailNeeded
    <3> QED BY <3>1, <3>2
  <2> QED BY <2>1, <2>2, <2>3, <2>4 DEF TxNext
<1>3. TxInv /\ TxDataInv => TxStreamIsPacket
  <2> SUFFICES ASSUME TxInv, TxDataInv, tx_axis_start PROVE TxStreamIsPacket
    BY DEF TxStreamIsPacket
  <2>1. /\ sent \in Seq(Int) /\ TxSentBytes /\ tx_pkt.size \in Nat
        /\ IF tx_axis_stop THEN TxStreamOver ELSE TxStreamPlace
    BY TxPacketNumbers DEF TxDataInv
  <2>2. CASE tx_axis_stop
    BY <2>1, <2>2 DEF TxStreamOver, TxSentBytes, TxStreamIsPacket
  <2>3. CASE ~tx_axis_stop
    BY <2>1, <2>3 DEF TxStreamPlace, TxSentBytes, TxStreamIsPacket
  <2> QED BY <2>2, <2>3
<1> QED BY <1>1, <1>2, <1>3, PTL DEF TxSpec

-----------------------------------------------------------------------------
(* MDIO: frames and their parts.                                           *)

LEMMA FramePartTypes ==
    ASSUME NEW f \in [Positions -> Bit]
    PROVE  FrameReg(f) \in PhyRegs /\ FrameData(f) \in Values
  BY MdioAssumption DEF FrameReg, FrameData, PhyRegs, Values, Positions, FrameLen

\* What the driver writes to mdio_tx.
LEMMA FrameTypes ==
    ASSUME NEW op \in {ReadOp, WriteOp}, NEW r \in PhyRegs, NEW v \in Values
    PROVE  Frame(op, r, v) \in [Positions -> Bit] /\ FrameOp(Frame(op, r, v)) = op
<1> USE MdioAssumption
<1>1. ASSUME NEW p \in Positions
      PROVE  (IF p <= 2 THEN op[p]
              ELSE IF p \in DataPositions THEN v[p - 2 - RegBits] ELSE r[p - 2]) \in Bit
  <2>1. CASE p <= 2
    <3>1. p = 1 \/ p = 2
      BY <2>1 DEF Positions, FrameLen
    <3> QED BY <2>1, <3>1 DEF ReadOp, WriteOp, Bit
  <2>2. CASE ~(p <= 2) /\ p \in DataPositions
    <3>1. p - 2 - RegBits \in 1 .. DataBits
      BY <2>2 DEF DataPositions, FrameLen
    <3> QED BY <2>2, <3>1 DEF Values
  <2>3. CASE ~(p <= 2) /\ p \notin DataPositions
    <3>1. p - 2 \in 1 .. RegBits
      BY <2>3 DEF Positions, DataPositions, FrameLen
    <3> QED BY <2>3, <3>1 DEF PhyRegs
  <2> QED BY <2>1, <2>2, <2>3
<1>2. Frame(op, r, v) \in [Positions -> Bit]
  BY <1>1 DEF Frame
<1>3. 1 \in Positions /\ 2 \in Positions
  BY DEF Positions, FrameLen
<1>4. Frame(op, r, v)[1] = op[1] /\ Frame(op, r, v)[2] = op[2]
  BY <1>3 DEF Frame
<1> QED
  BY <1>2, <1>4 DEF FrameOp, ReadOp, WriteOp

\* A bit more changes none of the parts that are complete.
LEMMA AppendParts ==
    ASSUME NEW w \in Seq(Bit), NEW b \in Bit
    PROVE  /\ Append(w, b) \in Seq(Bit) /\ Len(Append(w, b)) = Len(w) + 1
           /\ \A k \in 1 .. Len(w) : Append(w, b)[k] = w[k]
           /\ Append(w, b)[Len(w) + 1] = b
           /\ Len(w) >= 2 => FrameOp(Append(w, b)) = FrameOp(w)
           /\ Len(w) >= 2 + RegBits => FrameReg(Append(w, b)) = FrameReg(w)
<1> USE MdioAssumption
<1>1. Len(w) \in Nat
  OBVIOUS
<1>2. \A k \in 1 .. Len(w) : Append(w, b)[k] = w[k]
  OBVIOUS
<1>3. Len(w) >= 2 => FrameOp(Append(w, b)) = FrameOp(w)
  <2>1. Len(w) >= 2 => 1 \in 1 .. Len(w) /\ 2 \in 1 .. Len(w)
    BY <1>1
  <2> QED BY <1>2, <2>1 DEF FrameOp
<1>4. Len(w) >= 2 + RegBits => FrameReg(Append(w, b)) = FrameReg(w)
  <2>1. Len(w) >= 2 + RegBits => \A k \in 1 .. RegBits : 2 + k \in 1 .. Len(w)
    BY <1>1
  <2> QED BY <1>2, <2>1 DEF FrameReg
<1> QED
  BY <1>2, <1>3, <1>4

\* The parts of what has gone over the wire.
LEMMA WireParts ==
    ASSUME NEW w \in Seq(Bit)
    PROVE  /\ Len(w) >= 2 + RegBits => FrameReg(w) \in PhyRegs
           /\ Len(w) >= FrameLen => FrameData(w) \in Values
<1> USE MdioAssumption
<1>1. Len(w) \in Nat /\ \A k \in 1 .. Len(w) : w[k] \in Bit
  OBVIOUS
<1>2. Len(w) >= 2 + RegBits => \A k \in 1 .. RegBits : 2 + k \in 1 .. Len(w)
  BY <1>1
<1>3. Len(w) >= FrameLen => \A k \in 1 .. DataBits : 2 + RegBits + k \in 1 .. Len(w)
  BY <1>1 DEF FrameLen
<1> QED
  BY <1>1, <1>2, <1>3 DEF FrameReg, FrameData, PhyRegs, Values

\* A frame of which every bit went over the wire.
LEMMA SameParts ==
    ASSUME NEW w \in Seq(Bit), NEW f \in [Positions -> Bit], Len(w) = FrameLen,
           \A k \in 1 .. Len(w) : f[k] = w[k]
    PROVE  FrameOp(f) = FrameOp(w) /\ FrameReg(f) = FrameReg(w) /\ FrameData(f) = FrameData(w)
<1> USE MdioAssumption
<1>1. 1 \in 1 .. Len(w) /\ 2 \in 1 .. Len(w)
  BY DEF FrameLen
<1>2. \A k \in 1 .. RegBits : 2 + k \in 1 .. Len(w)
  BY DEF FrameLen
<1>3. \A k \in 1 .. DataBits : 2 + RegBits + k \in 1 .. Len(w)
  BY DEF FrameLen
<1> QED
  BY <1>1, <1>2, <1>3 DEF FrameOp, FrameReg, FrameData

-----------------------------------------------------------------------------
(* MDIO: a bit on the wire.                                                *)

\* What bit it may be.
LEMMA BitOnWire ==
    ASSUME MdioTypeOK, MdioWireInv, mdio_cnt \in Positions, NEW b \in WireBits(mdio_cnt)
    PROVE  /\ b \in Bit
           /\ mdio_cnt <= 2 => b = mdio_tx[mdio_cnt]
           /\ mdio_cnt \in DataPositions /\ mdio_tx[1] = 1 /\ FrameOp(wire) = ReadOp =>
                  b = phy[FrameReg(wire)][mdio_cnt - 2 - RegBits]
<1> USE MdioAssumption DEF MdioTypeOK
<1>1. mdio_tx[mdio_cnt] \in Bit /\ 1 \in Bit
  BY DEF Bit
<1>2. mdio_cnt <= 2 => mdio_cnt \notin DataPositions
  BY DEF DataPositions, Positions, FrameLen
<1>3. mdio_cnt \in DataPositions =>
          phy[FrameReg(wire)][mdio_cnt - 2 - RegBits] \in Bit
  <2> SUFFICES ASSUME mdio_cnt \in DataPositions
               PROVE  phy[FrameReg(wire)][mdio_cnt - 2 - RegBits] \in Bit
    OBVIOUS
  <2>1. Len(wire) >= 2 + RegBits
    BY DEF MdioWireInv, DataPositions, FrameLen
  <2>2. FrameReg(wire) \in PhyRegs
    BY <2>1, WireParts
  <2>3. mdio_cnt - 2 - RegBits \in 1 .. DataBits
    BY DEF DataPositions, FrameLen
  <2> QED BY <2>2, <2>3 DEF Values
<1> DEFINE nic == IF mdio_tx[1] = 1 /\ mdio_cnt \in DataPositions THEN {}
                  ELSE {mdio_tx[mdio_cnt]}
           ph == IF mdio_cnt \in DataPositions /\ FrameOp(wire) = ReadOp
                 THEN {phy[FrameReg(wire)][mdio_cnt - 2 - RegBits]} ELSE {}
<1>4. b \in IF nic \cup ph = {} THEN {1} ELSE nic \cup ph
  BY DEF WireBits
<1>5. b \in Bit
  BY <1>1, <1>3, <1>4
<1>6. mdio_cnt <= 2 => b = mdio_tx[mdio_cnt]
  BY <1>2, <1>4
<1>7. mdio_cnt \in DataPositions /\ mdio_tx[1] = 1 /\ FrameOp(wire) = ReadOp =>
          b = phy[FrameReg(wire)][mdio_cnt - 2 - RegBits]
  BY <1>4
<1> QED
  BY <1>5, <1>6, <1>7

\* What a bit does, with the parts of the frame that it leaves alone.
LEMMA BitStep ==
    ASSUME MdioTypeOK, MdioWireInv, MdioBit
    PROVE  /\ mdio_cnt \in Positions /\ mdio_start /\ ~mdio_done
           /\ Len(wire) = mdio_cnt - 1 /\ Len(wire') = mdio_cnt /\ wire' \in Seq(Bit)
           /\ \A k \in 1 .. Len(wire) : wire'[k] = wire[k]
           /\ wire'[mdio_cnt] \in WireBits(mdio_cnt)
           /\ mdio_rx' = [mdio_rx EXCEPT ![mdio_cnt] = wire'[mdio_cnt]]
           /\ mdio_cnt > 2 => FrameOp(wire') = FrameOp(wire)
           /\ mdio_cnt > 2 + RegBits => FrameReg(wire') = FrameReg(wire)
           /\ phy' = IF mdio_cnt = FrameLen /\ FrameOp(wire) = WriteOp
                         THEN [phy EXCEPT ![FrameReg(wire)] = FrameData(wire')]
                         ELSE phy
           /\ mdio_cnt' = (IF mdio_cnt = FrameLen THEN 0 ELSE mdio_cnt + 1)
           /\ mdio_done' = (mdio_cnt = FrameLen)
           /\ UNCHANGED <<mdio_tx, mdio_start, call, result, givenUp>>
<1> USE MdioAssumption
<1>1. PICK b \in WireBits(mdio_cnt) :
          /\ wire' = Append(wire, b)
          /\ mdio_rx' = [mdio_rx EXCEPT ![mdio_cnt] = b]
          /\ phy' = IF mdio_cnt = FrameLen /\ FrameOp(wire) = WriteOp
                        THEN [phy EXCEPT ![FrameReg(wire)] = FrameData(Append(wire, b))]
                        ELSE phy
  BY DEF MdioBit
<1>2. mdio_cnt \in Positions /\ mdio_start /\ ~mdio_done
  BY DEF MdioBit
<1>3. mdio_cnt \in Int /\ mdio_cnt >= 1 /\ Len(wire) = mdio_cnt - 1 /\ wire \in Seq(Bit)
  BY <1>2 DEF Positions, FrameLen, MdioWireInv, MdioTypeOK
<1>4. b \in Bit
  BY <1>2, BitOnWire
<1>5. /\ wire' \in Seq(Bit) /\ Len(wire') = Len(wire) + 1
      /\ \A k \in 1 .. Len(wire) : wire'[k] = wire[k]
      /\ wire'[Len(wire) + 1] = b
      /\ Len(wire) >= 2 => FrameOp(wire') = FrameOp(wire)
      /\ Len(wire) >= 2 + RegBits => FrameReg(wire') = FrameReg(wire)
  BY <1>1, <1>3, <1>4, AppendParts
<1>6. wire'[mdio_cnt] = b /\ Len(wire') = mdio_cnt
  BY <1>3, <1>5
<1>7. /\ mdio_cnt > 2 => FrameOp(wire') = FrameOp(wire)
      /\ mdio_cnt > 2 + RegBits => FrameReg(wire') = FrameReg(wire)
  BY <1>3, <1>5
<1>8. /\ mdio_cnt' = (IF mdio_cnt = FrameLen THEN 0 ELSE mdio_cnt + 1)
      /\ mdio_done' = (mdio_cnt = FrameLen)
      /\ UNCHANGED <<mdio_tx, mdio_start, call, result, givenUp>>
  BY DEF MdioBit, mdioDrv
<1> QED
  BY <1>1, <1>2, <1>3, <1>5, <1>6, <1>7, <1>8

LEMMA BitKeepsWire ==
    ASSUME MdioTypeOK, MdioWireInv, MdioBit
    PROVE  MdioTypeOK' /\ MdioWireInv'
<1> USE MdioAssumption
<1>1. /\ mdio_cnt \in Positions /\ mdio_start /\ ~mdio_done
      /\ Len(wire) = mdio_cnt - 1 /\ Len(wire') = mdio_cnt /\ wire' \in Seq(Bit)
      /\ \A k \in 1 .. Len(wire) : wire'[k] = wire[k]
      /\ wire'[mdio_cnt] \in WireBits(mdio_cnt)
      /\ mdio_rx' = [mdio_rx EXCEPT ![mdio_cnt] = wire'[mdio_cnt]]
      /\ phy' = IF mdio_cnt = FrameLen /\ FrameOp(wire) = WriteOp
                    THEN [phy EXCEPT ![FrameReg(wire)] = FrameData(wire')]
                    ELSE phy
      /\ mdio_cnt' = (IF mdio_cnt = FrameLen THEN 0 ELSE mdio_cnt + 1)
      /\ mdio_done' = (mdio_cnt = FrameLen)
      /\ UNCHANGED <<mdio_tx, mdio_start, call, result, givenUp>>
  BY BitStep
<1>2. mdio_cnt \in Int /\ mdio_cnt >= 1 /\ mdio_cnt <= FrameLen
      /\ FrameLen \in Int /\ FrameLen = 2 + RegBits + DataBits
  BY <1>1 DEF Positions, FrameLen
<1>3. wire'[mdio_cnt] \in Bit
  BY <1>1, BitOnWire
<1>4. mdio_rx' \in [Positions -> Bit]
  BY <1>1, <1>3 DEF MdioTypeOK
<1>5. phy' \in [PhyRegs -> Values]
  <2>1. mdio_cnt = FrameLen => FrameReg(wire) \in PhyRegs /\ FrameData(wire') \in Values
    BY <1>1, <1>2, WireParts DEF MdioTypeOK
  <2> QED BY <1>1, <2>1 DEF MdioTypeOK
<1>6. mdio_cnt' \in 0 .. FrameLen
  BY <1>1, <1>2
<1>7. MdioTypeOK'
  BY <1>1, <1>4, <1>5, <1>6 DEF MdioTypeOK, FrameOp
<1>8. \A k \in 1 .. Len(wire') : mdio_rx'[k] = wire'[k]
  <2> SUFFICES ASSUME NEW k \in 1 .. Len(wire')
               PROVE  mdio_rx'[k] = wire'[k]
    OBVIOUS
  <2>1. k \in Positions
    BY <1>1, <1>2 DEF Positions
  <2>2. CASE k = mdio_cnt
    BY <1>1, <2>1, <2>2 DEF MdioTypeOK
  <2>3. CASE k # mdio_cnt
    <3>1. k \in 1 .. Len(wire)
      BY <1>1, <1>2, <2>3
    <3>2. mdio_rx'[k] = mdio_rx[k]
      BY <1>1, <2>1, <2>3 DEF MdioTypeOK
    <3> QED BY <1>1, <3>1, <3>2 DEF MdioWireInv
  <2> QED BY <2>2, <2>3
<1>9. /\ mdio_cnt' # 0 => mdio_start' /\ ~mdio_done' /\ Len(wire') = mdio_cnt' - 1
      /\ mdio_cnt' = 0 => Len(wire') = FrameLen
      /\ mdio_done' => mdio_cnt' = 0 /\ Len(wire') = FrameLen
  <2>1. CASE mdio_cnt = FrameLen
    <3>1. mdio_cnt' = 0 /\ Len(wire') = FrameLen
      BY <1>1, <2>1
    <3> QED BY <3>1
  <2>2. CASE mdio_cnt # FrameLen
    <3>1. mdio_cnt' = mdio_cnt + 1 /\ ~mdio_done' /\ mdio_start'
      BY <1>1, <2>2
    <3>2. mdio_cnt' # 0 /\ Len(wire') = mdio_cnt' - 1
      BY <1>1, <1>2, <3>1
    <3> QED BY <3>1, <3>2
  <2> QED BY <2>1, <2>2
<1>10. mdio_cnt' = 0 => Len(wire') \in {0, FrameLen}
  BY <1>9
<1>11. (call' = "poll" => FrameOp(mdio_tx') # <<0, 0>>) /\ mdio_start'
  BY <1>1 DEF MdioWireInv
<1> QED
  BY <1>7, <1>8, <1>9, <1>10, <1>11 DEF MdioWireInv, MdioIdle

LEMMA BitKeepsData ==
    ASSUME MdioInv, MdioBit
    PROVE  MdioDataInv'
<1> USE MdioAssumption
<1>0. MdioTypeOK /\ MdioWireInv /\ MdioDataInv /\ MdioCallInv
  BY DEF MdioInv
<1>1. /\ mdio_cnt \in Positions /\ mdio_start /\ ~mdio_done
      /\ Len(wire) = mdio_cnt - 1 /\ Len(wire') = mdio_cnt /\ wire' \in Seq(Bit)
      /\ \A k \in 1 .. Len(wire) : wire'[k] = wire[k]
      /\ wire'[mdio_cnt] \in WireBits(mdio_cnt)
      /\ mdio_cnt > 2 => FrameOp(wire') = FrameOp(wire)
      /\ mdio_cnt > 2 + RegBits => FrameReg(wire') = FrameReg(wire)
      /\ phy' = IF mdio_cnt = FrameLen /\ FrameOp(wire) = WriteOp
                    THEN [phy EXCEPT ![FrameReg(wire)] = FrameData(wire')]
                    ELSE phy
      /\ mdio_cnt' = (IF mdio_cnt = FrameLen THEN 0 ELSE mdio_cnt + 1)
      /\ UNCHANGED <<mdio_tx, mdio_start, call, result, givenUp>>
  BY <1>0, BitStep
<1>2. mdio_cnt \in Int /\ mdio_cnt >= 1 /\ mdio_cnt <= FrameLen
      /\ FrameLen \in Int /\ FrameLen = 2 + RegBits + DataBits
  BY <1>1 DEF Positions, FrameLen
<1>3. ASSUME mdio_cnt' = 0, FrameOp(wire') = WriteOp
      PROVE  phy'[FrameReg(wire')] = FrameData(wire')
  <2>1. mdio_cnt = FrameLen
    BY <1>1, <1>2, <1>3
  <2>2. FrameOp(wire) = WriteOp /\ FrameReg(wire') = FrameReg(wire)
    BY <1>1, <1>2, <1>3, <2>1
  <2>3. FrameReg(wire) \in PhyRegs
    BY <1>0, <1>1, <1>2, <2>1, WireParts DEF MdioTypeOK
  <2>4. phy' = [phy EXCEPT ![FrameReg(wire)] = FrameData(wire')]
    BY <1>1, <2>1, <2>2
  <2>5. FrameReg(wire) \in DOMAIN phy
    BY <1>0, <2>3 DEF MdioTypeOK
  <2> QED BY <2>2, <2>4, <2>5
<1>4. ASSUME Len(wire') >= 2, FrameOp(wire') = ReadOp
      PROVE  \/ MdioReadIsClean'
             \/ mdio_tx'[1] = 0 /\ call' = "poll" /\ givenUp' > 0
  <2>1. CASE mdio_cnt < 3 + RegBits
    <3>1. DataPositions \cap 1 .. Len(wire') = {}
      BY <1>1, <1>2, <2>1 DEF DataPositions
    <3> QED BY <3>1 DEF MdioReadIsClean, DataPositions, FrameLen
  <2>2. CASE mdio_cnt >= 3 + RegBits
    <3>1. /\ mdio_cnt > 2 /\ mdio_cnt > 2 + RegBits /\ Len(wire) >= 2 + RegBits
          /\ mdio_cnt \in DataPositions
      BY <1>1, <1>2, <2>2 DEF DataPositions
    <3>2. FrameOp(wire) = ReadOp /\ FrameReg(wire') = FrameReg(wire)
      BY <1>1, <1>4, <3>1
    <3>3. phy' = phy
      BY <1>1, <3>2 DEF ReadOp, WriteOp
    <3>4. \/ MdioReadIsClean
          \/ mdio_tx[1] = 0 /\ call = "poll" /\ givenUp > 0
      <4>1. ~MdioPending
        BY <1>2 DEF MdioPending
      <4> QED BY <1>0, <1>1, <3>1, <3>2, <4>1 DEF MdioDataInv
    <3>5. CASE mdio_tx[1] = 0 /\ call = "poll" /\ givenUp > 0
      BY <1>1, <3>5
    <3>6. CASE MdioReadIsClean /\ mdio_tx[1] = 1
      <4>1. wire'[mdio_cnt] = phy[FrameReg(wire)][mdio_cnt - 2 - RegBits]
        BY <1>0, <1>1, <3>1, <3>2, <3>6, BitOnWire
      <4>2. ASSUME NEW p \in DataPositions, p \in 1 .. Len(wire')
            PROVE  wire'[p] = phy[FrameReg(wire)][p - 2 - RegBits]
        <5>1. CASE p = mdio_cnt
          BY <4>1, <5>1
        <5>2. CASE p # mdio_cnt
          <6>1. p \in 1 .. Len(wire)
            BY <1>1, <1>2, <4>2, <5>2
          <6> QED BY <1>1, <3>6, <6>1 DEF MdioReadIsClean
        <5> QED BY <5>1, <5>2
      <4>3. MdioReadIsClean'
        BY <3>2, <3>3, <4>2 DEF MdioReadIsClean, DataPositions, FrameLen
      <4> QED BY <4>3
    <3>7. CASE mdio_tx[1] # 1
      <4>1. mdio_tx[1] \in Bit
        BY <1>0 DEF MdioTypeOK, Positions, FrameLen
      <4>2. mdio_tx[1] = 0
        BY <3>7, <4>1 DEF Bit
      <4>3. wire[1] = 1
        BY <3>2 DEF FrameOp, ReadOp
      <4>4. call = "poll" /\ givenUp > 0
        BY <1>0, <1>1, <1>2, <3>1, <3>7, <4>3 DEF MdioCallInv
      <4> QED BY <1>1, <4>2, <4>4
    <3> QED BY <3>4, <3>5, <3>6, <3>7
  <2> QED BY <1>2, <2>1, <2>2
<1> QED
  BY <1>3, <1>4 DEF MdioDataInv

LEMMA BitKeepsCall ==
    ASSUME MdioInv, MdioBit
    PROVE  MdioCallInv'
<1> USE MdioAssumption
<1>0. MdioTypeOK /\ MdioWireInv /\ MdioCallInv
  BY DEF MdioInv
<1>1. /\ mdio_cnt \in Positions /\ mdio_start
      /\ Len(wire) = mdio_cnt - 1
      /\ \A k \in 1 .. Len(wire) : wire'[k] = wire[k]
      /\ wire'[mdio_cnt] \in WireBits(mdio_cnt)
      /\ UNCHANGED <<mdio_tx, mdio_start, call, result, givenUp>>
  BY <1>0, BitStep
<1>2. mdio_cnt \in Int /\ mdio_cnt >= 1
  BY <1>1 DEF Positions, FrameLen
<1>3. wire'[1] = mdio_tx[1] \/ (call = "poll" /\ givenUp > 0)
  <2>1. CASE mdio_cnt = 1
    BY <1>0, <1>1, <2>1, BitOnWire
  <2>2. CASE mdio_cnt > 1
    <3>1. 1 \in 1 .. Len(wire)
      BY <1>1, <1>2, <2>2
    <3> QED BY <1>0, <1>1, <2>2, <3>1 DEF MdioCallInv
  <2> QED BY <1>2, <2>1, <2>2
<1>4. result # "ok"
  BY <1>0, <1>1 DEF MdioCallInv, MdioIdle
<1> QED
  BY <1>0, <1>1, <1>3, <1>4 DEF MdioCallInv

-----------------------------------------------------------------------------
(* MDIO: the other steps of the transceiver, and the calls.                *)

LEMMA PreambleKeeps ==
    ASSUME MdioInv, MdioPreamble
    PROVE  MdioInv'
<1> USE MdioAssumption
<1>0. MdioTypeOK /\ MdioWireInv /\ MdioDataInv /\ MdioCallInv
  BY DEF MdioInv
<1>1. /\ mdio_start /\ ~mdio_done /\ mdio_cnt' = 1 /\ wire' = <<>> /\ Len(wire') = 0
      /\ UNCHANGED <<mdio_tx, mdio_rx, mdio_start, mdio_done, phy, call, result, givenUp>>
  BY DEF MdioPreamble, mdioDrv
<1>2. FrameLen \in Nat /\ FrameLen >= 4
  BY DEF FrameLen
<1>3. MdioTypeOK'
  BY <1>0, <1>1, <1>2 DEF MdioTypeOK, FrameOp
<1>4. MdioWireInv'
  BY <1>0, <1>1 DEF MdioWireInv, MdioIdle, FrameOp
<1>5. MdioDataInv'
  BY <1>1 DEF MdioDataInv
<1>6. result # "ok"
  BY <1>0, <1>1 DEF MdioCallInv, MdioIdle
<1>7. MdioCallInv'
  BY <1>0, <1>1, <1>6 DEF MdioCallInv
<1> QED
  BY <1>3, <1>4, <1>5, <1>7 DEF MdioInv

LEMMA HandshakeKeeps ==
    ASSUME MdioInv, MdioHandshake
    PROVE  MdioInv'
<1> USE MdioAssumption
<1>0. MdioTypeOK /\ MdioWireInv /\ MdioDataInv /\ MdioCallInv
  BY DEF MdioInv
<1>1. /\ mdio_done /\ ~mdio_start' /\ givenUp' = 0
      /\ mdio_start' \in BOOLEAN /\ mdio_done' \in BOOLEAN
      /\ UNCHANGED <<mdio_tx, mdio_rx, mdio_cnt, wire, phy, call, result>>
  BY <1>0 DEF MdioHandshake, MdioTypeOK
<1>2. mdio_cnt = 0 /\ Len(wire) = FrameLen
  BY <1>0, <1>1 DEF MdioWireInv
<1>3. MdioTypeOK'
  <2>1. FrameOp(mdio_tx') = FrameOp(mdio_tx) /\ givenUp' \in 0 .. MaxGivenUp
    BY <1>1
  <2> QED BY <1>0, <1>1, <2>1 DEF MdioTypeOK
<1>4. MdioWireInv'
  BY <1>0, <1>1, <1>2 DEF MdioWireInv, MdioIdle, FrameOp
<1>5. ~MdioPending
  BY <1>1 DEF MdioPending
<1>6. MdioDataInv'
  BY <1>0, <1>1, <1>5 DEF MdioDataInv, MdioReadIsClean, FrameOp, FrameReg, FrameData
<1>7. result # "ok"
  BY <1>0, <1>1 DEF MdioCallInv, MdioIdle
<1>8. MdioCallInv'
  BY <1>1, <1>2, <1>7 DEF MdioCallInv
<1> QED
  BY <1>3, <1>4, <1>6, <1>8 DEF MdioInv

LEMMA BeginKeeps ==
    ASSUME MdioInv, NEW tx \in [Positions -> Bit], FrameOp(tx) \in {ReadOp, WriteOp},
           MdioBegin(tx)
    PROVE  MdioInv'
<1> USE MdioAssumption
<1>0. MdioTypeOK /\ MdioWireInv /\ MdioDataInv /\ MdioCallInv
  BY DEF MdioInv
<1>1. /\ call = "none" /\ call' = "poll" /\ result' = "none" /\ mdio_tx' = tx
      /\ mdio_start' \in BOOLEAN /\ mdio_done' \in BOOLEAN
      /\ mdio_start' <=> ~(mdio_start /\ mdio_done)
      /\ mdio_done' <=> mdio_start /\ mdio_done
      /\ UNCHANGED <<mdio_rx, mdio_cnt, wire, phy, givenUp>>
  BY DEF MdioBegin
<1>2. FrameOp(tx) # <<0, 0>>
  BY DEF ReadOp, WriteOp
<1>3. MdioTypeOK'
  <2>1. mdio_tx' \in [Positions -> Bit] /\ FrameOp(mdio_tx') \in {ReadOp, WriteOp}
    BY <1>1
  <2> QED BY <1>0, <1>1, <2>1 DEF MdioTypeOK
<1>4. MdioWireInv'
  BY <1>0, <1>1, <1>2 DEF MdioWireInv, MdioIdle, FrameOp
<1>5. ASSUME ~MdioPending', Len(wire) >= 2, FrameOp(wire) = ReadOp
      PROVE  MdioReadIsClean
  <2>1. ~MdioPending
    BY <1>0, <1>1, <1>5 DEF MdioPending
  <2>2. mdio_start
    BY <1>0, <1>1, <1>5 DEF MdioPending, MdioWireInv
  <2> QED BY <1>0, <1>1, <1>5, <2>1, <2>2 DEF MdioDataInv
<1>6. FrameOp(wire') = FrameOp(wire) /\ FrameReg(wire') = FrameReg(wire)
      /\ FrameData(wire') = FrameData(wire)
  BY <1>1 DEF FrameOp, FrameReg, FrameData
<1>7. MdioReadIsClean => MdioReadIsClean'
  BY <1>1, <1>6 DEF MdioReadIsClean
<1>8. MdioDataInv'
  BY <1>0, <1>1, <1>5, <1>6, <1>7 DEF MdioDataInv
<1>9. MdioCallInv'
  <2>1. mdio_cnt > 1 => mdio_start
    BY <1>0 DEF MdioTypeOK, MdioWireInv
  <2> QED BY <1>0, <1>1, <2>1 DEF MdioCallInv
<1> QED
  BY <1>3, <1>4, <1>8, <1>9 DEF MdioInv

LEMMA ReturnKeeps ==
    ASSUME MdioInv, MdioReturn
    PROVE  MdioInv'
<1> USE MdioAssumption
<1>0. MdioTypeOK /\ MdioWireInv /\ MdioDataInv /\ MdioCallInv
  BY DEF MdioInv
<1>1. /\ call = "poll" /\ ~mdio_start /\ ~mdio_done
      /\ call' = "none" /\ result' \in {"ok", "EIO"}
      /\ result' = "ok" => EchoMatches(mdio_tx, mdio_rx)
      /\ UNCHANGED <<mdio_tx, mdio_rx, mdio_start, mdio_done, mdio_cnt, wire, phy, givenUp>>
  BY DEF MdioReturn, MdioIdle, mdioNic
<1>2. mdio_cnt = 0 /\ Len(wire) = FrameLen /\ FrameOp(mdio_tx) # <<0, 0>>
  BY <1>0, <1>1 DEF MdioWireInv, MdioIdle
<1>3. MdioTypeOK'
  BY <1>0, <1>1 DEF MdioTypeOK, FrameOp
<1>4. MdioWireInv'
  BY <1>0, <1>1 DEF MdioWireInv, MdioIdle, FrameOp
<1>5. FrameOp(wire') = FrameOp(wire) /\ FrameReg(wire') = FrameReg(wire)
      /\ FrameData(wire') = FrameData(wire) /\ FrameOp(mdio_tx') = FrameOp(mdio_tx)
  BY <1>1 DEF FrameOp, FrameReg, FrameData
<1>6. MdioReadIsClean => MdioReadIsClean'
  BY <1>1, <1>5 DEF MdioReadIsClean
<1>7. ~MdioPending
  BY <1>1 DEF MdioPending
<1>8. MdioDataInv'
  BY <1>0, <1>1, <1>5, <1>6, <1>7 DEF MdioDataInv
<1>9. EchoMatches(mdio_tx', mdio_rx') <=> EchoMatches(mdio_tx, mdio_rx)
  BY <1>1
<1>10. MdioCallInv'
  BY <1>1, <1>2, <1>5, <1>9 DEF MdioCallInv, MdioIdle
<1> QED
  BY <1>3, <1>4, <1>8, <1>10 DEF MdioInv

\* The one call that may give up during a frame finds the frame as it began.
LEMMA GiveUpKeeps ==
    ASSUME MdioInv, MaxGivenUp <= 1, MdioGiveUp
    PROVE  MdioInv'
<1> USE MdioAssumption
<1>0. MdioTypeOK /\ MdioWireInv /\ MdioDataInv /\ MdioCallInv
  BY DEF MdioInv
<1>1. /\ call = "poll" /\ givenUp < MaxGivenUp /\ givenUp' = givenUp + 1
      /\ call' = "none" /\ result' = "ETIME"
      /\ UNCHANGED <<mdio_tx, mdio_rx, mdio_start, mdio_done, mdio_cnt, wire, phy>>
  BY DEF MdioGiveUp, mdioNic
<1>2. givenUp = 0 /\ givenUp' = 1 /\ givenUp' \in 0 .. MaxGivenUp
  BY <1>0, <1>1 DEF MdioTypeOK
<1>3. MdioTypeOK'
  BY <1>0, <1>1, <1>2 DEF MdioTypeOK, FrameOp
<1>4. MdioWireInv'
  BY <1>0, <1>1 DEF MdioWireInv, MdioIdle, FrameOp
<1>5. FrameOp(wire') = FrameOp(wire) /\ FrameReg(wire') = FrameReg(wire)
      /\ FrameData(wire') = FrameData(wire)
  BY <1>1 DEF FrameOp, FrameReg, FrameData
<1>6. MdioReadIsClean => MdioReadIsClean'
  BY <1>1, <1>5 DEF MdioReadIsClean
<1>7. MdioPending' <=> MdioPending
  BY <1>1 DEF MdioPending
<1>8. MdioDataInv'
  BY <1>0, <1>1, <1>2, <1>5, <1>6, <1>7 DEF MdioDataInv
<1>9. MdioCallInv'
  BY <1>0, <1>1, <1>2 DEF MdioCallInv
<1> QED
  BY <1>3, <1>4, <1>8, <1>9 DEF MdioInv

-----------------------------------------------------------------------------
(* MDIO: a call that reports success is true.                              *)

LEMMA MdioStart == MdioInit => MdioInv
<1> USE MdioAssumption
<1> SUFFICES ASSUME MdioInit PROVE MdioInv
  OBVIOUS
<1>1. FrameLen \in Nat /\ 1 \in Positions /\ 2 \in Positions
  BY DEF FrameLen, Positions
<1>2. Len(wire) = 0 /\ wire \in Seq(Bit)
  BY DEF MdioInit
<1>3. FrameOp(mdio_tx) = <<0, 0>>
      /\ mdio_tx \in [Positions -> Bit] /\ mdio_rx \in [Positions -> Bit]
  BY <1>1 DEF MdioInit, FrameOp, ZeroFrame, Bit
<1>4. MdioTypeOK
  <2>1. phy \in [PhyRegs -> Values] /\ mdio_cnt \in 0 .. FrameLen /\ givenUp \in 0 .. MaxGivenUp
    BY <1>1 DEF MdioInit
  <2> QED BY <1>2, <1>3, <2>1 DEF MdioInit, MdioTypeOK
<1>5. MdioWireInv
  BY <1>2 DEF MdioInit, MdioWireInv
<1>6. MdioDataInv
  BY <1>1, <1>2 DEF MdioInit, MdioDataInv, FrameLen
<1>7. MdioCallInv
  BY DEF MdioInit, MdioCallInv
<1> QED
  BY <1>4, <1>5, <1>6, <1>7 DEF MdioInv

LEMMA MdioStep ==
    ASSUME MaxGivenUp <= 1, MdioInv, [MdioNext]_mdioVars
    PROVE  MdioInv'
<1> USE MdioAssumption
<1>1. CASE MdioPreamble
  BY <1>1, PreambleKeeps
<1>2. CASE MdioBit
  BY <1>2, BitKeepsWire, BitKeepsData, BitKeepsCall DEF MdioInv
<1>3. CASE MdioHandshake
  BY <1>3, HandshakeKeeps
<1>4. CASE MdioRead
  <2>1. PICK r \in PhyRegs : MdioBegin(ReadFrame(r))
    BY <1>4 DEF MdioRead
  <2>2. [k \in 1 .. DataBits |-> 0] \in Values
    BY DEF Values, Bit
  <2>3. ReadFrame(r) \in [Positions -> Bit] /\ FrameOp(ReadFrame(r)) = ReadOp
    BY <2>2, FrameTypes DEF ReadFrame
  <2> QED BY <2>1, <2>3, BeginKeeps
<1>5. CASE MdioWrite
  <2>1. PICK r \in PhyRegs, v \in Values : MdioBegin(WriteFrame(r, v))
    BY <1>5 DEF MdioWrite
  <2>2. WriteFrame(r, v) \in [Positions -> Bit] /\ FrameOp(WriteFrame(r, v)) = WriteOp
    BY FrameTypes DEF WriteFrame
  <2> QED BY <2>1, <2>2, BeginKeeps
<1>6. CASE MdioReturn
  BY <1>6, ReturnKeeps
<1>7. CASE MdioGiveUp
  BY <1>7, GiveUpKeeps
<1>8. CASE UNCHANGED mdioVars
  <2>1. UNCHANGED <<mdio_tx, mdio_rx, mdio_start, mdio_done, mdio_cnt, wire, phy,
                    call, result, givenUp>>
    BY <1>8 DEF mdioVars, mdioNic, mdioDrv
  <2>2. MdioTypeOK' <=> MdioTypeOK
    BY <2>1 DEF MdioTypeOK, FrameOp
  <2>3. MdioWireInv' <=> MdioWireInv
    BY <2>1 DEF MdioWireInv, MdioIdle, FrameOp
  <2>4. MdioReadIsClean' <=> MdioReadIsClean
    BY <2>1 DEF MdioReadIsClean, FrameReg
  <2>5. MdioDataInv' <=> MdioDataInv
    BY <2>1, <2>4 DEF MdioDataInv, MdioPending, FrameOp, FrameReg, FrameData
  <2>6. MdioCallInv' <=> MdioCallInv
    BY <2>1 DEF MdioCallInv, MdioIdle, FrameOp, EchoMatches, FrameReg, FrameData
  <2> QED BY <2>2, <2>3, <2>5, <2>6 DEF MdioInv
<1> QED
  BY <1>1, <1>2, <1>3, <1>4, <1>5, <1>6, <1>7, <1>8 DEF MdioNext

LEMMA MdioInvImplies == MdioInv => MdioOkIsTrue
<1> USE MdioAssumption
<1> SUFFICES ASSUME MdioInv, result = "ok"
             PROVE  phy[FrameReg(mdio_tx)] = IF FrameOp(mdio_tx) = ReadOp
                        THEN FrameData(mdio_rx) ELSE FrameData(mdio_tx)
  BY DEF MdioOkIsTrue
<1>0. MdioTypeOK /\ MdioWireInv /\ MdioDataInv /\ MdioCallInv
  BY DEF MdioInv
<1>1. /\ ~mdio_start /\ ~mdio_done /\ Len(wire) = FrameLen
      /\ EchoMatches(mdio_tx, mdio_rx) /\ FrameOp(mdio_tx) # <<0, 0>>
  BY <1>0 DEF MdioCallInv, MdioIdle
<1>2. mdio_cnt = 0 /\ ~MdioPending
  BY <1>0, <1>1 DEF MdioWireInv, MdioPending
<1>3. /\ FrameOp(mdio_rx) = FrameOp(wire) /\ FrameReg(mdio_rx) = FrameReg(wire)
      /\ FrameData(mdio_rx) = FrameData(wire)
  BY <1>0, <1>1, SameParts DEF MdioTypeOK, MdioWireInv
<1>4. FrameOp(mdio_tx) = FrameOp(wire) /\ FrameReg(mdio_tx) = FrameReg(wire)
  BY <1>1, <1>3 DEF EchoMatches
<1>5. CASE FrameOp(mdio_tx) = ReadOp
  <2>1. mdio_tx[1] = 1
    BY <1>5 DEF FrameOp, ReadOp
  <2>2. MdioReadIsClean
    BY <1>0, <1>1, <1>2, <1>4, <1>5, <2>1 DEF MdioDataInv, FrameLen
  <2>3. FrameReg(wire) \in PhyRegs /\ FrameLen >= 2 + RegBits
    BY <1>0, <1>1, WireParts DEF MdioTypeOK, FrameLen
  <2>4. phy[FrameReg(wire)] \in Values
    BY <1>0, <2>3 DEF MdioTypeOK
  <2>5. \A k \in 1 .. DataBits : phy[FrameReg(wire)][k] = wire[2 + RegBits + k]
    <3> SUFFICES ASSUME NEW k \in 1 .. DataBits
                 PROVE  phy[FrameReg(wire)][k] = wire[2 + RegBits + k]
      OBVIOUS
    <3>1. 2 + RegBits + k \in DataPositions \cap 1 .. Len(wire)
      BY <1>1 DEF DataPositions, FrameLen
    <3>2. wire[2 + RegBits + k] = phy[FrameReg(wire)][2 + RegBits + k - 2 - RegBits]
      BY <2>2, <3>1 DEF MdioReadIsClean
    <3>3. 2 + RegBits + k - 2 - RegBits = k
      OBVIOUS
    <3> QED BY <3>2, <3>3
  <2>6. phy[FrameReg(wire)] = FrameData(wire)
    BY <2>4, <2>5 DEF FrameData, Values
  <2> QED BY <1>3, <1>4, <1>5, <2>6
<1>6. CASE FrameOp(mdio_tx) = WriteOp
  <2>1. FrameOp(mdio_tx) # ReadOp
    BY <1>6 DEF ReadOp, WriteOp
  <2>2. phy[FrameReg(wire)] = FrameData(wire)
    BY <1>0, <1>1, <1>2, <1>4, <1>6 DEF MdioDataInv
  <2>3. FrameData(mdio_tx) = FrameData(mdio_rx)
    BY <1>1, <1>6 DEF EchoMatches
  <2> QED BY <1>3, <1>4, <2>1, <2>2, <2>3
<1> QED
  BY <1>0, <1>1, <1>5, <1>6 DEF MdioTypeOK

\* While no more than one call gives up during a frame, axi_eth_mdio_read and
\* axi_eth_mdio_write report success only for what the PHY really holds.
THEOREM MdioOkTrue ==
    ASSUME MaxGivenUp <= 1
    PROVE  MdioSpec => []MdioOkIsTrue
<1>1. MdioInit => MdioInv
  BY MdioStart
<1>2. MdioInv /\ [MdioNext]_mdioVars => MdioInv'
  BY MdioStep
<1>3. MdioInv => MdioOkIsTrue
  BY MdioInvImplies
<1> QED
  BY <1>1, <1>2, <1>3, PTL DEF MdioSpec
=============================================================================

------------------------------ MODULE EthTxDma ------------------------------
(***************************************************************************)
(* The transmit engine of the Ethernet NIC, ethernet/ethernet.v: it reads  *)
(* a packet from memory in bursts of bus words, shifts the words so that   *)
(* the packet starts at byte 0, and streams it to the MAC.                 *)
(*                                                                         *)
(* A step is a clock edge.  The stream side and the bus side of the engine *)
(* move in the same edge, each from the old values of the other, so an     *)
(* edge is a conjunction of a step of each.  The MAC (tready) and the bus  *)
(* (arready, rvalid) answer whenever they like.                            *)
(*                                                                         *)
(* The flag m_axi_rd_err, which nothing but a debug register shows, is not *)
(* modelled.                                                               *)
(***************************************************************************)
EXTENDS DmaBurst, Sequences

CONSTANT TxPackets      \* [addr, size] of the packets to send

ASSUME TxAssumption ==
    TxPackets \subseteq [addr : Nat, size : Nat \ {0}]

VARIABLES
    tx_start, tx_axis_start, tx_axis_stop, tx_m_axi_stop,
    tx_pkt,                         \* tx_pkt_addr and tx_pkt_size
    tx_pkt_offs, tx_word_left,
    tx_burst_buf, tx_burst_inp, tx_burst_out,
    tx_burst_head, tx_burst_tail, tx_axis_byte_offs,
    m_axi_rd_cyc, m_axi_arvalid,
    rdNext, rdLeft,                 \* the bus: next word, words still to come
    sent                            \* history: bytes the MAC has taken

txCtl == <<tx_start, tx_axis_start>>
txPacket == <<axisBytes, tx_pkt>>
txStream == <<tx_burst_out, tx_axis_byte_offs, tx_axis_stop, sent>>
txFifo == <<tx_burst_buf, tx_burst_inp, tx_burst_head, tx_burst_tail>>
txRead == <<tx_pkt_offs, tx_word_left, tx_m_axi_stop>>
txBus == <<m_axi_rd_cyc, m_axi_arvalid, rdNext, rdLeft>>
txVars == <<txCtl, txPacket, txStream, txFifo, txRead, txBus>>

TxInit ==
    /\ axisBytes \in AxisWidths
    /\ tx_start = FALSE /\ tx_axis_start = FALSE
    /\ tx_axis_stop = FALSE /\ tx_m_axi_stop = FALSE
    /\ tx_pkt = [addr |-> 0, size |-> 0]
    /\ tx_pkt_offs = 0 /\ tx_word_left = 0
    /\ tx_burst_buf = [i \in Fifo |-> ZeroWord]
    /\ tx_burst_inp = 0 /\ tx_burst_out = 0
    /\ tx_burst_head = ZeroWord /\ tx_burst_tail = FALSE
    /\ tx_axis_byte_offs = 0
    /\ m_axi_rd_cyc = FALSE /\ m_axi_arvalid = FALSE
    /\ rdNext = 0 /\ rdLeft = 0
    /\ sent = <<>>

-----------------------------------------------------------------------------
(* The stream side. *)

TxShift == tx_pkt.addr % WordBytes
TxFree == FreeLen(tx_burst_inp, tx_burst_out)
TxValid == tx_burst_inp # tx_burst_out

\* Offset, in the last word of the FIFO, of the last stream word.
TxByteLast == IF axisBytes = 1 THEN (tx_pkt.size - 1) % WordBytes ELSE 0

TxLast ==
    /\ tx_m_axi_stop /\ ~tx_burst_tail
    /\ NextPtr(tx_burst_out) = tx_burst_inp
    /\ tx_axis_byte_offs = TxByteLast

\* Bytes of the stream word the MAC is to keep (tkeep, axis_word_bytes wide).
TxKeep == IF TxLast /\ axisBytes > 1 /\ tx_pkt.size % WordBytes # 0
              THEN tx_pkt.size % WordBytes ELSE axisBytes

TxStreamWord ==
    [k \in 1 .. TxKeep |-> tx_burst_buf[tx_burst_out][tx_axis_byte_offs + k - 1]]

\* The MAC takes a word (tvalid && tready).
TxTake ==
    /\ TxValid
    /\ sent' = sent \o TxStreamWord
    /\ tx_axis_byte_offs' = (tx_axis_byte_offs + axisBytes) % WordBytes
    /\ tx_axis_stop' = (tx_axis_stop \/ TxLast)
    /\ tx_burst_out' =
         IF TxLast \/ tx_axis_byte_offs = WordBytes - axisBytes
             THEN NextPtr(tx_burst_out) ELSE tx_burst_out

TxHold == UNCHANGED txStream

-----------------------------------------------------------------------------
(* The bus side. *)

TxBurstFirst == (tx_pkt.addr + tx_pkt_offs) \div WordBytes

\* Mutant: as many words as there is room for.
TxBurstWantedAll == TxFree - 1

TxBurstWanted == (IF tx_word_left >= TxFree THEN TxFree ELSE tx_word_left) - 1
TxBurstLen == BurstLen(TxBurstFirst, TxBurstWanted)

\* A burst starts, unless it is worth waiting for more room.
TxStartBurst ==
    /\ ~m_axi_rd_cyc /\ ~tx_m_axi_stop
    /\ ~(tx_word_left >= MinBurst /\ TxFree < MinBurst)
    /\ TxFree # 0
    /\ m_axi_rd_cyc' = TRUE /\ m_axi_arvalid' = TRUE
    /\ rdNext' = TxBurstFirst
    /\ rdLeft' = TxBurstLen + 1
    /\ UNCHANGED <<txFifo, txRead>>

\* The bus takes the address (arready).
TxAddress ==
    /\ m_axi_rd_cyc /\ m_axi_arvalid
    /\ m_axi_arvalid' = FALSE
    /\ UNCHANGED <<txFifo, txRead, m_axi_rd_cyc, rdNext, rdLeft>>

\* What the bus reads: the bytes of a word are named by their addresses.
MemoryWord(w) == [k \in Bytes |-> w * WordBytes + k]

TxPush(word) ==
    /\ tx_burst_buf' = [tx_burst_buf EXCEPT ![tx_burst_inp] = word]
    /\ tx_burst_inp' = NextPtr(tx_burst_inp)

\* Mutant: one byte short.
TxTailNeededShort == tx_pkt.size % WordBytes < WordBytes - TxShift

\* Does the end of the packet stay in the head register, after all words came?
TxTailNeeded == (tx_pkt.size - 1) % WordBytes < WordBytes - TxShift

\* A word arrives (rvalid).  An unaligned packet: what is kept of the word
\* before comes first, and the end of this word is kept.
TxBeat ==
    /\ m_axi_rd_cyc /\ ~m_axi_arvalid
    /\ LET word == MemoryWord(rdNext)
       IN  /\ IF TxShift = 0
                  THEN TxPush(word) /\ UNCHANGED <<tx_burst_head, tx_burst_tail>>
                  ELSE /\ tx_burst_head' = ShiftDown(word, TxShift)
                       /\ tx_burst_tail' = (tx_burst_tail \/ TxTailNeeded)
                       /\ IF tx_pkt_offs # 0
                              THEN TxPush(Or(tx_burst_head,
                                             ShiftUp(word, WordBytes - TxShift)))
                              ELSE UNCHANGED <<tx_burst_buf, tx_burst_inp>>
    /\ tx_m_axi_stop' = (tx_m_axi_stop \/ tx_word_left <= 1)
    /\ tx_pkt_offs' = IF tx_word_left <= 1 THEN tx_pkt.size
                      ELSE IF tx_pkt_offs = 0 THEN WordBytes - TxShift
                      ELSE tx_pkt_offs + WordBytes
    /\ tx_word_left' = tx_word_left - 1
    /\ m_axi_rd_cyc' = (rdLeft # 1)
    /\ rdNext' = rdNext + 1 /\ rdLeft' = rdLeft - 1
    /\ UNCHANGED m_axi_arvalid

\* The kept end of the packet follows when the FIFO has room.
TxTail ==
    /\ ~m_axi_rd_cyc /\ tx_m_axi_stop
    /\ tx_burst_tail /\ TxFree # 0
    /\ TxPush(tx_burst_head)
    /\ tx_burst_tail' = FALSE
    /\ UNCHANGED <<tx_burst_head, txRead, txBus>>

\* The bus makes the engine wait, or there is nothing to do.
TxBusWait ==
    /\ \/ m_axi_rd_cyc
       \/ /\ ~m_axi_rd_cyc
          /\ IF tx_m_axi_stop THEN ~tx_burst_tail \/ TxFree = 0
                 ELSE \/ tx_word_left >= MinBurst /\ TxFree < MinBurst
                      \/ TxFree = 0
    /\ UNCHANGED <<txFifo, txRead, txBus>>

-----------------------------------------------------------------------------
(* A clock edge. *)

\* No packet in progress: the engine is cleared, and started if the ring has a
\* packet, the MAC is ready and the flags of the last packet are down.
TxIdle(start) ==
    /\ ~tx_start
    /\ start => ~tx_axis_stop /\ ~tx_m_axi_stop
    /\ tx_start' = start
    /\ tx_burst_inp' = 0 /\ tx_burst_out' = 0
    /\ tx_axis_start' = FALSE
    /\ tx_axis_stop' = FALSE /\ tx_m_axi_stop' = FALSE
    /\ UNCHANGED <<txPacket, tx_burst_buf, tx_burst_head, tx_burst_tail,
                   tx_pkt_offs, tx_word_left, tx_axis_byte_offs, txBus, sent>>

\* The descriptor is loaded.
TxLoad ==
    /\ tx_start /\ ~tx_axis_start
    /\ \E p \in TxPackets :
         /\ tx_pkt' = p
         /\ tx_word_left' =
              (p.size + (p.addr % WordBytes) + WordBytes - 1) \div WordBytes
    /\ tx_axis_start' = TRUE
    /\ tx_axis_byte_offs' = 0
    /\ tx_burst_tail' = FALSE
    /\ tx_pkt_offs' = 0
    /\ sent' = <<>>
    /\ UNCHANGED <<axisBytes, tx_start, tx_burst_buf, tx_burst_inp,
                   tx_burst_out, tx_burst_head, tx_axis_stop, tx_m_axi_stop,
                   txBus>>

TxBusStep == TxStartBurst \/ TxAddress \/ TxBeat \/ TxTail \/ TxBusWait

\* The packet moves; it is done one edge after both sides have stopped.
TxRun ==
    /\ tx_start /\ tx_axis_start
    /\ tx_start' = ~(tx_axis_stop /\ tx_m_axi_stop)
    /\ TxTake \/ TxHold
    /\ TxBusStep
    /\ UNCHANGED <<tx_axis_start, txPacket>>

TxNext == (\E start \in BOOLEAN : TxIdle(start)) \/ TxLoad \/ TxRun

\* What must not be put off for ever: the clock, the MAC's taking of words, the
\* answers of the bus.
TxClock == TxLoad \/ TxRun
TxMacServes == TxRun /\ TxTake
TxBusServes == TxRun /\ (TxStartBurst \/ TxAddress \/ TxBeat \/ TxTail)

TxSpec == TxInit /\ [][TxNext]_txVars

-----------------------------------------------------------------------------
(* Properties. *)

TxTypeOK ==
    /\ tx_start \in BOOLEAN /\ tx_axis_start \in BOOLEAN
    /\ tx_axis_stop \in BOOLEAN /\ tx_m_axi_stop \in BOOLEAN
    /\ m_axi_rd_cyc \in BOOLEAN /\ m_axi_arvalid \in BOOLEAN
    /\ tx_pkt \in [addr : Nat, size : Nat]
    /\ tx_pkt_offs \in Nat /\ tx_word_left \in Nat
    /\ tx_burst_inp \in Fifo /\ tx_burst_out \in Fifo
    /\ rdNext \in Nat /\ rdLeft \in Nat

\* The MAC gets the bytes of the packet, in order and no other, and the end of
\* the packet is marked on its last byte (the shifter, tx_burst_tail, tlast).
TxStreamIsPacket ==
    tx_axis_start =>
        /\ Len(sent) <= tx_pkt.size
        /\ \A i \in 1 .. Len(sent) : sent[i] = tx_pkt.addr + i - 1
        /\ tx_axis_stop <=> Len(sent) = tx_pkt.size

\* A read burst belongs to a packet in progress and stays in its page, the FIFO
\* has room for every word it brings, and none of them lies after the packet
\* (tx_burst_arlen, tx_burst_arlen4k).
TxBurstIsLegal ==
    m_axi_rd_cyc =>
        /\ tx_start /\ tx_axis_start
        /\ rdLeft > 0
        /\ InOnePage(rdNext, rdLeft - 1)
        /\ rdLeft <= TxFree
        /\ rdLeft <= tx_word_left
=============================================================================

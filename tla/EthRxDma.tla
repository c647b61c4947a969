------------------------------ MODULE EthRxDma ------------------------------
(***************************************************************************)
(* The receive engine of the Ethernet NIC, ethernet/ethernet.v: it takes a *)
(* frame from the MAC, collects bus words, and writes them to a buffer in  *)
(* memory in bursts, shifted when the buffer is not aligned and cut off    *)
(* when it is full.                                                        *)
(*                                                                         *)
(* A step is a clock edge, as in EthTxDma.  The bytes of a frame are named *)
(* 1, 2, ...; the word of the MAC that ends the frame has Junk where tkeep *)
(* is clear.  A narrow stream (one byte) is shifted by where the bytes go  *)
(* into the first word, a wide one by rx_burst_tail at the bus.            *)
(***************************************************************************)
EXTENDS DmaBurst

CONSTANTS RxBuffers,    \* [addr, size] of receive buffers
          FrameSizes,   \* bytes of a frame
          MemoryBytes   \* addresses that are looked at

SizeRange == 16384      \* sizes are registers of 14 bits (pkt_size_bits_range)

\* A frame and a buffer are longer than a word (Ethernet frames have at least
\* 60 bytes): rx_pkt_addr does not add up for a frame of one word.
ASSUME RxAssumption ==
    /\ RxBuffers \subseteq [addr : Nat, size : Nat]
    /\ \A b \in RxBuffers : b.size > WordBytes /\ b.size + WordBytes <= SizeRange
    /\ MemoryBytes \in Nat
    /\ \A b \in RxBuffers : b.addr + b.size <= MemoryBytes
    /\ FrameSizes \subseteq Nat
    /\ \A n \in FrameSizes : n > WordBytes

VARIABLES
    frame, given,                   \* the MAC: [size, bad], bytes handed over
    rx_start, rx_axis_start, rx_axis_stop, rx_m_axi_stop0, rx_m_axi_stop,
    rx_buf,                         \* rx_addr and rx_size of the descriptor
    rx_done, rx_status,             \* what the descriptor reports
    rx_burst_buf, rx_burst_inp, rx_burst_out, rx_axis_byte_offs,
    rx_axis_keep, rx_bad_frame,
    rx_pkt_addr, rx_word_left, rx_wstrb, rx_burst_tail,
    m_axi_wr_cyc, m_axi_awvalid, m_axi_wvalid, m_axi_awaddr, m_axi_awlen,
    m_axi_wcnt, m_axi_wr_err,
    memory

rxMac == <<frame, given>>
rxCtl == <<rx_start, rx_axis_start>>
rxDescriptor == <<rx_done, rx_status>>
rxPacket == <<axisBytes, rx_buf>>
rxStream == <<rx_axis_stop, rx_burst_inp, rx_burst_buf, rx_axis_byte_offs,
              rx_axis_keep, rx_bad_frame, given>>
rxFifoOut == <<rx_burst_out, rx_burst_tail>>
rxWrite == <<rx_m_axi_stop0, rx_m_axi_stop, rx_pkt_addr, rx_word_left, rx_wstrb>>
rxBus == <<m_axi_wr_cyc, m_axi_awvalid, m_axi_wvalid, m_axi_awaddr,
           m_axi_awlen, m_axi_wcnt, m_axi_wr_err>>
rxVars == <<rxMac, rxCtl, rxDescriptor, rxPacket, rxStream, rxFifoOut, rxWrite,
            rxBus, memory>>

NoFrame == [size |-> 0, bad |-> FALSE]
Untouched == -2     \* a byte of memory the engine has not written

RxInit ==
    /\ axisBytes \in AxisWidths
    /\ frame = NoFrame /\ given = 0
    /\ rx_start = FALSE /\ rx_axis_start = FALSE
    /\ rx_axis_stop = FALSE /\ rx_m_axi_stop0 = FALSE /\ rx_m_axi_stop = FALSE
    /\ rx_buf = [addr |-> 0, size |-> 0]
    /\ rx_done = 0 /\ rx_status = [bus |-> FALSE, bad |-> FALSE]
    /\ rx_burst_buf = [i \in Fifo |-> ZeroWord]
    /\ rx_burst_inp = 0 /\ rx_burst_out = 0 /\ rx_axis_byte_offs = 0
    /\ rx_axis_keep = 0 /\ rx_bad_frame = FALSE
    /\ rx_pkt_addr = 0 /\ rx_word_left = 0
    /\ rx_wstrb = {} /\ rx_burst_tail = ZeroWord
    /\ m_axi_wr_cyc = FALSE /\ m_axi_awvalid = FALSE /\ m_axi_wvalid = FALSE
    /\ m_axi_awaddr = 0 /\ m_axi_awlen = 0 /\ m_axi_wcnt = 0
    /\ m_axi_wr_err = FALSE
    /\ memory = [a \in 0 .. MemoryBytes - 1 |-> Untouched]

-----------------------------------------------------------------------------
(* The stream side. *)

RxOffset == rx_buf.addr % WordBytes
RxShift == IF axisBytes > 1 THEN RxOffset ELSE 0
RxData == DataLen(rx_burst_inp, rx_burst_out)

RxReady ==
    /\ rx_axis_start /\ ~rx_axis_stop
    /\ NextPtr(rx_burst_inp) # rx_burst_out \/ rx_m_axi_stop

\* The word the MAC offers goes to its place in the word of the FIFO.
RxPlace(word) ==
    [k \in Bytes |->
        LET i == k - rx_axis_byte_offs
        IN  IF i \notin 0 .. axisBytes - 1 THEN word[k]
            ELSE IF given + i < frame.size THEN given + i + 1 ELSE Junk]

\* The MAC hands over a word (tvalid && tready); the last one tells how many of
\* its bytes count and whether the frame is bad.
RxTake ==
    /\ RxReady
    /\ rx_burst_buf' = [rx_burst_buf EXCEPT ![rx_burst_inp] = RxPlace(@)]
    /\ LET last == given + axisBytes >= frame.size
           full == rx_axis_byte_offs >= WordBytes - axisBytes
       IN  /\ given' = IF last THEN frame.size ELSE given + axisBytes
           /\ rx_burst_inp' = IF last \/ full THEN NextPtr(rx_burst_inp)
                              ELSE rx_burst_inp
           /\ rx_axis_byte_offs' =
                CASE last -> rx_axis_byte_offs
                  [] ~last /\ full -> 0
                  [] OTHER -> rx_axis_byte_offs + axisBytes
           /\ rx_axis_keep' = IF last THEN frame.size - given ELSE rx_axis_keep
           /\ rx_bad_frame' = IF last THEN frame.bad ELSE rx_bad_frame
           /\ rx_axis_stop' = last

RxNoWord == UNCHANGED rxStream

-----------------------------------------------------------------------------
(* The bus side. *)

\* Mutant: what the shift has kept back is forgotten.
RxKeepCountNoShift == rx_axis_keep

RxKeepCount == rx_axis_keep + RxShift

\* One more word than the FIFO holds: what the shift has kept back.
RxOneMore == RxShift # 0 /\ rx_axis_stop /\ RxKeepCount > WordBytes

RxLastWord ==
    /\ rx_axis_stop
    /\ rx_burst_inp = IF RxOneMore THEN rx_burst_out ELSE NextPtr(rx_burst_out)

\* rx_size_al: the buffer, from the start of its first word.
RxSizeAligned == rx_buf.size + RxOffset

\* Bytes of the last word of the buffer that belong to it (rx_wstrb_last).
RxStrobeLast ==
    {k \in Bytes : RxSizeAligned % WordBytes = 0 \/ k < RxSizeAligned % WordBytes}

\* Mutant: the end of the buffer is not looked at.
RxStrobeNoEnd == rx_wstrb

RxStrobe == IF rx_word_left <= 1 THEN rx_wstrb \cap RxStrobeLast ELSE rx_wstrb

RxWriteData == IF RxShift = 0 THEN rx_burst_buf[rx_burst_out]
               ELSE Or(rx_burst_tail, ShiftUp(rx_burst_buf[rx_burst_out], RxShift))

RxBurstFirst == rx_pkt_addr \div WordBytes
RxBurstWanted ==
    (IF rx_word_left >= RxData THEN RxData ELSE rx_word_left)
        - (IF RxOneMore THEN 0 ELSE 1)
RxBurstLen == BurstLen(RxBurstFirst, RxBurstWanted)

\* A burst starts, unless the frame goes on and more data are worth waiting for.
RxStartBurst ==
    /\ ~m_axi_wr_cyc /\ ~rx_m_axi_stop
    /\ rx_axis_stop \/ RxData >= MinBurst
    /\ RxData # 0 \/ RxOneMore
    /\ m_axi_wr_cyc' = TRUE /\ m_axi_awvalid' = TRUE /\ m_axi_wvalid' = TRUE
    /\ m_axi_wcnt' = 0
    /\ m_axi_awaddr' = RxBurstFirst
    /\ m_axi_awlen' = RxBurstLen
    /\ UNCHANGED <<rxDescriptor, rxFifoOut, rxWrite, m_axi_wr_err, memory>>

\* The bus takes a data word (wready).
RxBeat ==
    /\ m_axi_wvalid
    /\ memory' = [a \in DOMAIN memory |->
                    IF a \div WordBytes = m_axi_awaddr + m_axi_wcnt
                       /\ a % WordBytes \in RxStrobe
                        THEN RxWriteData[a % WordBytes] ELSE memory[a]]
    /\ IF RxData # 0
           THEN /\ rx_burst_tail' = ShiftDown(rx_burst_buf[rx_burst_out],
                                              WordBytes - RxShift)
                /\ rx_burst_out' = NextPtr(rx_burst_out)
           ELSE UNCHANGED rxFifoOut
    /\ IF m_axi_wcnt = m_axi_awlen
           THEN m_axi_wvalid' = FALSE /\ UNCHANGED m_axi_wcnt
           ELSE m_axi_wcnt' = m_axi_wcnt + 1 /\ UNCHANGED m_axi_wvalid
    /\ rx_pkt_addr' =
         IF RxLastWord
             THEN rx_pkt_addr + rx_axis_byte_offs + RxKeepCount
                    - (IF RxOneMore THEN WordBytes ELSE 0)
             ELSE (RxBurstFirst + 1) * WordBytes
    /\ IF RxLastWord \/ rx_word_left <= 1
           THEN rx_m_axi_stop0' = TRUE /\ rx_wstrb' = {}
           ELSE rx_wstrb' = Bytes /\ UNCHANGED rx_m_axi_stop0
    /\ rx_word_left' = (rx_word_left - 1) % SizeRange
    /\ UNCHANGED <<rxDescriptor, rx_m_axi_stop, m_axi_wr_cyc, m_axi_awaddr,
                   m_axi_awlen, m_axi_wr_err>>

\* The bus acknowledges the burst (bvalid), with an error or without.  The
\* status is taken before the error is: the error of this very burst is not in
\* it.
RxAcknowledge(error) ==
    /\ m_axi_wr_cyc /\ ~m_axi_awvalid /\ ~m_axi_wvalid
    /\ m_axi_wr_cyc' = FALSE
    /\ m_axi_wr_err' = (m_axi_wr_err \/ error)
    /\ rx_m_axi_stop' = (rx_m_axi_stop \/ rx_m_axi_stop0)
    /\ rx_done' = rx_pkt_addr - rx_buf.addr
    /\ rx_status' = [bus |-> m_axi_wr_err, bad |-> rx_bad_frame]
    /\ UNCHANGED <<rxFifoOut, rx_m_axi_stop0, rx_pkt_addr, rx_word_left,
                   rx_wstrb, m_axi_awvalid, m_axi_wvalid, m_axi_awaddr,
                   m_axi_awlen, m_axi_wcnt, memory>>

\* The bus makes the engine wait, or there is nothing to do.
RxBusWait ==
    /\ \/ m_axi_wr_cyc
       \/ rx_m_axi_stop
       \/ ~rx_axis_stop /\ RxData < MinBurst
       \/ RxData = 0 /\ ~RxOneMore
    /\ UNCHANGED <<rxDescriptor, rxFifoOut, rxWrite, rxBus, memory>>

-----------------------------------------------------------------------------
(* A clock edge. *)

\* No packet in progress: the engine is cleared, and started if the ring has a
\* buffer, the MAC a frame, and the flags of the last packet are down.
RxIdle ==
    /\ ~rx_start
    /\ \/ rx_start' = FALSE /\ UNCHANGED rxMac
       \/ /\ ~rx_axis_stop /\ ~rx_m_axi_stop
          /\ rx_start' = TRUE
          /\ frame' \in [size : FrameSizes, bad : BOOLEAN]
          /\ given' = 0
    /\ rx_burst_inp' = 0 /\ rx_burst_out' = 0
    /\ rx_axis_start' = FALSE
    /\ rx_axis_stop' = FALSE /\ rx_m_axi_stop0' = FALSE /\ rx_m_axi_stop' = FALSE
    /\ UNCHANGED <<rxDescriptor, rxPacket, rx_burst_buf, rx_axis_byte_offs,
                   rx_axis_keep, rx_bad_frame, rx_burst_tail, rx_pkt_addr,
                   rx_word_left, rx_wstrb, rxBus, memory>>

\* The descriptor is loaded.  (The memory of the buffer is the next one's.)
RxLoad ==
    /\ rx_start /\ ~rx_axis_start
    /\ rx_axis_start' = TRUE
    /\ \E b \in RxBuffers :
         LET offset == b.addr % WordBytes
         IN  /\ rx_buf' = b
             /\ rx_pkt_addr' = b.addr
             /\ rx_axis_byte_offs' = IF axisBytes > 1 THEN 0 ELSE offset
             /\ rx_wstrb' = {k \in Bytes : k >= offset}
             /\ rx_word_left' = (b.size + offset + WordBytes - 1) \div WordBytes
    /\ rx_done' = 0 /\ rx_status' = [bus |-> FALSE, bad |-> TRUE]
    /\ rx_burst_tail' = ZeroWord
    /\ rx_bad_frame' = TRUE
    /\ m_axi_wr_err' = FALSE
    /\ memory' = [a \in DOMAIN memory |-> Untouched]
    /\ UNCHANGED <<axisBytes, rxMac, rx_start, rx_axis_stop, rx_burst_inp,
                   rx_burst_buf, rx_axis_keep, rx_burst_out, rx_m_axi_stop0,
                   rx_m_axi_stop, m_axi_wr_cyc, m_axi_awvalid, m_axi_wvalid,
                   m_axi_awaddr, m_axi_awlen, m_axi_wcnt>>

\* The bus may take the address with a data word, or before or after it.
RxAddressStep ==
    \/ m_axi_awvalid /\ m_axi_awvalid' = FALSE
    \/ UNCHANGED m_axi_awvalid

RxBusStep ==
    \/ RxStartBurst
    \/ RxBeat /\ RxAddressStep
    \/ /\ m_axi_awvalid /\ m_axi_awvalid' = FALSE
       /\ UNCHANGED <<rxDescriptor, rxFifoOut, rxWrite, m_axi_wr_cyc,
                      m_axi_wvalid, m_axi_awaddr, m_axi_awlen, m_axi_wcnt,
                      m_axi_wr_err, memory>>
    \/ \E error \in BOOLEAN : RxAcknowledge(error)
    \/ RxBusWait

\* The frame moves; it is done one edge after both sides have stopped.
RxRun ==
    /\ rx_start /\ rx_axis_start
    /\ rx_start' = ~(rx_axis_stop /\ rx_m_axi_stop)
    /\ RxTake \/ RxNoWord
    /\ RxBusStep
    /\ UNCHANGED <<frame, rx_axis_start, rxPacket>>

RxNext == RxIdle \/ RxLoad \/ RxRun

RxSpec == RxInit /\ [][RxNext]_rxVars

\* What must not be put off for ever.
RxClock == RxLoad \/ RxRun
RxMacServes == RxRun /\ RxTake
RxBusServes == RxRun /\ RxBusStep /\ ~RxBusWait

-----------------------------------------------------------------------------
(* Properties. *)

RxTypeOK ==
    /\ rx_start \in BOOLEAN /\ rx_axis_start \in BOOLEAN
    /\ rx_axis_stop \in BOOLEAN
    /\ rx_m_axi_stop0 \in BOOLEAN /\ rx_m_axi_stop \in BOOLEAN
    /\ m_axi_wr_cyc \in BOOLEAN /\ m_axi_wvalid \in BOOLEAN
    /\ rx_burst_inp \in Fifo /\ rx_burst_out \in Fifo
    /\ rx_word_left \in 0 .. SizeRange - 1 /\ rx_pkt_addr \in Nat
    /\ axisBytes \in AxisWidths /\ rx_buf \in [addr : Nat, size : Nat]
    /\ frame \in [size : Nat, bad : BOOLEAN] /\ given \in 0 .. frame.size
    /\ rx_axis_byte_offs \in Nat /\ rx_axis_keep \in Nat
    /\ m_axi_awaddr \in Nat /\ m_axi_awlen \in Fifo /\ m_axi_wcnt \in Fifo

InBuffer(a) == a >= rx_buf.addr /\ a < rx_buf.addr + rx_buf.size
Smaller(m, n) == IF m < n THEN m ELSE n

\* No byte outside the buffer is ever written, whatever the alignment of the
\* buffer and the length of the frame (rx_wstrb, rx_wstrb_last, rx_word_left).
RxStaysInBuffer ==
    rx_axis_start => \A a \in DOMAIN memory : memory[a] # Untouched => InBuffer(a)

\* When the engine is done the buffer holds the frame, or as much of the frame
\* as it can, and if the frame fits the descriptor says how long and how good
\* it is.
RxFrameIsStored ==
    rx_axis_start /\ rx_axis_stop /\ rx_m_axi_stop =>
        /\ \A i \in 1 .. Smaller(frame.size, rx_buf.size) :
              memory[rx_buf.addr + i - 1] = i
        /\ frame.size <= rx_buf.size =>
              rx_done = frame.size /\ rx_status.bad = frame.bad

\* A write burst belongs to a frame in progress and stays in its page, and for
\* each of its words there are data when its turn comes: from the FIFO, or what
\* the shift has kept back (rx_burst_awlen1p, rx_burst_awlen4k).
RxBurstIsLegal ==
    /\ m_axi_wr_cyc => rx_start /\ InOnePage(m_axi_awaddr, m_axi_awlen)
    /\ m_axi_wvalid =>
           RxData + (IF RxOneMore THEN 1 ELSE 0) > m_axi_awlen - m_axi_wcnt
=============================================================================

------------------------------ MODULE EthMdio ------------------------------
(***************************************************************************)
(* MDIO, the two-wire bus to the registers of the Ethernet PHY: the        *)
(* transceiver of ethernet/ethernet.v, and axi_eth_mdio_read and           *)
(* axi_eth_mdio_write of patches/fpga-axi-eth.c, which start a frame, poll *)
(* until the transceiver is idle, and give up after ten polls.             *)
(*                                                                         *)
(* A frame that was given up goes on, and the next call changes mdio_tx    *)
(* under it.  A frame takes 3250 clocks, ten polls at least 40 us: with a  *)
(* clock of more than 82 MHz no call gives up, with one of more than 41    *)
(* MHz no more than one during a frame (MaxGivenUp).                       *)
(*                                                                         *)
(* A frame here is the two bits of the operation (01 writes, 10 reads),    *)
(* the register number and the data; the code has ten bits of address and  *)
(* sixteen of data, and around them start and turnaround bits that nobody  *)
(* compares.  A step of the transceiver is one bit of a frame; the         *)
(* preamble is a step of its own.                                          *)
(***************************************************************************)
EXTENDS Integers, Sequences

CONSTANTS RegBits,      \* width of a register number
          DataBits,     \* width of a register
          PhyReset,     \* what the registers of the PHY hold at first
          MaxGivenUp    \* calls that may give up during one frame

Bit == {0, 1}
PhyRegs == [1 .. RegBits -> Bit]
Values == [1 .. DataBits -> Bit]

ASSUME MdioAssumption ==
    /\ RegBits \in Nat \ {0} /\ DataBits \in Nat \ {0}
    /\ PhyReset \in [PhyRegs -> Values] /\ MaxGivenUp \in Nat

FrameLen == 2 + RegBits + DataBits
Positions == 1 .. FrameLen
DataPositions == 3 + RegBits .. FrameLen
ReadOp == <<1, 0>>
WriteOp == <<0, 1>>

\* The parts of a frame, and a frame of them.
FrameOp(f) == <<f[1], f[2]>>
FrameReg(f) == [k \in 1 .. RegBits |-> f[2 + k]]
FrameData(f) == [k \in 1 .. DataBits |-> f[2 + RegBits + k]]
Frame(op, r, v) ==
    [p \in Positions |-> IF p <= 2 THEN op[p]
                         ELSE IF p \in DataPositions THEN v[p - 2 - RegBits] ELSE r[p - 2]]

\* mdio_tx as axi_eth_mdio_read and axi_eth_mdio_write build it.
ReadFrame(r) == Frame(ReadOp, r, [k \in 1 .. DataBits |-> 0])
WriteFrame(r, v) == Frame(WriteOp, r, v)

\* Mutant: a read that does not compare the register number.
EchoOpOnly(tx, rx) ==
    FrameOp(tx) = FrameOp(rx) /\ (FrameOp(tx) = WriteOp => tx = rx)

\* tx_chk against rx_chk: all of a write, all but the data of a read.
EchoMatches(tx, rx) ==
    /\ FrameOp(tx) = FrameOp(rx) /\ FrameReg(tx) = FrameReg(rx)
    /\ FrameOp(tx) = WriteOp => FrameData(tx) = FrameData(rx)

VARIABLES
    mdio_tx, mdio_rx, mdio_start, mdio_done,
    mdio_cnt,               \* 0: preamble, then the position being sent
    wire,                   \* what the PHY has seen of the frame
    phy,                    \* the registers of the PHY
    call,                   \* the call of the driver in progress
    result,                 \* how the last call ended
    givenUp                 \* calls that gave up during this frame

mdioNic == <<mdio_rx, mdio_start, mdio_done, mdio_cnt, wire, phy>>
mdioDrv == <<call, result, givenUp>>
mdioVars == <<mdio_tx, mdioNic, mdioDrv>>

ZeroFrame == [p \in Positions |-> 0]

MdioInit ==
    /\ mdio_tx = ZeroFrame /\ mdio_rx = ZeroFrame
    /\ mdio_start = FALSE /\ mdio_done = FALSE
    /\ mdio_cnt = 0 /\ wire = <<>>
    /\ phy = PhyReset
    /\ call = "none" /\ result = "none" /\ givenUp = 0

-----------------------------------------------------------------------------
(* The transceiver and the PHY.                                            *)

\* Bits of position p the wire may carry: what the NIC drives, what the PHY
\* drives (the data of a read), either of them when both do, the pull-up when
\* none does.
WireBits(p) ==
    LET nic == IF mdio_tx[1] = 1 /\ p \in DataPositions THEN {} ELSE {mdio_tx[p]}
        ph  == IF p \in DataPositions /\ FrameOp(wire) = ReadOp
                   THEN {phy[FrameReg(wire)][p - 2 - RegBits]} ELSE {}
    IN  IF nic \cup ph = {} THEN {1} ELSE nic \cup ph

MdioPreamble ==
    /\ mdio_start /\ ~mdio_done /\ mdio_cnt = 0
    /\ mdio_cnt' = 1 /\ wire' = <<>>
    /\ UNCHANGED <<mdio_tx, mdio_rx, mdio_start, mdio_done, phy, mdioDrv>>

\* One bit goes over the wire; the NIC records it.  After the last one the PHY
\* does what the frame says and the transceiver is done.
MdioBit ==
    /\ mdio_start /\ ~mdio_done /\ mdio_cnt \in Positions
    /\ \E b \in WireBits(mdio_cnt) :
         /\ wire' = Append(wire, b)
         /\ mdio_rx' = [mdio_rx EXCEPT ![mdio_cnt] = b]
         /\ phy' = IF mdio_cnt = FrameLen /\ FrameOp(wire) = WriteOp
                       THEN [phy EXCEPT ![FrameReg(wire)] = FrameData(Append(wire, b))]
                       ELSE phy
    /\ mdio_cnt' = IF mdio_cnt = FrameLen THEN 0 ELSE mdio_cnt + 1
    /\ mdio_done' = (mdio_cnt = FrameLen)
    /\ UNCHANGED <<mdio_tx, mdio_start, mdioDrv>>

\* start, done and then idle again, in two clocks.
MdioHandshake ==
    /\ mdio_done
    /\ IF mdio_start THEN mdio_start' = FALSE /\ UNCHANGED mdio_done
       ELSE mdio_done' = FALSE /\ UNCHANGED mdio_start
    /\ givenUp' = 0
    /\ UNCHANGED <<mdio_tx, mdio_rx, mdio_cnt, wire, phy, call, result>>

\* INT_STATUS_MDIO
MdioIdle == ~mdio_start /\ ~mdio_done

-----------------------------------------------------------------------------
(* The driver.                                                             *)

\* A call takes the lock and writes mdio_tx.  In the clock of the handshake
\* the write of mdio_start is lost; with the transceiver idle or one clock
\* before, it starts a frame.
MdioBegin(tx) ==
    /\ call = "none"
    /\ call' = "poll" /\ result' = "none"
    /\ mdio_tx' = tx
    /\ mdio_start' = ~(mdio_start /\ mdio_done)
    /\ mdio_done' = (mdio_start /\ mdio_done)
    /\ UNCHANGED <<mdio_rx, mdio_cnt, wire, phy, givenUp>>

MdioRead == \E r \in PhyRegs : MdioBegin(ReadFrame(r))
MdioWrite == \E r \in PhyRegs, v \in Values : MdioBegin(WriteFrame(r, v))

\* The poll finds the transceiver idle: mdio_rx is read and compared.
MdioReturn ==
    /\ call = "poll" /\ MdioIdle
    /\ call' = "none"
    /\ result' = IF EchoMatches(mdio_tx, mdio_rx) THEN "ok" ELSE "EIO"
    /\ UNCHANGED <<mdio_tx, mdioNic, givenUp>>

\* Ten polls were not enough.
MdioGiveUp ==
    /\ call = "poll" /\ ~MdioIdle
    /\ givenUp < MaxGivenUp /\ givenUp' = givenUp + 1
    /\ call' = "none" /\ result' = "ETIME"
    /\ UNCHANGED <<mdio_tx, mdioNic>>

MdioNext ==
    \/ MdioPreamble \/ MdioBit \/ MdioHandshake
    \/ MdioRead \/ MdioWrite \/ MdioReturn \/ MdioGiveUp

MdioSpec == MdioInit /\ [][MdioNext]_mdioVars

\* The clock of the transceiver, and the polls of the driver.
MdioClock == MdioPreamble \/ MdioBit \/ MdioHandshake \/ MdioReturn

-----------------------------------------------------------------------------
(* Properties.                                                             *)

\* A call that reports success has got what the register holds, or has put its
\* value there, whatever frames were given up before it: the comparison of
\* mdio_rx with mdio_tx catches every frame that changed under way.
MdioOkIsTrue ==
    result = "ok" /\ call = "none" =>
        phy[FrameReg(mdio_tx)] = IF FrameOp(mdio_tx) = ReadOp
                                     THEN FrameData(mdio_rx) ELSE FrameData(mdio_tx)

-----------------------------------------------------------------------------
(* Why it holds: an invariant that every step keeps, if no more than one   *)
(* call gives up during a frame.                                           *)

MdioTypeOK ==
    /\ mdio_tx \in [Positions -> Bit] /\ mdio_rx \in [Positions -> Bit]
    /\ FrameOp(mdio_tx) \in {<<0, 0>>, ReadOp, WriteOp}
    /\ mdio_start \in BOOLEAN /\ mdio_done \in BOOLEAN
    /\ mdio_cnt \in 0 .. FrameLen
    /\ wire \in Seq(Bit)
    /\ phy \in [PhyRegs -> Values]
    /\ call \in {"none", "poll"}
    /\ result \in {"none", "ok", "EIO", "ETIME"}
    /\ givenUp \in 0 .. MaxGivenUp

\* The frame on the wire is the one of mdio_rx, as far as it has come.
MdioWireInv ==
    /\ mdio_cnt # 0 => mdio_start /\ ~mdio_done /\ Len(wire) = mdio_cnt - 1
    /\ mdio_cnt = 0 => Len(wire) \in {0, FrameLen}
    /\ \A k \in 1 .. Len(wire) : mdio_rx[k] = wire[k]
    /\ mdio_done => mdio_cnt = 0 /\ Len(wire) = FrameLen
    /\ call = "poll" /\ MdioIdle => Len(wire) = FrameLen
    /\ call = "poll" => FrameOp(mdio_tx) # <<0, 0>>

\* A frame waits for its preamble; the wire has the one before.
MdioPending == mdio_start /\ ~mdio_done /\ mdio_cnt = 0

\* All of the data of a read came from the PHY.
MdioReadIsClean ==
    \A p \in DataPositions \cap 1 .. Len(wire) :
        wire[p] = phy[FrameReg(wire)][p - 2 - RegBits]

\* A write that went over the wire is in the PHY.  The data of a read are the PHY's
\* unless a write has come in between, which then is the call that sees the end.
MdioDataInv ==
    /\ mdio_cnt = 0 /\ Len(wire) = FrameLen /\ FrameOp(wire) = WriteOp =>
           phy[FrameReg(wire)] = FrameData(wire)
    /\ ~MdioPending /\ Len(wire) >= 2 /\ FrameOp(wire) = ReadOp =>
           \/ MdioReadIsClean
           \/ mdio_tx[1] = 0 /\ (mdio_start => call = "poll" /\ givenUp > 0)

\* Who may change mdio_tx while a frame is on its way.
MdioCallInv ==
    /\ mdio_start /\ call = "none" => givenUp > 0
    /\ mdio_cnt > 1 => wire[1] = mdio_tx[1] \/ (call = "poll" /\ givenUp > 0)
    /\ result = "ok" => /\ call = "none" /\ MdioIdle /\ Len(wire) = FrameLen
                        /\ EchoMatches(mdio_tx, mdio_rx)
                        /\ FrameOp(mdio_tx) # <<0, 0>>

MdioInv == MdioTypeOK /\ MdioWireInv /\ MdioDataInv /\ MdioCallInv
=============================================================================

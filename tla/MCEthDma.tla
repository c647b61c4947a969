------------------------------ MODULE MCEthDma ------------------------------
(***************************************************************************)
(* The engines and the MDIO transceiver of the Ethernet NIC for TLC.  They *)
(* share no state, so a behaviour of any of them is explored with the      *)
(* others at rest: "unit" says which.                                      *)
(***************************************************************************)
EXTENDS EthTxDma, EthRxDma, EthMdio

VARIABLE unit

Init ==
    /\ unit \in {"tx", "rx", "mdio"}
    /\ TxInit /\ RxInit /\ MdioInit

vars == <<txVars, rxVars, mdioVars, unit>>

Tx(A) == unit = "tx" /\ A /\ UNCHANGED <<rxVars, mdioVars, unit>>
Rx(A) == unit = "rx" /\ A /\ UNCHANGED <<txVars, mdioVars, unit>>
Mdio(A) == unit = "mdio" /\ A /\ UNCHANGED <<txVars, rxVars, unit>>

Next == Tx(TxNext) \/ Rx(RxNext) \/ Mdio(MdioNext)

\* The clock never stops, the MAC takes and hands over words in the end, and
\* so does the bus answer: AXI allows neither of them to stall for good.
Spec ==
    /\ Init /\ [][Next]_vars
    /\ WF_vars(Tx(TxClock) \/ Rx(RxClock) \/ Mdio(MdioClock))
    /\ WF_vars(Tx(TxMacServes) \/ Rx(RxMacServes))
    /\ WF_vars(Tx(TxBusServes) \/ Rx(RxBusServes))

\* Packets of one word and of more than the FIFO holds, aligned or not, with
\* and without a tail, that cross the page after their first word or later.
Packets == {[addr |-> 24, size |-> 20], [addr |-> 26, size |-> 2],
            [addr |-> 31, size |-> 18], [addr |-> 17, size |-> 19]}

\* Buffers an aligned and unaligned frame fits in or does not.
Buffers == {[addr |-> 22, size |-> 9], [addr |-> 20, size |-> 18],
            [addr |-> 27, size |-> 18]}
Frames == {6, 12, 19}

\* Registers that hold different values.
MCPhyReset == [r \in PhyRegs |-> [k \in 1 .. DataBits |-> IF k = 1 THEN r[1] ELSE 1]]

\* Every packet and every frame that was begun comes to its end, and every call
\* of the MDIO bus returns: no engine waits for room, data or an answer that
\* cannot come, not even when mdio_start is written in the clock that clears it.
Busy == tx_start \/ rx_start \/ call = "poll"
EnginesFinish == Busy ~> ~Busy
=============================================================================

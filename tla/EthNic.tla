------------------------------- MODULE EthNic -------------------------------
(***************************************************************************)
(* The register block of the Ethernet NIC, ethernet/ethernet.v, at the     *)
(* grain of a packet: ring pointers, descriptor registers, enables and     *)
(* interrupt flags, and the two engines that fetch (TX) or store (RX) one  *)
(* packet between rx_start/tx_start going up and down.                     *)
(*                                                                         *)
(* A step of the NIC is one clock edge that changes a register software    *)
(* can see.  A write of the driver is the single clock in which the write  *)
(* takes effect.  When both fall into the same clock the code gives the    *)
(* NIC's own assignment the last word (it comes later in the always block),*)
(* which is the order "write, then NIC step" of this interleaving.         *)
(***************************************************************************)
EXTENDS Ring

CONSTANTS RxBufs,       \* buffers the kernel may give to the receive ring
          TxBufs,       \* buffers (skb) of packets to send
          NoBuf         \* no buffer: a NULL skb, a descriptor never written

ASSUME BufAssumption == NoBuf \notin RxBufs \cup TxBufs

VARIABLES
    rx_pkt_inp, rx_pkt_out,     \* receive ring: producer and consumer
    rx_addr,                    \* receive descriptors
    rx_enable, rx_start,
    tx_pkt_inp, tx_pkt_out,     \* transmit ring
    tx_addr,                    \* transmit descriptors
    tx_enable, tx_start,
    rx_int, tx_int, int_enable  \* int_enable: both bits set, or none

nicRx == <<rx_pkt_inp, rx_pkt_out, rx_addr, rx_enable, rx_start>>
nicTx == <<tx_pkt_inp, tx_pkt_out, tx_addr, tx_enable, tx_start>>
nicInt == <<rx_int, tx_int, int_enable>>
nicVars == <<nicRx, nicTx, nicInt>>

NicTypeOK ==
    /\ rx_pkt_inp \in Slots /\ rx_pkt_out \in Slots
    /\ tx_pkt_inp \in Slots /\ tx_pkt_out \in Slots
    /\ rx_addr \in [Slots -> RxBufs \cup {NoBuf}]
    /\ tx_addr \in [Slots -> TxBufs \cup {NoBuf}]
    /\ rx_enable \in BOOLEAN /\ rx_start \in BOOLEAN
    /\ tx_enable \in BOOLEAN /\ tx_start \in BOOLEAN
    /\ rx_int \in BOOLEAN /\ tx_int \in BOOLEAN /\ int_enable \in BOOLEAN

\* After reset.  rx_int and tx_int are not in the reset list of the code, so
\* they may come up set; int_enable, which is, keeps that harmless.
NicInit ==
    /\ rx_pkt_inp = 0 /\ rx_pkt_out = 0
    /\ tx_pkt_inp = 0 /\ tx_pkt_out = 0
    /\ rx_addr = [s \in Slots |-> NoBuf]
    /\ tx_addr = [s \in Slots |-> NoBuf]
    /\ rx_enable = FALSE /\ rx_start = FALSE
    /\ tx_enable = FALSE /\ tx_start = FALSE
    /\ rx_int \in BOOLEAN /\ tx_int \in BOOLEAN /\ int_enable = FALSE

-----------------------------------------------------------------------------
(* Register writes that are more than a plain assignment. *)

\* int_status: software may only write zeros, which clears both flags.
ClearIntStatus == rx_int' = FALSE /\ tx_int' = FALSE

\* The consumer pointers can be written only while their engine is disabled.
WriteRxPktOut(v) == rx_pkt_out' = IF rx_enable THEN rx_pkt_out ELSE v
WriteTxPktOut(v) == tx_pkt_out' = IF tx_enable THEN tx_pkt_out ELSE v

\* The line that goes to the interrupt controller.
Interrupt == int_enable /\ (rx_int \/ tx_int)

-----------------------------------------------------------------------------
(* The engines. *)

\* A frame stands at the receive stream and the ring has a buffer for it.
RxBegin ==
    /\ rx_enable /\ ~rx_start
    /\ rx_pkt_inp # rx_pkt_out
    /\ rx_start' = TRUE
    /\ UNCHANGED <<rx_pkt_inp, rx_pkt_out, rx_addr, rx_enable,
                   nicTx, nicInt>>

\* Mutant: the interrupt flag is not set.
RxFinishNoInt ==
    /\ rx_start
    /\ rx_start' = FALSE
    /\ rx_pkt_out' = RingNext(rx_pkt_out)
    /\ UNCHANGED <<rx_pkt_inp, rx_addr, rx_enable, nicTx, nicInt>>

\* The frame has ended and its last burst was acknowledged.
RxFinish ==
    /\ rx_start
    /\ rx_start' = FALSE
    /\ rx_pkt_out' = RingNext(rx_pkt_out)
    /\ rx_int' = TRUE
    /\ UNCHANGED <<rx_pkt_inp, rx_addr, rx_enable, nicTx,
                   tx_int, int_enable>>

\* The MAC accepts data and the ring has a packet.
TxBegin ==
    /\ tx_enable /\ ~tx_start
    /\ tx_pkt_inp # tx_pkt_out
    /\ tx_start' = TRUE
    /\ UNCHANGED <<tx_pkt_inp, tx_pkt_out, tx_addr, tx_enable, nicRx, nicInt>>

\* Mutant: the interrupt flag is not set.
TxFinishNoInt ==
    /\ tx_start
    /\ tx_start' = FALSE
    /\ tx_pkt_out' = RingNext(tx_pkt_out)
    /\ UNCHANGED <<tx_pkt_inp, tx_addr, tx_enable, nicRx, nicInt>>

\* The packet was fetched and its last word handed to the MAC.
TxFinish ==
    /\ tx_start
    /\ tx_start' = FALSE
    /\ tx_pkt_out' = RingNext(tx_pkt_out)
    /\ tx_int' = TRUE
    /\ UNCHANGED <<tx_pkt_inp, tx_addr, tx_enable, nicRx, rx_int, int_enable>>

NicNext == RxBegin \/ RxFinish \/ TxBegin \/ TxFinish
=============================================================================

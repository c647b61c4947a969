------------------------------- MODULE UartHw -------------------------------
(***************************************************************************)
(* The UART core, uart/uart.v, at the grain of a character: two FIFOs, the *)
(* latch of the flow control character, the control register and the       *)
(* interrupt.  A character is popped and put on the line in one step; the  *)
(* peer's CTS only decides when, so it is part of when the step is taken.  *)
(* The peer keeps to RTS the way this core keeps to CTS: it looks at it    *)
(* when it is about to start a character.                                  *)
(*                                                                         *)
(* Characters are numbered: n is the n-th character of the terminal's      *)
(* output, or the n-th the peer sends, and 0 one of the console.           *)
(***************************************************************************)
EXTENDS Ring, Sequences

CONSTANTS MaxRx,        \* bound: characters the peer sends
          MaxTty,       \* bound: characters written to the terminal
          FlowChars,    \* the flow control characters, XON and XOFF
          NoChar        \* no flow control character: the value 0 of the latch

ASSUME UartAssumption == MaxRx \in Nat /\ MaxTty \in Nat
ASSUME FlowAssumption == NoChar \notin FlowChars

VARIABLES
    rx_buf, rx_inp_pos, rx_out_pos,     \* receive FIFO
    rx_line,                            \* a character is coming in
    arrived,                            \* characters the peer has sent
    tx_buf, tx_inp_pos, tx_out_pos,     \* transmit FIFO
    sent,                               \* last terminal character on the line
    xon_xoff_inp, xon_xoff_out,
    control                             \* irq_enable and tx_stop

rxFifo == <<rx_buf, rx_inp_pos, rx_out_pos>>
rxSide == <<rxFifo, rx_line, arrived>>
txFifo == <<tx_buf, tx_inp_pos, tx_out_pos>>
txSide == <<txFifo, sent, xon_xoff_inp, xon_xoff_out>>
uartVars == <<rxSide, txSide, control>>

Control == [ie_rx : BOOLEAN, ie_tx : BOOLEAN, tx_stop : BOOLEAN]
Quiet == [ie_rx |-> FALSE, ie_tx |-> FALSE, tx_stop |-> FALSE]

UartTypeOK ==
    /\ rx_buf \in [Slots -> 0 .. MaxRx]
    /\ rx_inp_pos \in Slots /\ rx_out_pos \in Slots
    /\ rx_line \in BOOLEAN
    /\ arrived \in 0 .. MaxRx
    /\ tx_buf \in [Slots -> 0 .. MaxTty]
    /\ tx_inp_pos \in Slots /\ tx_out_pos \in Slots
    /\ sent \in 0 .. MaxTty
    /\ xon_xoff_inp \in FlowChars \cup {NoChar}
    /\ xon_xoff_out \in FlowChars \cup {NoChar}
    /\ control \in Control

UartInit ==
    /\ rx_buf = [s \in Slots |-> 0] /\ rx_inp_pos = 0 /\ rx_out_pos = 0
    /\ rx_line = FALSE /\ arrived = 0
    /\ tx_buf = [s \in Slots |-> 0] /\ tx_inp_pos = 0 /\ tx_out_pos = 0
    /\ sent = 0
    /\ xon_xoff_inp = NoChar /\ xon_xoff_out = NoChar
    /\ control = Quiet

-----------------------------------------------------------------------------
(* What software reads. *)

\* Mutant: off by one, the peer is stopped when the FIFO has wrapped.
RxFullLate == rx_inp_pos = rx_out_pos /\ arrived > 0

RxFull == RingNext(rx_inp_pos) = rx_out_pos
RxEmpty == rx_inp_pos = rx_out_pos
TxFull == RingNext(tx_inp_pos) = tx_out_pos
TxEmpty == tx_inp_pos = tx_out_pos
TxLen == RingDist(tx_out_pos, tx_inp_pos)

\* The transmit interrupt is raised when a quarter of the FIFO is left.
TxIrq == TxLen <= (RingMask + 1) \div 4

\* Mutant: the receive interrupt comes once the FIFO is full and one more.
UartInterruptWhenFull == \/ control.ie_rx /\ RxFull /\ rx_line
                         \/ control.ie_tx /\ TxIrq

UartInterrupt == \/ control.ie_rx /\ ~RxEmpty
                 \/ control.ie_tx /\ TxIrq

-----------------------------------------------------------------------------
(* What software writes. *)

\* tx_fifo without bit 8: dropped when the FIFO is full.
WriteTx(c) ==
    /\ IF TxFull
       THEN UNCHANGED <<tx_buf, tx_inp_pos>>
       ELSE /\ tx_buf' = [tx_buf EXCEPT ![tx_inp_pos] = c]
            /\ tx_inp_pos' = RingNext(tx_inp_pos)
    /\ UNCHANGED <<tx_out_pos, sent, xon_xoff_inp, xon_xoff_out>>

\* tx_fifo with bit 8: replaces a flow control character still waiting.
WriteFlowChar(c) ==
    /\ xon_xoff_inp' = c
    /\ UNCHANGED <<txFifo, sent, xon_xoff_out>>

\* A read of rx_fifo, for software that has seen it not empty.
PopRx ==
    /\ rx_out_pos' = IF RxEmpty THEN rx_out_pos ELSE RingNext(rx_out_pos)
    /\ UNCHANGED <<rx_buf, rx_inp_pos, rx_line, arrived>>

-----------------------------------------------------------------------------
(* What the core and the peer do. *)

\* A new flow control character goes out before anything else, also while
\* transmission is stopped.
SendFlowChar ==
    /\ xon_xoff_inp # xon_xoff_out
    /\ xon_xoff_out' = xon_xoff_inp
    /\ UNCHANGED <<rxSide, txFifo, sent, xon_xoff_inp, control>>

\* The core side of the transmit FIFO: the next character goes out.
PopTx ==
    /\ xon_xoff_inp = xon_xoff_out
    /\ ~TxEmpty /\ ~control.tx_stop
    /\ sent' = IF tx_buf[tx_out_pos] = 0 THEN sent ELSE tx_buf[tx_out_pos]
    /\ tx_out_pos' = RingNext(tx_out_pos)

SendChar ==
    /\ PopTx
    /\ UNCHANGED <<rxSide, tx_buf, tx_inp_pos, xon_xoff_inp, xon_xoff_out,
                   control>>

\* The peer starts a character; RTSn is the complement of rx_full.
PeerSends ==
    /\ ~rx_line /\ arrived < MaxRx
    /\ ~RxFull
    /\ rx_line' = TRUE
    /\ UNCHANGED <<rxFifo, arrived, txSide, control>>

\* Its last bit is in: the character is stored, full FIFO or not.
StoreRx ==
    /\ rx_line
    /\ rx_line' = FALSE
    /\ arrived' = arrived + 1
    /\ rx_buf' = [rx_buf EXCEPT ![rx_inp_pos] = arrived + 1]
    /\ rx_inp_pos' = RingNext(rx_inp_pos)

ReceiveChar == StoreRx /\ UNCHANGED <<rx_out_pos, txSide, control>>

UartNext == SendFlowChar \/ SendChar \/ PeerSends \/ ReceiveChar
=============================================================================

----------------------------- MODULE UartProps ------------------------------
(***************************************************************************)
(* What is required of the UART driver and its core.                       *)
(***************************************************************************)
EXTENDS UartDriver

\* What the FIFOs hold, oldest first.
TxInFifo == RingSeq(tx_buf, tx_out_pos, tx_inp_pos)
RxInFifo == RingSeq(rx_buf, rx_out_pos, rx_inp_pos)

\* Besides characters of the console, which are 0, q holds those of the terminal
\* after the first up to the last, each once and in this order.
HoldsInOrder(q, first, last) ==
    /\ \A n \in first + 1 .. last : \E i \in DOMAIN q : q[i] = n
    /\ \A i \in DOMAIN q : q[i] \in {0} \cup (first + 1 .. last)
    /\ \A i, j \in DOMAIN q : i < j /\ q[i] # 0 /\ q[j] # 0 => q[i] < q[j]

-----------------------------------------------------------------------------
(* Safety.                                                                 *)

\* Between the terminal's buffer and the line no character is lost, doubled
\* or put out of order, whoever fills the FIFO in between (the handler,
\* start_tx, the console) and however output is stopped and started.
TtyCharsInOrder == HoldsInOrder(TxInFifo, sent, taken)

\* A peer that keeps to RTS loses nothing: the receive FIFO, which stores a
\* character whether it is full or not, holds what arrived and was not read.
RxCharsInOrder ==
    RxInFifo = [i \in 1 .. arrived - delivered |-> delivered + i]

\* No lost wakeup: when axi_uart_transmit leaves characters behind, it leaves
\* the transmit interrupt enabled, or output is stopped.  The exception is a
\* call that ended at MAX_CHARS_PER_INTERRUPT.
PendingCharsHaveWakeup ==
    port = "open" /\ pc = "free" /\ taken < written =>
        \/ control.ie_tx
        \/ stopped \/ flow_call
        \/ tx_cnt = MaxChars

\* Output that was stopped is stopped in the core as well once stop_tx has
\* returned: nothing of the terminal goes out, until it is started again or a
\* kernel message pushes out what the FIFO holds.
StoppedIsQuiet ==
    [][port = "open" /\ stopped /\ ~flow_call
          /\ op \notin {"start_tx", "console"}
       => UNCHANGED sent]_vars

-----------------------------------------------------------------------------
(* Why they hold: invariants that every step keeps.                        *)

\* Who holds port->lock where, what stands between a test and its use, and what
\* is over once the port is closed.
CallInv ==
    /\ pc = "free" <=> op = "none"
    /\ pc \in {"begin", "ie_off", "loop", "room", "put", "ie_on", "after"} =>
           op \in {"isr", "start_tx"}
    /\ pc = "rx" => op = "isr"
    /\ pc = "rx_off" <=> op = "stop_rx"
    /\ pc \in {"con_start", "con_put", "con_drain"} <=> op = "console"
    /\ op = "isr" => irq_wait
    /\ op = "start_tx" => port \in {"open", "closing"}
    /\ op = "stop_rx" => port = "closing"
    /\ flow_call => port = "open"
    /\ port \in {"closed", "starting"} => taken = written /\ ~stopped
    /\ pc \in {"room", "put", "ie_on"} => taken < written /\ tx_cnt < MaxChars
    /\ pc = "put" => ~TxFull
    /\ taken <= written
    /\ rx_line => arrived < MaxRx

\* The receive FIFO: a character that is coming in has its slot, and the slots
\* in use hold what arrived and was not read.
RxFifoInv ==
    /\ rx_line => ~RxFull
    /\ arrived - delivered = RingDist(rx_out_pos, rx_inp_pos)
    /\ \A n \in 1 .. RingDist(rx_out_pos, rx_inp_pos) :
           rx_buf[RingAdvance(rx_out_pos, n - 1)] = delivered + n

\* The transmit interrupt a routine leaves, or will leave, enabled for the
\* characters that wait.
Wake(c) == c.ie_tx \/ stopped \/ flow_call \/ tx_cnt = MaxChars
WakeInv ==
    port = "open" /\ taken < written =>
        /\ pc \in {"free", "after", "rx", "con_put"} => Wake(control)
        /\ pc \in {"con_start", "con_put", "con_drain"} => Wake(ctl)

\* CR_TX_STOP follows the terminal, in the register or in the copy of it that
\* will be written there.
StopInv ==
    /\ pc = "ie_off" => tx_cnt = 0
    /\ pc \in {"room", "put", "ie_on"} \/ (pc = "loop" /\ tx_cnt > 0) =>
           (stopped => flow_call)
    /\ port = "open" /\ stopped /\ ~flow_call =>
           /\ op \notin {"start_tx", "console"} => control.tx_stop
           /\ op = "isr" /\ pc \in {"ie_off", "loop"} => ctl.tx_stop
           /\ op = "start_tx" /\ pc = "after" => control.tx_stop
           /\ op = "console" => ctl.tx_stop

TtyInv == sent <= taken /\ TtyCharsInOrder

-----------------------------------------------------------------------------
(* Liveness.                                                               *)

\* What is written is sent, unless output is stopped, the port is closed or a
\* call ended at MAX_CHARS_PER_INTERRUPT.
WrittenIsSent ==
    \A n \in 1 .. MaxTty :
        written = n ~> sent >= n \/ stopped \/ port # "open" \/ tx_cnt = MaxChars

\* A flow control request reaches the peer or is replaced by a later one, also
\* while output is stopped.
FlowControlIsSent ==
    \A c \in FlowChars : asked = c ~> xon_xoff_out = c \/ asked # c

\* What the peer sends is read, as long as the port is open and listens (see
\* OpenPortListens).
ReceivedIsDelivered ==
    \A n \in 1 .. MaxRx :
        arrived >= n ~> delivered >= n \/ port # "open" \/ ~control.ie_rx

\* A kernel message is written completely, also to a stopped terminal.
ConsoleReturns == op = "console" ~> op # "console"

-----------------------------------------------------------------------------
(* What the driver sets out to do and the code does not keep.              *)

\* "enable receive ready interrupt" (CR_IE_RX_READY, which axi_uart_startup
\* sets): an open port listens.
OpenPortListens == port = "open" /\ pc = "free" => control.ie_rx
=============================================================================

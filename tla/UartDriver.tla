----------------------------- MODULE UartDriver -----------------------------
(***************************************************************************)
(* The Linux driver patches/fpga-axi-uart.c on top of the core of UartHw:  *)
(* axi_uart_transmit and its callers, the interrupt handler, the console,  *)
(* startup and shutdown.  The serial core of Linux (not in this            *)
(* repository) appears as the calls it makes: which of them hold port->lock*)
(* decides what can run between two register accesses.  "op" is the        *)
(* routine that holds port->lock, "pc" its next step.                      *)
(***************************************************************************)
EXTENDS UartHw

CONSTANTS MaxChars,     \* MAX_CHARS_PER_INTERRUPT
          HasConsole,   \* is this port the system console?
          MaxCon        \* bound: characters of a console message

ASSUME DriverAssumption == /\ MaxChars \in Nat \ {0} /\ MaxCon \in Nat
                           /\ HasConsole \in BOOLEAN

VARIABLES
    op, pc,
    ctl,                \* "control" of transmit, console_write and stop_rx
    tx_cnt, rx_cnt,
    x_char,             \* port->x_char
    written, taken,     \* transmit buffer: characters taken + 1 .. written
    delivered,          \* last character given to the terminal
    stopped,            \* uart_tx_stopped(port)
    flow_call,          \* stop_tx or start_tx that has to follow that flag
    port,               \* how far startup or shutdown has come
    irq_wait,           \* the handler was called and waits for the lock
    con_left,           \* characters axi_uart_console_write has left
    asked               \* history: flow control character asked for last

lockVars == <<op, pc, ctl>>
txLocal == <<tx_cnt, x_char, taken>>
rxLocal == <<rx_cnt, delivered>>
tty == <<written, stopped, flow_call, port, asked>>
uartDrvVars == <<lockVars, txLocal, rxLocal, tty, irq_wait, con_left>>
vars == <<uartVars, uartDrvVars>>

TypeOK ==
    /\ UartTypeOK
    /\ op \in {"none", "isr", "start_tx", "stop_rx", "console"}
    /\ pc \in {"free", "begin", "ie_off", "loop", "room", "put", "ie_on",
               "after", "rx", "rx_off", "con_start", "con_put", "con_drain"}
    /\ ctl \in Control
    /\ tx_cnt \in 0 .. MaxChars /\ rx_cnt \in 0 .. MaxChars
    /\ x_char \in FlowChars \cup {NoChar} /\ asked \in FlowChars \cup {NoChar}
    /\ written \in 0 .. MaxTty /\ taken \in 0 .. MaxTty
    /\ delivered \in 0 .. MaxRx
    /\ stopped \in BOOLEAN /\ irq_wait \in BOOLEAN
    /\ flow_call \in BOOLEAN
    /\ port \in {"closed", "starting", "open", "closing", "rx_stopped", "off"}
    /\ con_left \in 0 .. MaxCon

Init ==
    /\ UartInit
    /\ op = "none" /\ pc = "free" /\ ctl = Quiet
    /\ tx_cnt = 0 /\ rx_cnt = 0
    /\ x_char = NoChar /\ asked = NoChar
    /\ written = 0 /\ taken = 0 /\ delivered = 0
    /\ stopped = FALSE /\ flow_call = FALSE
    /\ port = "closed"
    /\ irq_wait = FALSE
    /\ con_left = 0

Lock(r, s) == pc = "free" /\ op' = r /\ pc' = s
Unlock == op' = "none" /\ pc' = "free" /\ ctl' = Quiet
Goto(from, to) == pc = from /\ pc' = to /\ UNCHANGED op

\* regs->control = ctl = c
SetControl(c) == ctl' = c /\ control' = c

-----------------------------------------------------------------------------
(* axi_uart_transmit, from "begin" to "after".                             *)

\* control = regs->control, of which CR_IE_TX_READY is cleared
TransmitBegin ==
    /\ Goto("begin", "ie_off")
    /\ ctl' = [control EXCEPT !.ie_tx = FALSE]
    /\ tx_cnt' = 0
    /\ UNCHANGED <<uartVars, x_char, taken, rxLocal, tty, irq_wait, con_left>>

TransmitIeOff ==
    /\ Goto("ie_off", "loop")
    /\ control' = ctl
    /\ UNCHANGED <<rxSide, txSide, ctl, txLocal, rxLocal, tty, irq_wait,
                   con_left>>

\* Mutant: the flow control character waits while output is stopped.
TransmitXCharIfRunning ==
    /\ Goto("loop", "loop") /\ tx_cnt < MaxChars
    /\ x_char # NoChar /\ ~stopped
    /\ WriteFlowChar(x_char)
    /\ x_char' = NoChar
    /\ UNCHANGED <<rxSide, control, ctl, tx_cnt, taken, rxLocal, tty, irq_wait,
                   con_left>>

\* regs->tx_fifo = port->x_char | 0x100
TransmitXChar ==
    /\ Goto("loop", "loop") /\ tx_cnt < MaxChars
    /\ x_char # NoChar
    /\ WriteFlowChar(x_char)
    /\ x_char' = NoChar
    /\ UNCHANGED <<rxSide, control, ctl, tx_cnt, taken, rxLocal, tty, irq_wait,
                   con_left>>

\* Mutant: CR_TX_STOP is not set.
TransmitStoppedForgotten ==
    /\ Goto("loop", "after") /\ tx_cnt < MaxChars
    /\ x_char = NoChar /\ stopped
    /\ UNCHANGED <<uartVars, ctl, txLocal, rxLocal, tty, irq_wait, con_left>>

\* uart_tx_stopped(port)
TransmitStopped ==
    /\ Goto("loop", "after") /\ tx_cnt < MaxChars
    /\ x_char = NoChar /\ stopped
    /\ SetControl([ctl EXCEPT !.tx_stop = TRUE])
    /\ UNCHANGED <<rxSide, txSide, txLocal, rxLocal, tty, irq_wait, con_left>>

\* fifo_len > 0, or nothing left to send
TransmitRunning ==
    /\ Goto("loop", IF taken < written THEN "room" ELSE "after")
    /\ tx_cnt < MaxChars
    /\ x_char = NoChar /\ ~stopped
    /\ SetControl([ctl EXCEPT !.tx_stop = FALSE])
    /\ UNCHANGED <<rxSide, txSide, txLocal, rxLocal, tty, irq_wait, con_left>>

\* Mutant: the status register is not asked.
TransmitRoomUnchecked ==
    /\ Goto("room", "put")
    /\ UNCHANGED <<uartVars, ctl, txLocal, rxLocal, tty, irq_wait, con_left>>

\* regs->status & SR_TX_FIFO_FULL
TransmitRoom ==
    /\ Goto("room", IF TxFull THEN "ie_on" ELSE "put")
    /\ UNCHANGED <<uartVars, ctl, txLocal, rxLocal, tty, irq_wait, con_left>>

\* Mutant: returns without asking for the interrupt.
TransmitIeForgotten ==
    /\ Goto("ie_on", "after")
    /\ UNCHANGED <<uartVars, ctl, txLocal, rxLocal, tty, irq_wait, con_left>>

TransmitIeOn ==
    /\ Goto("ie_on", "after")
    /\ SetControl([ctl EXCEPT !.ie_tx = TRUE])
    /\ UNCHANGED <<rxSide, txSide, txLocal, rxLocal, tty, irq_wait, con_left>>

\* regs->tx_fifo = next character of the transmit buffer
TransmitPut ==
    /\ Goto("put", "loop")
    /\ WriteTx(taken + 1)
    /\ taken' = taken + 1 /\ tx_cnt' = tx_cnt + 1
    /\ UNCHANGED <<rxSide, control, ctl, x_char, rxLocal, tty, irq_wait,
                   con_left>>

\* MAX_CHARS_PER_INTERRUPT characters: no interrupt is asked for.
TransmitLimit ==
    /\ Goto("loop", "after") /\ tx_cnt = MaxChars
    /\ UNCHANGED <<uartVars, ctl, txLocal, rxLocal, tty, irq_wait, con_left>>

\* The callers: the handler goes on to receive, start_tx and stop_tx return.
TransmitReturn ==
    /\ pc = "after"
    /\ IF op = "isr" THEN pc' = "rx" /\ UNCHANGED <<op, ctl>> ELSE Unlock
    /\ UNCHANGED <<uartVars, txLocal, rxLocal, tty, irq_wait, con_left>>

-----------------------------------------------------------------------------
(* axi_uart_isr with axi_uart_receive.                                     *)

IrqDispatch ==
    /\ port # "closed" /\ ~irq_wait /\ UartInterrupt
    /\ irq_wait' = TRUE
    /\ UNCHANGED <<uartVars, lockVars, txLocal, rxLocal, tty, con_left>>

IsrEnter ==
    /\ irq_wait
    /\ Lock("isr", "begin")
    /\ UNCHANGED <<uartVars, ctl, txLocal, rxLocal, tty, irq_wait, con_left>>

\* One character; only the lock holder reads the FIFO, so the one that the
\* status register showed is still there.
ReceiveTake ==
    /\ Goto("rx", "rx")
    /\ rx_cnt < MaxChars /\ ~RxEmpty
    /\ PopRx
    /\ delivered' = rx_buf[rx_out_pos]
    /\ rx_cnt' = rx_cnt + 1
    /\ UNCHANGED <<txSide, control, ctl, txLocal, tty, irq_wait, con_left>>

IsrExit ==
    /\ pc = "rx" /\ Unlock
    /\ rx_cnt = MaxChars \/ RxEmpty
    /\ irq_wait' = FALSE /\ rx_cnt' = 0
    /\ UNCHANGED <<uartVars, txLocal, delivered, tty, con_left>>

-----------------------------------------------------------------------------
(* Calls of the serial core: output, software flow control both ways.      *)

\* uart_write: characters into the transmit buffer, then start_tx unless
\* output is stopped.
UserWrites ==
    /\ port = "open" /\ pc = "free"
    /\ \E n \in 1 .. MaxTty - written : written' = written + n
    /\ IF stopped THEN UNCHANGED <<op, pc>> ELSE Lock("start_tx", "begin")
    /\ UNCHANGED <<uartVars, ctl, txLocal, rxLocal, stopped, flow_call, port,
                   asked, irq_wait, con_left>>

\* uart_send_xchar: throttles or releases the peer.
SendXChar ==
    /\ port = "open"
    /\ Lock("start_tx", "begin")
    /\ \E c \in FlowChars : x_char' = c /\ asked' = c
    /\ UNCHANGED <<uartVars, ctl, tx_cnt, taken, rxLocal, written, stopped,
                   flow_call, port, irq_wait, con_left>>

\* The terminal is stopped or started: the flag first, without the lock, ...
SetStopped ==
    /\ port = "open" /\ ~flow_call
    /\ stopped' = ~stopped /\ flow_call' = TRUE
    /\ UNCHANGED <<uartVars, lockVars, txLocal, rxLocal, written, port, asked,
                   irq_wait, con_left>>

\* ... then axi_uart_stop_tx or axi_uart_start_tx, which are the same.
StopOrStartTx ==
    /\ flow_call
    /\ Lock("start_tx", "begin")
    /\ flow_call' = FALSE
    /\ UNCHANGED <<uartVars, ctl, txLocal, rxLocal, written, stopped, port,
                   asked, irq_wait, con_left>>

-----------------------------------------------------------------------------
(* Startup and shutdown.  They write the control register without the lock.*)

\* request_irq
StartupIrq ==
    /\ port = "closed"
    /\ port' = "starting"
    /\ UNCHANGED <<uartVars, lockVars, txLocal, rxLocal, written, stopped,
                   flow_call, asked, irq_wait, con_left>>

StartupEnable ==
    /\ port = "starting"
    /\ port' = "open"
    /\ control' = [Quiet EXCEPT !.ie_rx = TRUE]
    /\ UNCHANGED <<rxSide, txSide, lockVars, txLocal, rxLocal, written, stopped,
                   flow_call, asked, irq_wait, con_left>>

\* The last user is gone: no more calls to write, stop or start.
CloseBegin ==
    /\ port = "open" /\ ~flow_call
    /\ port' = "closing"
    /\ UNCHANGED <<uartVars, lockVars, txLocal, rxLocal, written, stopped,
                   flow_call, asked, irq_wait, con_left>>

StopRxEnter ==
    /\ port = "closing"
    /\ Lock("stop_rx", "rx_off")
    /\ ctl' = control
    /\ UNCHANGED <<uartVars, txLocal, rxLocal, tty, irq_wait, con_left>>

\* axi_uart_stop_rx
StopRx ==
    /\ pc = "rx_off" /\ Unlock
    /\ control' = [ctl EXCEPT !.ie_rx = FALSE]
    /\ port' = "rx_stopped"
    /\ UNCHANGED <<rxSide, txSide, txLocal, rxLocal, written, stopped,
                   flow_call, asked, irq_wait, con_left>>

\* axi_uart_shutdown: regs->control = 0, ...
ShutdownOff ==
    /\ port = "rx_stopped"
    /\ port' = "off"
    /\ control' = Quiet
    /\ UNCHANGED <<rxSide, txSide, lockVars, txLocal, rxLocal, written, stopped,
                   flow_call, asked, irq_wait, con_left>>

\* ... free_irq, which waits for a running handler.  The serial core drops
\* what is left in the transmit buffer, and the stopped flag with the terminal.
ShutdownIrq ==
    /\ port = "off" /\ ~irq_wait
    /\ port' = "closed"
    /\ written' = taken
    /\ stopped' = FALSE
    /\ UNCHANGED <<uartVars, lockVars, txLocal, rxLocal, flow_call, asked,
                   irq_wait, con_left>>

-----------------------------------------------------------------------------
(* axi_uart_console_write, called for kernel messages at any time.         *)

ConsoleEnter ==
    /\ HasConsole
    /\ Lock("console", "con_start")
    /\ ctl' = control
    /\ \E n \in 1 .. MaxCon : con_left' = n
    /\ UNCHANGED <<uartVars, txLocal, rxLocal, tty, irq_wait>>

\* Mutant: CR_TX_STOP is left as it is.
ConsoleStartKeepsStop ==
    /\ Goto("con_start", "con_put")
    /\ UNCHANGED <<uartVars, ctl, txLocal, rxLocal, tty, irq_wait, con_left>>

\* regs->control = control & ~CR_TX_STOP
ConsoleStart ==
    /\ Goto("con_start", "con_put")
    /\ control' = [ctl EXCEPT !.tx_stop = FALSE]
    /\ UNCHANGED <<rxSide, txSide, ctl, txLocal, rxLocal, tty, irq_wait,
                   con_left>>

\* axi_uart_console_putchar: waits for room; only the lock holder fills the
\* FIFO, so the room that the status register showed is still there.
ConsolePut ==
    /\ Goto("con_put", "con_put")
    /\ con_left > 0 /\ ~TxFull
    /\ WriteTx(0)
    /\ con_left' = con_left - 1
    /\ UNCHANGED <<rxSide, control, ctl, txLocal, rxLocal, tty, irq_wait>>

ConsoleEnd ==
    /\ pc = "con_put" /\ con_left = 0
    /\ IF ctl.tx_stop THEN pc' = "con_drain" /\ UNCHANGED <<op, ctl>>
                      ELSE Unlock
    /\ UNCHANGED <<uartVars, txLocal, rxLocal, tty, irq_wait, con_left>>

\* Output was stopped before: once the FIFO is empty, stop it again.
ConsoleRestore ==
    /\ pc = "con_drain" /\ Unlock
    /\ TxEmpty
    /\ control' = ctl
    /\ UNCHANGED <<rxSide, txSide, txLocal, rxLocal, tty, irq_wait, con_left>>

-----------------------------------------------------------------------------
Transmit == \/ TransmitBegin \/ TransmitIeOff \/ TransmitXChar
            \/ TransmitStopped \/ TransmitRunning \/ TransmitRoom
            \/ TransmitIeOn \/ TransmitPut \/ TransmitLimit \/ TransmitReturn
Isr == IrqDispatch \/ IsrEnter \/ ReceiveTake \/ IsrExit
SerialCore == UserWrites \/ SendXChar \/ SetStopped \/ StopOrStartTx
Startup == StartupIrq \/ StartupEnable
Shutdown == CloseBegin \/ StopRxEnter \/ StopRx \/ ShutdownOff \/ ShutdownIrq
Console == \/ ConsoleEnter \/ ConsoleStart \/ ConsolePut \/ ConsoleEnd
           \/ ConsoleRestore
Uart == UartNext /\ UNCHANGED uartDrvVars

Next == Uart \/ Transmit \/ Isr \/ SerialCore \/ Startup \/ Shutdown \/ Console

Spec == Init /\ [][Next]_vars

\* Fairness.  The lock holder runs on, interrupts are delivered, a routine that
\* waits for the lock gets it (SF: the kernel's spinlocks are served in order),
\* the line moves (the peer leaves CTS asserted), a character that has begun to
\* come in ends.  Users and the peer need not do anything.
Fairness ==
    /\ WF_vars(Transmit) /\ WF_vars(ReceiveTake \/ IsrExit)
    /\ WF_vars(IrqDispatch) /\ SF_vars(IsrEnter)
    /\ SF_vars(StopOrStartTx)
    /\ WF_vars(StartupEnable)
    /\ WF_vars(ConsoleStart \/ ConsolePut \/ ConsoleEnd \/ ConsoleRestore)
    /\ WF_vars(StopRx)
    /\ WF_vars(Uart /\ (SendFlowChar \/ SendChar)) /\ WF_vars(Uart /\ ReceiveChar)

FairSpec == Spec /\ Fairness
=============================================================================

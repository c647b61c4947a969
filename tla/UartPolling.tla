---------------------------- MODULE UartPolling -----------------------------
(***************************************************************************)
(* The users of the UART core that poll it: OpenSBI, then U-Boot, whose    *)
(* driver resets the FIFOs when it starts, then the kernel debugger of     *)
(* Linux.  One hart runs at a time, so only the core is concurrent.        *)
(* kputc of the boot ROM is the loop of OpenSBI's uart_putc.               *)
(* Characters are numbered as in UartHw.                                   *)
(***************************************************************************)
EXTENDS UartHw

VARIABLES
    client,         \* who has the UART
    step,           \* "putc": in its output routine with a character
    put,            \* last character written to tx_fifo
    tx_mark,        \* history: the value of "put" when U-Boot started
    got             \* last character read, or there was at the start of U-Boot

pollVars == <<client, step, put, tx_mark, got>>
pollingVars == <<uartVars, pollVars>>

PollInit ==
    /\ UartInit
    /\ client = "opensbi" /\ step = "idle"
    /\ put = 0 /\ tx_mark = 0 /\ got = 0

PutcBegin ==
    /\ client # "kgdb" /\ step = "idle" /\ put < MaxTty
    /\ step' = "putc"
    /\ UNCHANGED <<uartVars, client, put, tx_mark, got>>

PutChar ==
    /\ WriteTx(put + 1)
    /\ put' = put + 1 /\ step' = "idle"
    /\ UNCHANGED <<rxSide, control, client, tx_mark, got>>

GetChar ==
    /\ PopRx
    /\ got' = rx_buf[rx_out_pos]
    /\ UNCHANGED <<txSide, control, client, step, put, tx_mark>>

-----------------------------------------------------------------------------
(* OpenSBI. *)

\* uart_putc, and kputc of the boot ROM before it: waits for room.
OpensbiPutc == client = "opensbi" /\ step = "putc" /\ ~TxFull /\ PutChar

\* uart_getc
OpensbiGetc == client = "opensbi" /\ step = "idle" /\ ~RxEmpty /\ GetChar

-----------------------------------------------------------------------------
(* U-Boot. *)

\* rx_out_pos <= rx_inp_pos
ResetRx == rx_out_pos' = rx_inp_pos

\* axi_uart_probe: both FIFOs are reset and the rest of the control register
\* is cleared.  The core may pop or store a character in the same clock: each
\* side then takes the position the other one had before.
UbootProbe ==
    /\ client = "opensbi" /\ step = "idle"
    /\ client' = "uboot"
    /\ tx_mark' = put /\ got' = arrived
    /\ ResetRx
    /\ tx_inp_pos' = tx_out_pos
    /\ control' = Quiet
    /\ PopTx \/ UNCHANGED <<tx_out_pos, sent>>
    /\ StoreRx \/ UNCHANGED <<rx_buf, rx_inp_pos, rx_line, arrived>>
    /\ UNCHANGED <<tx_buf, xon_xoff_inp, xon_xoff_out, step, put>>

\* Mutant: the character is written whether there is room or not.
UbootPutcUnchecked == client = "uboot" /\ step = "putc" /\ PutChar

\* axi_uart_putc; after -EAGAIN the caller tries again.
UbootPutc == client = "uboot" /\ step = "putc" /\ ~TxFull /\ PutChar

\* axi_uart_getc
UbootGetc == client = "uboot" /\ step = "idle" /\ ~RxEmpty /\ GetChar

-----------------------------------------------------------------------------
(* The kernel debugger, entered with output running or stopped.            *)

KgdbEnter ==
    /\ client = "uboot" /\ step = "idle"
    /\ client' = "kgdb"
    /\ \E stop \in BOOLEAN : control' = [control EXCEPT !.tx_stop = stop]
    /\ UNCHANGED <<rxSide, txSide, step, put, tx_mark, got>>

\* axi_uart_put_poll_char: output is started, ...
KgdbPutBegin ==
    /\ client = "kgdb" /\ step = "idle" /\ put < MaxTty
    /\ step' = "putc"
    /\ control' = [control EXCEPT !.tx_stop = FALSE]
    /\ UNCHANGED <<rxSide, txSide, client, put, tx_mark, got>>

\* ... and the character written once the FIFO is not empty.
KgdbPut == client = "kgdb" /\ step = "putc" /\ ~TxEmpty /\ PutChar

\* axi_uart_get_poll_char
KgdbGet == client = "kgdb" /\ step = "idle" /\ ~RxEmpty /\ GetChar

-----------------------------------------------------------------------------
PollNext ==
        \/ UartNext /\ UNCHANGED pollVars
        \/ PutcBegin
        \/ OpensbiPutc \/ OpensbiGetc
        \/ UbootProbe \/ UbootPutc \/ UbootGetc
        \/ KgdbEnter \/ KgdbPutBegin \/ KgdbPut \/ KgdbGet

PollSpec == PollInit /\ [][PollNext]_pollingVars

-----------------------------------------------------------------------------
(* What is required of OpenSBI and U-Boot.                                 *)

TxInFifo == RingSeq(tx_buf, tx_out_pos, tx_inp_pos)
RxInFifo == RingSeq(rx_buf, rx_out_pos, rx_inp_pos)

\* The last character put that is not in the transmit FIFO any more, or that was
\* put before the reset; and how many of before the reset are in it still.
LastSent == IF sent >= tx_mark THEN sent ELSE tx_mark
TxStale == Len(TxInFifo) - (put - LastSent)

PutInOrder ==
    /\ LastSent <= put /\ TxStale >= 0
    /\ \A i \in 1 .. Len(TxInFifo) :
           IF i <= TxStale THEN TxInFifo[i] <= tx_mark
           ELSE TxInFifo[i] = LastSent + (i - TxStale)
GotInOrder == RxInFifo = [i \in 1 .. arrived - got |-> got + i]

\* What OpenSBI and U-Boot have put goes out completely and in order, whatever a
\* reset that met the line has left in the FIFO before it; not what the debugger
\* puts, since axi_uart_put_poll_char writes into a full FIFO
\* (fpga-axi-uart.c:140).  The receive FIFO, whoever reads it, holds what arrived
\* and was not read, nothing that arrived before the reset, everything that
\* arrived with it or after it.
PolledCharsInOrder == (client # "kgdb" => PutInOrder) /\ GotInOrder

-----------------------------------------------------------------------------
(* Why it holds.                                                           *)

PollTypeOK ==
    /\ UartTypeOK
    /\ client \in {"opensbi", "uboot", "kgdb"} /\ step \in {"idle", "putc"}
    /\ put \in 0 .. MaxTty /\ tx_mark \in 0 .. MaxTty /\ got \in 0 .. MaxRx

\* Nothing in the transmit FIFO or on the line was put later than the last
\* character, what is there from before the reset goes first, and a character that
\* is coming in has its slot.
PolledInv ==
    /\ step = "putc" => put < MaxTty
    /\ rx_line => arrived < MaxRx /\ ~RxFull
    /\ \A s \in Slots : tx_buf[s] <= put
    /\ sent <= put /\ tx_mark <= put /\ got <= arrived
    /\ client # "kgdb" /\ TxStale > 0 => sent <= tx_mark
    /\ PolledCharsInOrder
=============================================================================

------------------------------- MODULE SdcHw --------------------------------
(***************************************************************************)
(* The SD card controller, sdc/*.v, with the card.  One variable per block *)
(* of the design.  Tick is an edge of the SD clock (clock_posedge): all    *)
(* blocks of that clock step at once, each from the old values of the      *)
(* others.  The DMA engine runs on the bus clock, between ticks.           *)
(*                                                                         *)
(* A command takes a few ticks instead of 136, and a block of data is one  *)
(* entry of the FIFO and one burst.  Data are named: <<i, n>> is block n   *)
(* of request i, in memory and on the card.  Memory answers every burst    *)
(* without an error (bus_error is 0).                                      *)
(***************************************************************************)
EXTENDS Integers, Sequences

CONSTANTS MaxReq,       \* bound: requests
          MaxBlocks,    \* bound: blocks of a request
          FifoLen,      \* blocks the data FIFO holds
          MaxResp,      \* write bursts that may wait for their response
          CmdTicks,     \* command timeout the driver computes, in ticks
          CmdTimeoutW,  \* width of the cmd_timeout register
          DataTicks,    \* data timeout, in ticks; 0 is none
          InitDelay,    \* ticks the command host needs after a timeout
          Late,         \* kinds of commands the card may leave unanswered
          Damaged,      \* kinds whose answer may arrive damaged
          DataDamaged   \* kinds whose data may arrive damaged

Kinds == {"plain", "stop", "read", "write"}

ASSUME SdcAssumption ==
    /\ MaxReq \in Nat \ {0} /\ MaxBlocks \in Nat \ {0} /\ FifoLen \in Nat \ {0}
    /\ MaxResp \in Nat \ {0} /\ CmdTicks \in Nat \ {0} /\ CmdTimeoutW \in Nat
    /\ DataTicks \in Nat /\ InitDelay \in Nat
    /\ Late \subseteq Kinds /\ Damaged \subseteq Kinds
    /\ DataDamaged \subseteq {"read", "write"}

Reqs == 1 .. MaxReq
Blocks == 1 .. MaxBlocks
\* A block of data, a command as the argument register tells it from others.
NoBlock == <<0, 0>>
BlockNames == (0 .. MaxReq) \X (0 .. MaxBlocks)
Arguments == (0 .. MaxReq) \X {"sbc", "cmd", "stop"}
NoBurst == [dir |-> "none", adr |-> <<0, 0>>]

VARIABLES
    reg,    \* registers of the AXI slave, with the bits waiting for a tick
    cmdm,   \* sd_cmd_master
    cmdh,   \* sd_cmd_serial_host
    start,  \* data_start_rx, data_start_tx, data_prepare_tx
    datm,   \* sd_data_master
    dath,   \* sd_data_serial_host
    fifo,   \* the data FIFO
    bus,    \* AXI master: address, burst, write responses to come
    mem,    \* what the buffer of each request holds
    card    \* the card: data command it is at, its block, what it has stored

busVars == <<bus, mem>>
sdcVars == <<reg, cmdm, cmdh, start, datm, dath, fifo, bus, mem, card>>

Addresses == (0 .. MaxReq) \X Nat
Statuses == SUBSET {"CC", "EI", "CTE"}

Registers ==
    [command : Kinds, argument : Arguments, cmd_timeout : {0, CmdTicks},
     dma_addr : 0 .. MaxReq, block_count : 0 .. MaxBlocks,
     dat_int_enable : BOOLEAN, card_ie : SUBSET {"insert", "remove"},
     cmd_start : BOOLEAN, cmd_int_rst : BOOLEAN, dat_int_rst : BOOLEAN]
CmdMasters ==
    [state : {"IDLE", "EXECUTE", "BUSY_CHECK"}, status : Statuses,
     start_xfr : BOOLEAN, go_idle : BOOLEAN, watchdog : 0 .. CmdTicks]
CmdHosts ==
    [state : {"INIT", "IDLE", "SEND", "WAIT"}, counter : 0 .. InitDelay,
     finish : {"no", "good", "bad"}]
Starts == [rx : BOOLEAN, tx : BOOLEAN, prepare : BOOLEAN]
DataMasters ==
    [state : {"IDLE", "START_RX", "START_TX", "XFER"}, en : {"off", "rx", "tx"},
     d : {"none", "read", "write", "abort"}, status : Statuses,
     watchdog : 0 .. DataTicks]
DataHosts ==
    [state : {"IDLE", "READ", "WRITE"}, blkcnt : 0 .. MaxBlocks, crc_ok : BOOLEAN]
Bursts == [dir : {"none", "read", "write"}, adr : Addresses]
Buses == [adr : Addresses, burst : Bursts, resp : Seq(0 .. MaxReq)]
CardStates ==
    [in : BOOLEAN, op : {"none", "read", "write"}, id : 0 .. MaxReq, next : Blocks,
     multi : BOOLEAN, stored : Seq(BlockNames), done : Arguments, busy : BOOLEAN]

SdcTypeOK ==
    /\ reg \in Registers
    /\ cmdm \in CmdMasters /\ cmdh \in CmdHosts
    /\ start \in Starts
    /\ datm \in DataMasters /\ dath \in DataHosts
    /\ fifo \in Seq(BlockNames) /\ Len(fifo) <= FifoLen
    /\ bus \in Buses
    /\ mem \in [Reqs -> [Blocks -> BlockNames]]
    /\ card \in CardStates

\* Nothing has been sent; the card is in or not, and its interrupts are as told.
SdcReset(in, ie) ==
    /\ card = [in |-> in, op |-> "none", id |-> 0, next |-> 1,
               multi |-> FALSE, stored |-> <<>>, done |-> <<0, "cmd">>,
               busy |-> FALSE]
    /\ reg = [command |-> "plain", argument |-> <<0, "cmd">>,
              cmd_timeout |-> 0, dma_addr |-> 0, block_count |-> 0,
              dat_int_enable |-> FALSE, card_ie |-> ie, cmd_start |-> FALSE,
              cmd_int_rst |-> FALSE, dat_int_rst |-> FALSE]
    /\ cmdm = [state |-> "IDLE", status |-> {}, start_xfr |-> FALSE,
               go_idle |-> FALSE, watchdog |-> 0]
    /\ cmdh = [state |-> "IDLE", counter |-> 0, finish |-> "no"]
    /\ start = [rx |-> FALSE, tx |-> FALSE, prepare |-> FALSE]
    /\ datm = [state |-> "IDLE", en |-> "off", d |-> "none", status |-> {},
               watchdog |-> 0]
    /\ dath = [state |-> "IDLE", blkcnt |-> 0, crc_ok |-> FALSE]
    /\ fifo = <<>>
    /\ bus = [adr |-> <<0, 1>>, burst |-> NoBurst, resp |-> <<>>]
    /\ mem = [i \in Reqs |-> [n \in Blocks |-> NoBlock]]

\* After axi_sdc_probe has reset the controller: the card detect interrupt waits
\* for the level that is not there now.
SdcInit == \E in \in BOOLEAN : SdcReset(in, IF in THEN {"remove"} ELSE {"insert"})

-----------------------------------------------------------------------------
(* What software reads.                                                    *)

\* cmd_int_status is masked while the command runs.
CmdIntStatus == IF cmdm.state = "IDLE" THEN cmdm.status ELSE {}

\* Mutant: transfer complete is shown while the DMA engine still works.
DatIntStatusUnmasked == datm.status

\* Transfer complete is masked until the DMA is done; the other bits are not.
DatIntStatus ==
    IF datm.en # "off" \/ bus.burst # NoBurst \/ bus.resp # <<>>
    THEN datm.status \ {"CC"} ELSE datm.status

\* software_reset reads 0: no start or clear is waiting for a tick.
Settled == ~reg.cmd_start /\ ~reg.cmd_int_rst /\ ~reg.dat_int_rst

\* Card detect: which level raises an interrupt is enabled in reg.card_ie.
CardInterrupt == (card.in /\ "insert" \in reg.card_ie)
                    \/ (~card.in /\ "remove" \in reg.card_ie)

\* The driver leaves the interrupts of the command status disabled.
Interrupt ==
    \/ reg.dat_int_enable /\ DatIntStatus \cap {"CC", "EI"} # {}
    \/ CardInterrupt

\* Mutant: the register is a bit narrower.
TruncatedShort(t, w) == t % (2 ^ (w - 1))

\* What a register of w bits holds after t is written to it.
Truncated(t, w) == t % (2 ^ w)

-----------------------------------------------------------------------------
(* sd_cmd_master.                                                          *)

\* int_status_rst clears the status whatever the state machine did.
CmdStep(state, status, xfr, idle, ticks) ==
    cmdm' = [state |-> state, start_xfr |-> xfr, go_idle |-> idle,
             status |-> IF reg.cmd_int_rst THEN {} ELSE status,
             watchdog |-> ticks]

CmdIdle ==
    /\ cmdm.state = "IDLE" /\ ~reg.cmd_start
    /\ CmdStep("IDLE", cmdm.status, cmdm.start_xfr, FALSE, 0)

CmdStart ==
    /\ cmdm.state = "IDLE" /\ reg.cmd_start
    /\ CmdStep("EXECUTE", {}, TRUE, FALSE, 0)

CmdExpired == reg.cmd_timeout # 0 /\ cmdm.watchdog >= reg.cmd_timeout

CmdTimedOut ==
    /\ cmdm.state = "EXECUTE" /\ CmdExpired
    /\ CmdStep("IDLE", cmdm.status \cup {"CTE", "EI"}, FALSE, TRUE,
               cmdm.watchdog)

CmdAnswered ==
    /\ cmdm.state = "EXECUTE" /\ ~CmdExpired /\ cmdh.finish # "no"
    /\ CmdStep(IF reg.command = "stop" THEN "BUSY_CHECK" ELSE "IDLE",
               cmdm.status \cup (IF cmdh.finish = "bad" THEN {"CC", "EI"}
                                 ELSE {"CC"}),
               FALSE, cmdm.go_idle, cmdm.watchdog)

CmdWaits ==
    /\ cmdm.state = "EXECUTE" /\ ~CmdExpired /\ cmdh.finish = "no"
    /\ CmdStep("EXECUTE", cmdm.status, FALSE, cmdm.go_idle,
               IF reg.cmd_timeout # 0 THEN cmdm.watchdog + 1
               ELSE cmdm.watchdog)

CmdBusyCheck ==
    /\ cmdm.state = "BUSY_CHECK"
    /\ CmdStep(IF card.busy THEN "BUSY_CHECK" ELSE "IDLE", cmdm.status,
               cmdm.start_xfr, cmdm.go_idle, cmdm.watchdog)

CmdMaster == CmdIdle \/ CmdStart \/ CmdTimedOut \/ CmdAnswered \/ CmdWaits
               \/ CmdBusyCheck

-----------------------------------------------------------------------------
(* sd_cmd_serial_host.  INIT after a timeout (go_idle is its reset), IDLE, *)
(* SEND while the command goes out and its answer comes in, WAIT for an    *)
(* answer that never comes.                                                *)

\* What the card does with the command being sent: answers, answers and is
\* not understood, obeys and is not heard, takes its time.
CardAnswers ==
    IF cmdm.go_idle \/ cmdh.state # "SEND" THEN {"none"}
    ELSE {"good"} \cup (IF reg.command \in Late THEN {"none", "lost"} ELSE {})
                  \cup (IF reg.command \in Damaged THEN {"bad"} ELSE {})

CmdHostInit ==
    /\ cmdm.go_idle
    /\ cmdh' = [state |-> "INIT", counter |-> 0, finish |-> "no"]

CmdHostWarmUp ==
    /\ ~cmdm.go_idle /\ cmdh.state = "INIT"
    /\ cmdh' = IF cmdh.counter < InitDelay
                THEN [cmdh EXCEPT !.counter = @ + 1]
                ELSE [cmdh EXCEPT !.counter = 0, !.state = "IDLE"]

CmdHostIdle ==
    /\ ~cmdm.go_idle /\ cmdh.state = "IDLE"
    /\ cmdh' = [cmdh EXCEPT
                  !.state = IF cmdm.start_xfr THEN "SEND" ELSE "IDLE",
                  !.finish = "no"]

CmdHostSend(answer) ==
    /\ ~cmdm.go_idle /\ cmdh.state \in {"SEND", "WAIT"}
    /\ cmdh' = CASE answer = "none" -> cmdh
                 [] answer = "lost" -> [cmdh EXCEPT !.state = "WAIT"]
                 [] OTHER -> [cmdh EXCEPT !.state = "IDLE", !.finish = answer]

CmdHost(answer) == CmdHostInit \/ CmdHostWarmUp \/ CmdHostIdle
                     \/ CmdHostSend(answer)

-----------------------------------------------------------------------------
(* The start of a data transfer: a read arms the data master together with *)
(* the command, a write waits for the command's answer.                    *)

\* Mutant: a write whose command failed stays prepared.
DataStartKeepsPrepared ==
    start' = [rx |-> reg.cmd_start /\ reg.command = "read",
              tx |-> ~reg.cmd_start /\ start.prepare /\ "CC" \in CmdIntStatus,
              prepare |-> IF reg.cmd_start THEN reg.command = "write"
                          ELSE start.prepare /\ "CC" \notin CmdIntStatus]

DataStart ==
    start' = [rx |-> reg.cmd_start /\ reg.command = "read",
              tx |-> ~reg.cmd_start /\ start.prepare /\ "CC" \in CmdIntStatus,
              prepare |-> IF reg.cmd_start THEN reg.command = "write"
                          ELSE start.prepare
                                 /\ CmdIntStatus \cap {"CC", "EI"} = {}]

-----------------------------------------------------------------------------
(* sd_data_master.  d is the command to the data host; d_write and d_read  *)
(* together abort it.                                                      *)

DatStep(state, en, d, status, ticks) ==
    datm' = [state |-> state, en |-> en, d |-> d,
             status |-> IF reg.dat_int_rst THEN {} ELSE status,
             watchdog |-> ticks]

DataHostBusy == dath.state # "IDLE"

DatIdle ==
    /\ datm.state = "IDLE"
    /\ DatStep(IF start.tx THEN "START_TX"
               ELSE IF start.rx THEN "START_RX" ELSE "IDLE",
               "off", "none", datm.status, 0)

DatStartRx ==
    /\ datm.state = "START_RX"
    /\ DatStep(IF DataHostBusy THEN "XFER" ELSE "START_RX",
               "rx", "read", datm.status, datm.watchdog)

\* Waits until half of the FIFO is filled (fifo_ready).
DatStartTx ==
    /\ datm.state = "START_TX"
    /\ IF 2 * Len(fifo) >= FifoLen
       THEN DatStep(IF DataHostBusy THEN "XFER" ELSE "START_TX",
                    "tx", "write", datm.status, datm.watchdog)
       ELSE DatStep("START_TX", "tx", datm.d, datm.status, datm.watchdog)

DatFifoError == \/ datm.en = "tx" /\ fifo = <<>>
                \/ datm.en = "rx" /\ Len(fifo) = FifoLen

DatExpired == DataTicks # 0 /\ datm.watchdog >= DataTicks

DatComplete == /\ ~DataHostBusy /\ bus.burst = NoBurst /\ bus.resp = <<>>
               /\ datm.en = "tx" \/ fifo = <<>>

DatFails ==
    /\ datm.state = "XFER" /\ DatFifoError
    /\ DatStep("IDLE", datm.en, "abort", datm.status \cup {"EI"},
               datm.watchdog)

DatTimesOut ==
    /\ datm.state = "XFER" /\ ~DatFifoError /\ DatExpired
    /\ DatStep("IDLE", datm.en, "abort", datm.status \cup {"CTE", "EI"},
               datm.watchdog)

DatCompletes ==
    /\ datm.state = "XFER" /\ ~DatFifoError /\ ~DatExpired /\ DatComplete
    /\ DatStep("IDLE", datm.en, "none",
               datm.status \cup (IF dath.crc_ok THEN {"CC"} ELSE {"CC", "EI"}),
               datm.watchdog)

DatRuns ==
    /\ datm.state = "XFER" /\ ~DatFifoError /\ ~DatExpired /\ ~DatComplete
    /\ DatStep("XFER", datm.en, "none", datm.status,
               IF DataTicks # 0 THEN datm.watchdog + 1 ELSE datm.watchdog)

DataMaster == DatIdle \/ DatStartRx \/ DatStartTx \/ DatFails \/ DatTimesOut
                \/ DatCompletes \/ DatRuns

-----------------------------------------------------------------------------
(* sd_data_serial_host and its FIFO, a block at a time.                    *)

\* The next block on the data lines: none yet, a good one, or one whose check
\* sum (or, for a write, the card's answer to it) is bad.  A block takes longer
\* than the start command (d) stands.
CardBlocks ==
    IF /\ datm.d = "none"
       /\ \/ dath.state = "READ" /\ card.op = "read"
          \/ dath.state = "WRITE" /\ card.op = "write" /\ fifo # <<>>
    THEN {"none", "good"}
           \cup (IF card.op \in DataDamaged THEN {"bad"} ELSE {})
    ELSE {"none"}

DataHostIdle ==
    /\ datm.d # "abort" /\ dath.state = "IDLE"
    /\ dath' = [dath EXCEPT
                  !.state = CASE datm.d = "read" -> "READ"
                              [] datm.d = "write" -> "WRITE"
                              [] OTHER -> "IDLE",
                  !.blkcnt = reg.block_count]

\* Mutant: the check of a block decides only if the block is the last.
DataHostBlockLastCheck(block) ==
    /\ datm.d # "abort" /\ dath.state # "IDLE"
    /\ dath' = CASE block = "none" -> dath
                 [] block # "none" /\ dath.blkcnt > 1 ->
                      [dath EXCEPT !.crc_ok = TRUE, !.blkcnt = @ - 1]
                 [] OTHER -> [dath EXCEPT !.crc_ok = (block = "good"),
                                          !.state = "IDLE"]

DataHostBlock(block) ==
    /\ datm.d # "abort" /\ dath.state # "IDLE"
    /\ dath' = CASE block = "none" -> dath
                 [] block = "good" /\ dath.blkcnt > 1 ->
                      [dath EXCEPT !.crc_ok = TRUE, !.blkcnt = @ - 1]
                 [] OTHER -> [dath EXCEPT !.crc_ok = (block = "good"),
                                          !.state = "IDLE"]

DataHostAbort ==
    /\ datm.d = "abort"
    /\ dath' = [dath EXCEPT !.state = "IDLE"]

DataHost(block) == DataHostIdle \/ DataHostBlock(block) \/ DataHostAbort

\* Held empty while both enables are off.
DataFifo(block) ==
    fifo' = CASE datm'.en = "off" -> <<>>
              [] datm'.en # "off" /\ block # "none" /\ datm.en = "rx" ->
                   IF Len(fifo) = FifoLen THEN fifo
                   ELSE Append(fifo, IF block = "good"
                                     THEN <<card.id, card.next>> ELSE NoBlock)
              [] datm'.en # "off" /\ block # "none" /\ datm.en = "tx" ->
                   Tail(fifo)
              [] OTHER -> fifo

-----------------------------------------------------------------------------
(* The card.  It drops what it was sending when it gets a stop or another  *)
(* data command; a block the data master has given up it does not send.    *)

CardObeys(c) ==
    LET done == [c EXCEPT !.done = reg.argument]
    IN  CASE reg.command = "plain" -> done
          [] reg.command = "stop" -> [done EXCEPT !.op = "none", !.busy = TRUE]
          [] reg.command = "read" ->
               [done EXCEPT !.op = "read", !.id = reg.argument[1], !.next = 1,
                            !.multi = reg.block_count > 1]
          [] reg.command = "write" ->
               [done EXCEPT !.op = "write", !.id = reg.argument[1],
                            !.stored = <<>>, !.multi = reg.block_count > 1]

CardMoves(c, block) ==
    [c EXCEPT
       !.op = IF c.multi THEN @ ELSE "none",
       !.next = IF c.op = "read" /\ @ < MaxBlocks THEN @ + 1 ELSE @,
       !.stored = IF c.op = "write" /\ block = "good" /\ Len(@) < MaxBlocks
                  THEN Append(@, Head(fifo)) ELSE @]

CardStep(answer, block) ==
    LET given_up == IF datm'.d = "abort" THEN [card EXCEPT !.op = "none"]
                    ELSE card
        moved == IF block = "none" THEN given_up ELSE CardMoves(card, block)
    IN  card' = IF answer = "none" THEN moved ELSE CardObeys(moved)

-----------------------------------------------------------------------------
\* The DMA address follows the register until the engine is enabled.
EngineStarts == datm.state \in {"START_RX", "START_TX"} /\ datm.en = "off"

LoadAddress ==
    bus' = IF EngineStarts THEN [bus EXCEPT !.adr = <<reg.dma_addr, 1>>] ELSE bus

\* Timing: a burst left over from an aborted transfer is over before the
\* engine starts again, a whole request later.
BusKeepsUp == EngineStarts => bus.burst = NoBurst

Tick ==
    /\ BusKeepsUp
    /\ \E answer \in CardAnswers, block \in CardBlocks :
        /\ CmdMaster /\ CmdHost(answer) /\ DataStart
        /\ DataMaster /\ DataHost(block) /\ DataFifo(block)
        /\ CardStep(answer, block) /\ LoadAddress
        /\ reg' = [reg EXCEPT !.cmd_start = FALSE, !.cmd_int_rst = FALSE,
                              !.dat_int_rst = FALSE]
        /\ UNCHANGED mem

-----------------------------------------------------------------------------
(* The AXI master.                                                         *)

TxStb == datm.en = "tx" /\ Len(fifo) < FifoLen
RxStb == datm.en = "rx" /\ Len(bus.resp) < MaxResp /\ fifo # <<>>

BurstBegin ==
    /\ bus.burst = NoBurst
    /\ TxStb \/ RxStb
    /\ bus' = [bus EXCEPT !.burst =
                  [dir |-> IF datm.en = "rx" THEN "write" ELSE "read",
                   adr |-> bus.adr]]
    /\ UNCHANGED <<reg, cmdm, cmdh, start, datm, dath, fifo, mem, card>>

InBuffer(adr) == adr[1] \in Reqs /\ adr[2] \in Blocks

\* The last word of a burst.  The FIFO takes part as the engine is set now.
BurstEnd ==
    LET burst == bus.burst
        word == IF datm.en = "rx" /\ fifo # <<>> THEN Head(fifo) ELSE NoBlock
        read == IF InBuffer(burst.adr)
                THEN mem[burst.adr[1]][burst.adr[2]] ELSE NoBlock
    IN  /\ burst # NoBurst
        /\ bus' = [adr |-> <<bus.adr[1], bus.adr[2] + 1>>, burst |-> NoBurst,
                   resp |-> IF burst.dir = "write"
                            THEN Append(bus.resp, burst.adr[1]) ELSE bus.resp]
        /\ mem' = IF burst.dir = "write" /\ InBuffer(burst.adr)
                  THEN [mem EXCEPT ![burst.adr[1]][burst.adr[2]] = word]
                  ELSE mem
        /\ fifo' = CASE burst.dir = "write" /\ datm.en = "rx" /\ fifo # <<>> ->
                          Tail(fifo)
                     [] burst.dir = "read" /\ datm.en = "tx"
                          /\ Len(fifo) < FifoLen -> Append(fifo, read)
                     [] OTHER -> fifo
        /\ UNCHANGED <<reg, cmdm, cmdh, start, datm, dath, card>>

BurstResp ==
    /\ bus.resp # <<>>
    /\ bus' = [bus EXCEPT !.resp = Tail(@)]
    /\ UNCHANGED <<reg, cmdm, cmdh, start, datm, dath, fifo, mem, card>>

-----------------------------------------------------------------------------
(* The card on its own: it gets ready, it is taken out or put in.          *)

CardReady ==
    /\ card.busy
    /\ card' = [card EXCEPT !.busy = FALSE]
    /\ UNCHANGED <<reg, cmdm, cmdh, start, datm, dath, fifo, bus, mem>>

CardChange ==
    /\ card' = [card EXCEPT !.in = ~@]
    /\ UNCHANGED <<reg, cmdm, cmdh, start, datm, dath, fifo, bus, mem>>

SdcNext == Tick \/ BurstBegin \/ BurstEnd \/ BurstResp \/ CardReady
             \/ CardChange

-----------------------------------------------------------------------------
(* States of the controller that the properties of its drivers are about.  *)

\* Nothing of a data transfer is under way or waits.
NoStart == ~start.rx /\ ~start.tx /\ ~start.prepare
MasterReady == datm.state = "IDLE" /\ datm.en = "off" /\ datm.status = {}
EngineReady == MasterReady /\ NoStart

\* The data host works in the direction the data master has set up, or is being
\* stopped.
EngineInv ==
    /\ dath.state = "READ" \/ datm.d = "read" => datm.en = "rx"
    /\ dath.state = "WRITE" \/ datm.d = "write" => datm.en = "tx"
    /\ datm.state = "START_RX" => datm.en # "tx"
    /\ datm.state = "START_TX" => datm.en # "rx"
    /\ datm.state = "XFER" => datm.en # "off"
    /\ datm.state # "IDLE" => datm.d # "abort"
    /\ datm.state \in {"START_RX", "START_TX"} /\ datm.d = "none" => dath.state = "IDLE"
    /\ datm.state = "XFER" /\ datm.d # "none" => dath.state # "IDLE"
    /\ datm.state = "IDLE" =>
           datm.d \in {"none", "abort"} /\ (datm.d = "none" => dath.state = "IDLE")

\* No command is under way and nothing of one is left.
CmdQuiet ==
    /\ cmdm.state = "IDLE" /\ cmdm.status = {}
    /\ ~cmdm.start_xfr /\ ~cmdm.go_idle
    /\ cmdh.state \in {"INIT", "IDLE"} /\ cmdh.finish = "no"

\* The command host works while the master executes a command, or is being reset.
CmdBlocksInv ==
    /\ cmdm.state = "EXECUTE" => cmdm.status = {}
    /\ cmdm.start_xfr => cmdm.state = "EXECUTE" /\ cmdh.finish = "no"
                          /\ cmdh.state \in {"INIT", "IDLE"}
    /\ cmdm.go_idle => cmdm.state = "IDLE"
    /\ cmdh.state \in {"SEND", "WAIT"} =>
           cmdh.finish = "no" /\ (cmdm.state = "EXECUTE" \/ cmdm.go_idle)
    /\ cmdh.finish # "no" => cmdh.state = "IDLE"
=============================================================================

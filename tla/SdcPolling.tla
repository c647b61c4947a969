----------------------------- MODULE SdcPolling -----------------------------
(***************************************************************************)
(* The users of the SD card controller that poll it, one after the other:  *)
(* the boot ROM (bootrom/bootrom.c) and the driver of U-Boot               *)
(* (patches/u-boot/vivado_riscv64/sdc.c).  Both send a command, wait for   *)
(* its status, clear it, and do the same with the status of the data; they *)
(* differ in what they do when something fails.  FatFs and the MMC core of *)
(* U-Boot are the callers.  Call i uses buffer i, as in SdcDriver.         *)
(*                                                                         *)
(* What an answer contains is left out, except whether ACMD41 finds the    *)
(* card busy: a card that answers and refuses is one whose command failed. *)
(***************************************************************************)
EXTENDS SdcHw

CONSTANT MaxBusy        \* bound: times ACMD41 finds the card busy

ASSUME MaxBusyAssumption == MaxBusy \in Nat

VARIABLES
    owner,      \* who has the controller
    stage,      \* where its routine is
    task,       \* what the call is for, and its blocks
    call,       \* number of the last call with a buffer or a command of its own
    sub,        \* which command of the call is being sent
    seen,       \* the status last read
    result,     \* of the call under way, so far, or of the last one
    online,     \* drv_status of the boot ROM has no STA_NOINIT
    busy_left,  \* times ACMD41 will still find the card busy
    dirty       \* history: a data command failed and no reset came since

sdPollVars == <<owner, stage, task, call, sub, seen, result, online, busy_left, dirty>>
allVars == <<sdcVars, sdPollVars>>

NoTask == [kind |-> "plain", blocks |-> 1]
Task(kind, blocks) == [kind |-> kind, blocks |-> blocks]
MovesData == task.kind \in {"read", "write"}

PollingIdle ==
    /\ owner = "bootrom" /\ stage = "idle" /\ task = NoTask /\ call = 0
    /\ sub = "cmd" /\ seen = {} /\ result = "ok" /\ online = FALSE
    /\ busy_left = 0 /\ dirty = FALSE

\* No interrupt is enabled before Linux.
PollingInit == PollingIdle /\ \E in \in BOOLEAN : SdcReset(in, {})

-----------------------------------------------------------------------------
(* Calls.                                                                  *)

Begin(kind, blocks, first) ==
    /\ stage = "idle"
    /\ stage' = "send" /\ task' = Task(kind, blocks) /\ sub' = first /\ result' = "ok"

\* Mutant: the reset does not reach the data master.
SoftResetKeepsEngine ==
    /\ cmdm' = [state |-> "IDLE", status |-> {}, start_xfr |-> FALSE,
                go_idle |-> FALSE, watchdog |-> 0]
    /\ cmdh' = [state |-> "INIT", counter |-> 0, finish |-> "no"]
    /\ start' = [rx |-> FALSE, tx |-> FALSE, prepare |-> FALSE]
    /\ reg' = [reg EXCEPT !.cmd_start = FALSE, !.cmd_int_rst = FALSE, !.dat_int_rst = FALSE]
    /\ UNCHANGED <<datm, dath, fifo, bus, mem>>

\* software_reset = 1, waited for, and 0: every block but the registers.  Timing:
\* the bus is idle, a second after the last failure.
SoftReset ==
    /\ bus.burst = NoBurst /\ bus.resp = <<>>
    /\ cmdm' = [state |-> "IDLE", status |-> {}, start_xfr |-> FALSE,
                go_idle |-> FALSE, watchdog |-> 0]
    /\ cmdh' = [state |-> "INIT", counter |-> 0, finish |-> "no"]
    /\ start' = [rx |-> FALSE, tx |-> FALSE, prepare |-> FALSE]
    /\ datm' = [state |-> "IDLE", en |-> "off", d |-> "none", status |-> {},
                watchdog |-> 0]
    /\ dath' = [state |-> "IDLE", blkcnt |-> 0, crc_ok |-> FALSE]
    /\ fifo' = <<>>
    /\ bus' = [adr |-> <<0, 1>>, burst |-> NoBurst, resp |-> <<>>]
    /\ reg' = [reg EXCEPT !.cmd_start = FALSE, !.cmd_int_rst = FALSE, !.dat_int_rst = FALSE]
    /\ UNCHANGED mem

\* disk_initialize, with ini_sd; boards with a reset line for the card cycle its
\* power.
SdDiskInitialize ==
    /\ owner = "bootrom" /\ Begin("init", 1, "cmd0")
    /\ SoftReset
    /\ card' \in {card, [card EXCEPT !.op = "none", !.busy = FALSE]}
    /\ busy_left' \in 0 .. MaxBusy
    /\ online' = FALSE /\ dirty' = FALSE
    /\ UNCHANGED <<owner, call, seen>>

\* disk_read
SdDiskRead ==
    /\ owner = "bootrom" /\ online /\ call < MaxReq
    /\ \E n \in Blocks : Begin("read", n, "cmd")
    /\ call' = call + 1
    /\ UNCHANGED <<sdcVars, owner, seen, online, busy_left, dirty>>

\* The boot ROM has jumped: sdc_probe of U-Boot.
SdUbootProbe ==
    /\ owner = "bootrom" /\ stage = "idle"
    /\ owner' = "uboot" /\ dirty' = FALSE
    /\ SoftReset
    /\ UNCHANGED <<card, stage, task, call, sub, seen, result, online, busy_left>>

\* A command of the MMC core; a buffer to write is filled.
UbootCall ==
    /\ owner = "uboot" /\ call < MaxReq
    /\ \E kind \in {"plain", "read", "write"}, n \in Blocks :
          /\ kind = "plain" => n = 1
          /\ Begin(kind, n, "cmd")
          /\ mem' = IF kind = "write"
                    THEN [mem EXCEPT ![call + 1] = [k \in Blocks |-> <<call + 1, k>>]]
                    ELSE mem
    /\ call' = call + 1
    /\ UNCHANGED <<reg, cmdm, cmdh, start, datm, dath, fifo, bus, card,
                   owner, seen, online, busy_left, dirty>>

\* sdc_set_ios: clears what status is left ...
SetIos ==
    /\ owner = "uboot" /\ stage = "idle" /\ stage' = "set_ios"
    /\ reg' = [reg EXCEPT !.cmd_int_rst = TRUE, !.dat_int_rst = TRUE]
    /\ UNCHANGED <<cmdm, cmdh, start, datm, dath, fifo, bus, mem, card,
                   owner, task, call, sub, seen, result, online, busy_left, dirty>>

\* ... and waits until that has taken effect.
SetIosDone ==
    /\ stage = "set_ios" /\ Settled /\ stage' = "idle"
    /\ UNCHANGED <<sdcVars, owner, task, call, sub, seen, result, online, busy_left, dirty>>

-----------------------------------------------------------------------------
(* A command.                                                              *)

\* Registers written; the last starts the command.
WriteRegs(r) ==
    /\ reg' = r
    /\ UNCHANGED <<cmdm, cmdh, start, datm, dath, fifo, bus, mem, card>>

Goes(from, to) ==
    /\ stage = from /\ stage' = to
    /\ UNCHANGED <<owner, task, call, online, busy_left, dirty>>

\* The registers for a command of this call.
Command(r) ==
    LET data == sub = "cmd" /\ MovesData
        set == IF data THEN [r EXCEPT !.dma_addr = call, !.block_count = task.blocks] ELSE r
    IN  [set EXCEPT !.command = IF sub = "stop" THEN "stop"
                                ELSE IF data THEN task.kind ELSE "plain",
                    !.argument = IF sub \in {"cmd", "stop"} THEN <<call, sub>>
                                 ELSE <<0, "cmd">>,
                    !.cmd_timeout = CmdTicks, !.cmd_start = TRUE]

\* send_data_cmd
BootSend ==
    /\ owner = "bootrom" /\ Goes("send", "poll")
    /\ WriteRegs(Command(reg))
    /\ UNCHANGED <<sub, seen, result>>

\* sdc_send_cmd with sdc_setup_data_xfer
UbootSend ==
    /\ owner = "uboot" /\ Goes("send", "poll")
    /\ WriteRegs(Command(reg))
    /\ UNCHANGED <<sub, seen, result>>

ReadStatus ==
    /\ Goes("poll", "clear")
    /\ CmdIntStatus # {} /\ seen' = CmdIntStatus
    /\ UNCHANGED <<sdcVars, sub, result>>

ClearStatus ==
    /\ Goes("clear", "settle")
    /\ WriteRegs([reg EXCEPT !.cmd_int_rst = TRUE])
    /\ UNCHANGED <<sub, seen, result>>

\* What a command that is over means for its call.
Over == stage = "settle" /\ Settled
Good == seen = {"CC"}
EndCall(r) == stage' = "idle" /\ result' = r /\ UNCHANGED sub
Send(next) == stage' = "send" /\ sub' = next /\ UNCHANGED result

\* ini_sd: whether CMD0 and CMD8 are answered makes no difference (but a wrong
\* answer to CMD8 does), ACMD41 (behind CMD55) is repeated until the card is ready,
\* and then (CMD2, CMD3, CMD7, ACMD6, CMD16, here "select") all must succeed.
IniNext ==
    /\ Over /\ task.kind = "init"
    /\ \/ sub = "cmd0" /\ Send("cmd8") /\ UNCHANGED <<online, busy_left>>
       \/ sub = "cmd8" /\ Send("acmd41") /\ UNCHANGED <<online, busy_left>>
       \/ sub = "cmd8" /\ Good /\ EndCall("failed") /\ UNCHANGED <<online, busy_left>>
       \/ /\ sub = "acmd41" /\ Good
          /\ IF busy_left > 0 THEN Send("acmd41") /\ busy_left' = busy_left - 1
                              ELSE Send("select") /\ UNCHANGED busy_left
          /\ UNCHANGED online
       \/ sub = "select" /\ Good /\ EndCall("ok") /\ online' = TRUE /\ UNCHANGED busy_left
       \/ /\ sub \in {"acmd41", "select"} /\ ~Good
          /\ EndCall("failed") /\ UNCHANGED <<online, busy_left>>
    /\ UNCHANGED <<sdcVars, owner, task, call, seen, dirty>>

\* sdc_cmd_finish or sdc_finish of a command for its caller; one that failed
\* leaves the data engine as it is.
CommandOver ==
    /\ Over /\ task.kind # "init" /\ sub = "cmd"
    /\ IF ~Good THEN EndCall("failed")
       ELSE IF MovesData THEN stage' = "data" /\ UNCHANGED <<sub, result>>
       ELSE EndCall("ok")
    /\ dirty' = (dirty \/ (~Good /\ MovesData))
    /\ UNCHANGED <<sdcVars, owner, task, call, seen, online, busy_left>>

\* The stop command, after all blocks, or, U-Boot only, after an error in them.
StopOver ==
    /\ Over /\ sub = "stop"
    /\ EndCall(IF Good THEN result ELSE "failed")
    /\ UNCHANGED <<sdcVars, owner, task, call, seen, online, busy_left, dirty>>

-----------------------------------------------------------------------------
(* The data.                                                               *)

ReadDataStatus ==
    /\ Goes("data", "data_clear")
    /\ DatIntStatus # {} /\ seen' = DatIntStatus
    /\ UNCHANGED <<sdcVars, sub, result>>

ClearDataStatus ==
    /\ Goes("data_clear", "data_settle")
    /\ WriteRegs([reg EXCEPT !.dat_int_rst = TRUE])
    /\ UNCHANGED <<sub, seen, result>>

\* More than one block is ended with CMD12.
DataGood ==
    /\ stage = "data_settle" /\ Settled /\ Good
    /\ IF task.blocks > 1 THEN Send("stop") ELSE EndCall("ok")
    /\ UNCHANGED <<sdcVars, owner, task, call, seen, online, busy_left, dirty>>

\* The boot ROM gives up, U-Boot sends CMD12 first.
DataBad ==
    /\ stage = "data_settle" /\ Settled /\ ~Good
    /\ IF owner = "uboot" THEN stage' = "send" /\ sub' = "stop" /\ result' = "failed"
                           ELSE EndCall("failed")
    /\ UNCHANGED <<sdcVars, owner, task, call, seen, online, busy_left, dirty>>

-----------------------------------------------------------------------------
Calls == SdDiskInitialize \/ SdDiskRead \/ SdUbootProbe \/ UbootCall \/ SetIos
Routine == \/ SetIosDone \/ BootSend \/ UbootSend \/ ReadStatus \/ ClearStatus
           \/ IniNext \/ CommandOver \/ StopOver
           \/ ReadDataStatus \/ ClearDataStatus \/ DataGood \/ DataBad

\* Clock, bus and card go on.
Hardware(A) == A /\ UNCHANGED sdPollVars

PollingNext == Calls \/ Routine \/ Hardware(SdcNext)

PollingSpec == PollingInit /\ [][PollingNext]_allVars

-----------------------------------------------------------------------------
(* What is required.                                                       *)

\* When a call is over, or a reset is, nothing is left that could act on the next
\* one: the data engine is idle, no write waits for an answer and no status is
\* pending.  The exception is a data command that failed, until a reset: neither
\* disk_read nor sdc_send_cmd stops the engine it has started, only the reset of
\* disk_initialize and of sdc_probe does.
PolledEngineIsReady ==
    ~dirty /\ (stage = "idle" \/ (stage = "send" /\ task.kind = "init"))
    => EngineReady /\ cmdm.state = "IDLE" /\ cmdm.status = {}

\* A disk_read that returns RES_OK, "Successful" (bootrom/diskio.h:17), has filled
\* the buffer with its own blocks.  It fails after one whose command was not heard:
\* send_data_cmd has left the data engine on, which does not see the start of the
\* next read when it is about to end, and whose status and block that one gets.
DiskReadIsOwn ==
    [][owner = "bootrom" /\ task.kind = "read" /\ stage # "idle"
         /\ stage' = "idle" /\ result' = "ok"
         => \A n \in 1 .. task.blocks : mem[call][n] = <<call, n>>]_allVars

-----------------------------------------------------------------------------
(* Why it holds: invariants that every step keeps.                         *)

CmdStages == {"poll", "clear", "settle"}
DataStages == {"data", "data_clear", "data_settle"}

PollingTypeOK ==
    /\ SdcTypeOK
    /\ owner \in {"bootrom", "uboot"}
    /\ stage \in {"idle", "send", "set_ios"} \cup CmdStages \cup DataStages
    /\ task \in [kind : {"init", "plain", "read", "write"}, blocks : Blocks]
    /\ call \in 0 .. MaxReq
    /\ sub \in {"cmd", "stop", "cmd0", "cmd8", "acmd41", "select"}
    /\ seen \in Statuses
    /\ result \in {"ok", "failed"}
    /\ online \in BOOLEAN /\ dirty \in BOOLEAN
    /\ busy_left \in 0 .. MaxBusy

\* The command being sent moves data.
DataCommand == sub = "cmd" /\ MovesData

\* From the command's register to the clear of its status: what has come of it is
\* of this command, and nothing of it is left when the next one is sent.
PolledCmdInv ==
    /\ stage \notin CmdStages => CmdQuiet
    /\ reg.cmd_start => stage = "poll" /\ CmdQuiet
    /\ reg.cmd_int_rst => stage \in {"settle", "set_ios"}
    /\ stage = "settle" => reg.cmd_int_rst \/ CmdQuiet
    /\ stage \in {"clear", "settle"} => cmdm.state = "IDLE"
    /\ CmdBlocksInv
    /\ cmdm.status # {} => cmdm.status \cap {"CC", "EI"} # {}
    /\ stage = "clear" \/ (stage = "settle" /\ reg.cmd_int_rst) =>
           seen = cmdm.status /\ seen # {}
    /\ stage \in CmdStages => (reg.command \in {"read", "write"} <=> DataCommand)

\* What is set up of a data transfer, and how far it may be at each stage.
PolledDataInv ==
    /\ \/ EngineReady
       \/ stage \in CmdStages /\ DataCommand
       \/ stage \in DataStages
    /\ reg.cmd_start => EngineReady
    /\ ~NoStart => MasterReady
    /\ datm.status # {} => datm.state = "IDLE"
    /\ start.rx => reg.command = "read" /\ ~start.tx /\ ~start.prepare
    /\ start.tx => ~start.prepare
    /\ start.prepare => stage \in {"poll", "clear"} \/ reg.cmd_int_rst
    /\ stage = "data_clear" \/ (stage = "data_settle" /\ reg.dat_int_rst) =>
           datm.status # {}
    /\ reg.dat_int_rst => stage \in {"data_settle", "set_ios"}
    /\ stage = "data_settle" => reg.dat_int_rst \/ EngineReady

\* A data command that fails leaves the engine on, until a reset.
PolledSdInv == PolledCmdInv /\ (~dirty => PolledDataInv)

-----------------------------------------------------------------------------
(* Liveness.                                                               *)

\* No loop of the polling drivers spins for ever: every call returns, also when
\* the engine is still busy with the data of a command that failed.
PolledCallReturns == stage # "idle" ~> stage = "idle"
=============================================================================

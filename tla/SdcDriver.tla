----------------------------- MODULE SdcDriver ------------------------------
(***************************************************************************)
(* The Linux driver of the SD card controller, patches/fpga-axi-sdc.c, on  *)
(* the controller.  A routine holds host->lock (op) and stands at step pc; *)
(* every access of a register the hardware may move under it is a step of  *)
(* its own.  The MMC core, the caller, has one request out at a time, and  *)
(* request i uses buffer i, so that a retry is a new request.              *)
(***************************************************************************)
EXTENDS SdcHw

CONSTANTS Requests,     \* the shapes of the requests the MMC core makes
          MapMayFail    \* dma_map_sg may fail

ASSUME RequestsAssumption ==
    /\ Requests \subseteq [kind : {"plain", "read", "write"}, blocks : Blocks,
                           sbc : BOOLEAN, stop : BOOLEAN]
    /\ MapMayFail \in BOOLEAN

VARIABLES
    op, pc,         \* who holds host->lock, and where it is
    mrq, req,       \* host->mrq: 0 or the number of the request; its shape
    has_data,       \* host->data is set
    error,          \* an error field of the request is set
    mapped,         \* buffers mapped for DMA
    role,           \* which command of the request is being sent
    st,             \* the status last read, of a command or of data
    cd,             \* card_detect as read: the card is in
    issued,         \* requests made so far
    reported,       \* card presence the MMC core was told last
    irq_wait        \* the handler was called and waits for the lock

lockVars == <<op, pc>>
reqVars == <<mrq, req, has_data, error, mapped, issued>>
drvVars == <<lockVars, reqVars, role, st, cd, reported, irq_wait>>
vars == <<sdcVars, drvVars>>

NoReq == [kind |-> "plain", blocks |-> 1, sbc |-> FALSE, stop |-> FALSE]
HasData(r) == r.kind # "plain"

TypeOK ==
    /\ SdcTypeOK
    /\ op \in {"none", "request", "isr"}
    /\ pc \in {"free", "setup", "send", "poll", "clear", "wait", "enable",
               "card", "card_ie", "data", "disable", "data_clear", "data_wait",
               "done"}
    /\ mrq \in 0 .. MaxReq /\ req \in Requests \cup {NoReq}
    /\ has_data \in BOOLEAN /\ error \in BOOLEAN
    /\ mapped \subseteq Reqs
    /\ role \in {"sbc", "cmd", "stop"} /\ st \in Statuses
    /\ cd \in BOOLEAN /\ issued \in 0 .. MaxReq
    /\ reported \in BOOLEAN /\ irq_wait \in BOOLEAN

DriverIdle ==
    /\ op = "none" /\ pc = "free"
    /\ mrq = 0 /\ req = NoReq /\ has_data = FALSE /\ error = FALSE
    /\ mapped = {} /\ role = "cmd" /\ st = {} /\ cd = FALSE
    /\ issued = 0 /\ irq_wait = FALSE

Init == SdcInit /\ DriverIdle /\ reported = card.in

Lock(who, first) == pc = "free" /\ op' = who /\ pc' = first
Unlock == op' = "none" /\ pc' = "free"
Goto(from, to) == pc = from /\ pc' = to /\ UNCHANGED op

\* Write registers of the controller.
WriteReg(r) == /\ reg' = r
               /\ UNCHANGED <<cmdm, cmdh, start, datm, dath, fifo, bus, mem,
                              card>>

-----------------------------------------------------------------------------
(* sdc_send_cmd and sdc_cmd_finish, called for sbc, cmd and stop.          *)

\* The first step of sdc_send_cmd for a command of request r.
SendFirst(r, which) == IF which = "cmd" /\ HasData(r) THEN "setup" ELSE "send"

Kind == CASE role = "sbc" -> "plain" [] role = "stop" -> "stop"
          [] role = "cmd" -> req.kind

\* Map the buffer and set up address and block count (sdc_setup_data_xfer).
SetupData ==
    /\ Goto("setup", "send")
    /\ mapped' = mapped \cup {mrq}
    /\ WriteReg([reg EXCEPT !.dma_addr = mrq, !.block_count = req.blocks])
    /\ UNCHANGED <<mrq, req, has_data, error, issued, role, st, cd, reported,
                   irq_wait>>

\* The buffer cannot be mapped: nothing is sent.
SetupFails ==
    /\ MapMayFail
    /\ pc = "setup" /\ Unlock
    /\ error' = TRUE /\ mrq' = 0
    /\ UNCHANGED <<sdcVars, req, has_data, mapped, issued, role, st, cd,
                   reported, irq_wait>>

\* A timeout that does not fit in its register is none at all.
CmdTimeout ==
    IF Truncated(CmdTicks, CmdTimeoutW) = CmdTicks THEN CmdTicks ELSE 0

\* command, cmd_timeout and argument; the last starts the command.
SendCmd ==
    /\ Goto("send", "poll")
    /\ WriteReg([reg EXCEPT !.command = Kind, !.argument = <<mrq, role>>,
                            !.cmd_timeout = CmdTimeout, !.cmd_start = TRUE])
    /\ UNCHANGED <<reqVars, role, st, cd, reported, irq_wait>>

CmdPoll ==
    /\ Goto("poll", "clear")
    /\ CmdIntStatus # {}
    /\ st' = CmdIntStatus
    /\ UNCHANGED <<sdcVars, reqVars, role, cd, reported, irq_wait>>

CmdClear ==
    /\ Goto("clear", "wait")
    /\ WriteReg([reg EXCEPT !.cmd_int_rst = TRUE])
    /\ UNCHANGED <<reqVars, role, st, cd, reported, irq_wait>>

\* Mutant: the clear of the status is not waited for.
SbcOkUnsettled ==
    /\ role = "sbc" /\ st = {"CC"}
    /\ Goto("wait", SendFirst(req, "cmd"))
    /\ role' = "cmd"
    /\ UNCHANGED <<sdcVars, reqVars, st, cd, reported, irq_wait>>

\* The clear has been seen; how the command went decides what comes next.
SbcOk ==
    /\ Settled /\ role = "sbc" /\ st = {"CC"}
    /\ Goto("wait", SendFirst(req, "cmd"))
    /\ role' = "cmd"
    /\ UNCHANGED <<sdcVars, reqVars, st, cd, reported, irq_wait>>

\* sbc or cmd failed: the buffer is unmapped and the request is done.
CmdFailed ==
    /\ Settled /\ role # "stop" /\ st # {"CC"}
    /\ pc = "wait" /\ Unlock
    /\ error' = TRUE /\ mapped' = mapped \ {mrq} /\ mrq' = 0
    /\ UNCHANGED <<sdcVars, req, has_data, issued, role, st, cd, reported,
                   irq_wait>>

CmdOk ==
    /\ Settled /\ role = "cmd" /\ st = {"CC"} /\ ~HasData(req)
    /\ pc = "wait" /\ Unlock
    /\ mrq' = 0
    /\ UNCHANGED <<sdcVars, req, has_data, error, mapped, issued, role, st, cd,
                   reported, irq_wait>>

CmdOkWithData ==
    /\ Settled /\ role = "cmd" /\ st = {"CC"} /\ HasData(req)
    /\ Goto("wait", "enable")
    /\ has_data' = TRUE
    /\ UNCHANGED <<sdcVars, mrq, req, error, mapped, issued, role, st, cd,
                   reported, irq_wait>>

StopDone ==
    /\ Settled /\ role = "stop"
    /\ Goto("wait", "done")
    /\ error' = (error \/ st # {"CC"})
    /\ UNCHANGED <<sdcVars, mrq, req, has_data, mapped, issued, role, st, cd,
                   reported, irq_wait>>

-----------------------------------------------------------------------------
(* sdc_request.                                                            *)

\* The MMC core makes its next request; a buffer to write is filled.
RequestEnter ==
    /\ mrq = 0 /\ issued < MaxReq
    /\ \E r \in Requests :
          /\ req' = r
          /\ role' = IF r.sbc THEN "sbc" ELSE "cmd"
          /\ Lock("request", IF r.sbc THEN "send" ELSE SendFirst(r, "cmd"))
          /\ mem' = IF r.kind = "write"
                    THEN [mem EXCEPT ![issued + 1] =
                            [n \in Blocks |-> <<issued + 1, n>>]]
                    ELSE mem
    /\ issued' = issued + 1 /\ mrq' = issued + 1
    /\ has_data' = FALSE /\ error' = FALSE
    /\ UNCHANGED <<reg, cmdm, cmdh, start, datm, dath, fifo, bus, card, mapped,
                   st, cd, reported, irq_wait>>

RequestExit ==
    /\ pc = "enable" /\ Unlock
    /\ WriteReg([reg EXCEPT !.dat_int_enable = TRUE])
    /\ UNCHANGED <<reqVars, role, st, cd, reported, irq_wait>>

-----------------------------------------------------------------------------
(* sdc_isr.                                                                *)

IrqDispatch ==
    /\ Interrupt /\ ~irq_wait
    /\ irq_wait' = TRUE
    /\ UNCHANGED <<sdcVars, lockVars, reqVars, role, st, cd, reported>>

IsrEnter ==
    /\ irq_wait
    /\ Lock("isr", "card")
    /\ UNCHANGED <<sdcVars, reqVars, role, st, cd, reported, irq_wait>>

IsrReadCard ==
    /\ \/ Goto("card", "card_ie") /\ CardInterrupt
       \/ Goto("card", "data") /\ ~CardInterrupt
    /\ cd' = card.in
    /\ UNCHANGED <<sdcVars, reqVars, role, st, reported, irq_wait>>

\* Mutant: the level seen is disabled, the other not enabled.
IsrReportCardOnce ==
    /\ Goto("card_ie", "data")
    /\ WriteReg([reg EXCEPT !.card_ie = {}])
    /\ reported' = cd
    /\ UNCHANGED <<reqVars, role, st, cd, irq_wait>>

\* The other level is enabled and the MMC core told.
IsrReportCard ==
    /\ Goto("card_ie", "data")
    /\ WriteReg([reg EXCEPT !.card_ie = IF cd THEN {"remove"} ELSE {"insert"}])
    /\ reported' = cd
    /\ UNCHANGED <<reqVars, role, st, cd, irq_wait>>

IsrNoData ==
    /\ DatIntStatus = {}
    /\ pc = "data" /\ Unlock
    /\ irq_wait' = FALSE
    /\ UNCHANGED <<sdcVars, reqVars, role, st, cd, reported>>

IsrReadData ==
    /\ DatIntStatus # {}
    /\ Goto("data", "disable")
    /\ st' = DatIntStatus
    /\ UNCHANGED <<sdcVars, reqVars, role, cd, reported, irq_wait>>

IsrDisable ==
    /\ Goto("disable", "data_clear")
    /\ WriteReg([reg EXCEPT !.dat_int_enable = FALSE])
    /\ UNCHANGED <<reqVars, role, st, cd, reported, irq_wait>>

IsrClear ==
    /\ Goto("data_clear", "data_wait")
    /\ WriteReg([reg EXCEPT !.dat_int_rst = TRUE])
    /\ UNCHANGED <<reqVars, role, st, cd, reported, irq_wait>>

\* The status of no request is dropped.
IsrDropData ==
    /\ Settled /\ ~has_data
    /\ pc = "data_wait" /\ Unlock
    /\ irq_wait' = FALSE
    /\ UNCHANGED <<sdcVars, reqVars, role, st, cd, reported>>

IsrTakeData ==
    /\ Settled /\ has_data
    /\ Goto("data_wait", IF req.stop THEN "send" ELSE "done")
    /\ error' = (error \/ st # {"CC"})
    /\ role' = IF req.stop THEN "stop" ELSE role
    /\ UNCHANGED <<sdcVars, mrq, req, has_data, mapped, issued, st, cd,
                   reported, irq_wait>>

\* mmc_request_done and dma_unmap_sg.
IsrDone ==
    /\ pc = "done" /\ Unlock
    /\ mapped' = mapped \ {mrq} /\ has_data' = FALSE /\ mrq' = 0
    /\ irq_wait' = FALSE
    /\ UNCHANGED <<sdcVars, req, error, issued, role, st, cd, reported>>

-----------------------------------------------------------------------------
Sending == SetupData \/ SetupFails \/ SendCmd \/ CmdPoll \/ CmdClear \/ SbcOk
             \/ CmdFailed \/ CmdOk \/ CmdOkWithData \/ StopDone
Isr == IsrEnter \/ IsrReadCard \/ IsrReportCard \/ IsrNoData \/ IsrReadData
         \/ IsrDisable \/ IsrClear \/ IsrDropData \/ IsrTakeData \/ IsrDone

Sdc == SdcNext /\ UNCHANGED drvVars

Next == Sdc \/ RequestEnter \/ Sending \/ RequestExit \/ IrqDispatch \/ Isr

Spec == Init /\ [][Next]_vars

\* Fairness.  Clock and bus run; a busy card gets ready; the CPU that holds
\* the lock runs on; a raised interrupt is delivered, and the handler gets the
\* lock although requests take it in between.
Fairness ==
    /\ WF_vars(Sdc /\ Tick) /\ WF_vars(Sdc /\ BurstBegin)
    /\ WF_vars(Sdc /\ BurstEnd) /\ WF_vars(Sdc /\ BurstResp)
    /\ WF_vars(Sdc /\ CardReady)
    /\ WF_vars(Sending \/ RequestExit)
    /\ WF_vars(Isr /\ pc # "free")
    /\ WF_vars(IrqDispatch) /\ SF_vars(IsrEnter)

FairSpec == Spec /\ Fairness
=============================================================================

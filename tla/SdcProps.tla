------------------------------ MODULE SdcProps ------------------------------
(***************************************************************************)
(* What is required of the SD card driver and its controller.              *)
(***************************************************************************)
EXTENDS SdcDriver

-----------------------------------------------------------------------------
(* Safety.                                                                 *)

\* A command reported as complete has been executed by the card: the status
\* that sdc_cmd_finish reads is never that of an earlier command.
CommandResultIsOwn ==
    pc \in {"clear", "wait"} /\ "CC" \in st => card.done = reg.argument

\* A request that ends without an error has moved its own data: a read has
\* the blocks of this request in its buffer, a write has all of them on the
\* card.
OkMeansOwnData ==
    [][mrq # 0 /\ mrq' = 0 /\ ~error'
         => CASE req.kind = "read" ->
                   \A n \in 1 .. req.blocks : mem[mrq][n] = <<mrq, n>>
              [] req.kind = "write" ->
                   card.stored = [n \in 1 .. req.blocks |-> <<mrq, n>>]
              [] OTHER -> TRUE]_vars

\* A burst to or from buffer i is under way, or its response is to come.
BusUses(i) == \/ bus.burst # NoBurst /\ bus.burst.adr[1] = i
              \/ \E k \in DOMAIN bus.resp : bus.resp[k] = i

\* The DMA engine begins a burst only while the buffer is mapped: of a read within
\* the buffer, of a write no further behind its end than the FIFO is long, since
\* the engine does not count the words it fetches in advance.  The buffer is
\* unmapped only when the bus is done with it, or after an error: the handler does
\* not wait for the burst that an aborted transfer leaves behind.
DmaKeepsToBuffer ==
    [][/\ bus.burst = NoBurst /\ bus'.burst # NoBurst =>
              /\ bus.adr[1] \in mapped
              /\ bus.adr[2] <= IF bus'.burst.dir = "write" THEN req.blocks
                               ELSE req.blocks + FifoLen
       /\ \A i \in mapped \ mapped' : BusUses(i) => error']_vars

\* When a request is over nothing of it is left that could act on the next one: the
\* command blocks, data master and data host are idle, no write waits for an answer
\* and no status is pending, after bad blocks, FIFO errors, timeouts and stops that
\* failed.  It does not hold of a command that fails with the engine on, and says
\* nothing of the last burst of a transfer that was aborted (BusKeepsUp).
EngineIsReady == mrq = 0 => EngineReady /\ CmdQuiet /\ dath.state = "IDLE"

\* No change of the card goes unnoticed: the MMC core knows whether the card
\* is in, or an interrupt will tell it.
CardChangeIsReported ==
    pc = "free" => reported = card.in \/ irq_wait \/ Interrupt

-----------------------------------------------------------------------------
(* Why they hold: invariants that every step keeps.                        *)

\* Who holds host->lock where, and which command is being sent there.
SendPcs == {"setup", "send", "poll", "clear", "wait"}
CallInv ==
    /\ pc = "free" <=> op = "none"
    /\ mrq = 0 => ~has_data
    /\ op = "request" =>
           /\ pc \in SendPcs \cup {"enable"} /\ mrq # 0 /\ role # "stop"
           /\ has_data <=> pc = "enable"
           /\ pc \in {"setup", "enable"} => role = "cmd" /\ HasData(req)
    /\ op = "isr" =>
           /\ pc \notin {"setup", "enable"}
           /\ pc \in SendPcs => role = "stop" /\ has_data
           /\ pc = "done" => has_data

\* How a command goes from SendCmd to the clear of its status, in the controller
\* and the driver: what has come of it, wherever it shows, came of this command.
CmdInv ==
    /\ pc \notin {"poll", "clear", "wait"} => CmdQuiet
    /\ reg.cmd_start => pc = "poll" /\ CmdQuiet
    /\ reg.cmd_int_rst => pc = "wait"
    /\ pc = "wait" => reg.cmd_int_rst \/ CmdQuiet
    /\ pc \in {"clear", "wait"} => cmdm.state = "IDLE"
    /\ CmdBlocksInv
    /\ cmdh.finish # "no" => card.done = reg.argument
    /\ "CC" \in cmdm.status => card.done = reg.argument
    /\ pc \in {"clear", "wait"} /\ "CC" \in st => card.done = reg.argument

\* The answer to a data command is heard, and in time: what sdc_retry shows for
\* want of it is a finding.
AnswersHeard ==
    /\ "read" \notin Late \cup Damaged /\ "write" \notin Damaged
    /\ InitDelay = 0 /\ CmdTicks >= 3

\* A data command under AnswersHeard: only a write can fail, and not so that its
\* data are sent; the answer to a read comes before the time is up.
DataCmdInv ==
    /\ pc \in {"poll", "clear", "wait"} => reg.command = Kind
    /\ pc = "clear" \/ reg.cmd_int_rst => st = cmdm.status /\ st # {}
    /\ cmdm.status # {} => cmdm.status \cap {"CC", "EI"} # {}
    /\ reg.command = "write" =>
           cmdh.finish # "bad" /\ ("CC" \in cmdm.status => cmdm.status = {"CC"})
    /\ reg.command = "read" =>
           /\ cmdh.finish # "bad" /\ cmdm.status \subseteq {"CC"}
           /\ pc \in {"clear", "wait"} => st = {"CC"}
           /\ cmdm.state = "EXECUTE" =>
                  \/ cmdm.start_xfr /\ cmdh.state = "IDLE" /\ cmdm.watchdog = 0
                  \/ cmdh.state = "SEND" /\ ~cmdm.start_xfr /\ cmdm.watchdog <= 1
                  \/ cmdh.finish = "good" /\ cmdm.watchdog <= 2

\* The request the engine works for, and how far both of them may be.
TransferInv ==
    /\ \/ has_data
       \/ pc \in SendPcs \ {"setup"} /\ role = "cmd" /\ HasData(req)
       => HasData(req) /\ mrq \in mapped /\ reg.dma_addr = mrq
    /\ \/ EngineReady
       \/ pc \in {"poll", "clear", "wait"} /\ role = "cmd" /\ HasData(req)
       \/ has_data /\ pc \notin SendPcs \cup {"done"}
    /\ reg.cmd_start => EngineReady
    /\ ~NoStart => MasterReady
    /\ datm.status # {} => datm.state = "IDLE"
    /\ start.rx => reg.command = "read" /\ ~start.tx /\ ~start.prepare
    /\ start.tx => ~start.prepare
    /\ start.prepare =>
           reg.command = "write" /\ (pc \in {"poll", "clear"} \/ reg.cmd_int_rst)
    /\ start.tx \/ ~MasterReady =>
           /\ pc = "poll" /\ reg.command = "write" =>
                  cmdm.state = "IDLE" /\ cmdm.status = {"CC"}
           /\ pc \in {"clear", "wait"} /\ role = "cmd" => st = {"CC"}
    /\ datm.en # "off" => bus.adr[1] = reg.dma_addr
    /\ pc \in {"disable", "data_clear"} \/ reg.dat_int_rst => datm.status # {}
    /\ reg.dat_int_rst => pc = "data_wait"
    /\ pc = "data_wait" => reg.dat_int_rst \/ EngineReady

\* The card detect interrupt waits for the level the MMC core does not know.
CardInv == reg.card_ie = IF reported THEN {"remove"} ELSE {"insert"}

-----------------------------------------------------------------------------
(* Liveness.                                                               *)

\* Every request is answered, whatever the card does.
RequestIsAnswered == \A i \in Reqs : mrq = i ~> mrq # i
=============================================================================

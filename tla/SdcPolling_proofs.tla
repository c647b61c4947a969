-------------------------- MODULE SdcPolling_proofs --------------------------
(***************************************************************************)
(* Proofs about SdcPolling, for every number of calls, every number of     *)
(* blocks, every size of the FIFO and every timeout, and whatever the card *)
(* leaves unanswered or damages.                                           *)
(***************************************************************************)
EXTENDS SdcPolling, SdcHw_proofs

-----------------------------------------------------------------------------
(* What the drivers do to the controller.                                  *)

\* The reset leaves nothing of what was under way.
LEMMA SoftResetClears ==
    ASSUME SdcTypeOK, SoftReset, card' \in CardStates
    PROVE  /\ SdcTypeOK' /\ EngineInv' /\ CmdBlocksInv' /\ CmdQuiet' /\ EngineReady'
           /\ Settled'
<1> USE SdcAssumption
<1>1. reg' \in Registers /\ Settled'
  BY DEF SoftReset, SdcTypeOK, Registers, Settled
<1>2. cmdm' \in CmdMasters /\ cmdh' \in CmdHosts /\ start' \in Starts
  BY DEF SoftReset, CmdMasters, CmdHosts, Starts, Statuses
<1>3. datm' \in DataMasters /\ dath' \in DataHosts
  BY DEF SoftReset, DataMasters, DataHosts, Statuses
<1>4. fifo' \in Seq(BlockNames) /\ Len(fifo') <= FifoLen
  BY DEF SoftReset
<1>5. bus' \in Buses
  BY DEF SoftReset, Buses, Bursts, Addresses, NoBurst
<1>6. mem' \in [Reqs -> [Blocks -> BlockNames]]
  BY DEF SoftReset, SdcTypeOK
<1>7. SdcTypeOK'
  BY <1>1, <1>2, <1>3, <1>4, <1>5, <1>6 DEF SdcTypeOK
<1>8. EngineInv' /\ CmdBlocksInv' /\ CmdQuiet'
  BY DEF SoftReset, EngineInv, CmdBlocksInv, CmdQuiet
<1>9. EngineReady'
  BY DEF SoftReset, EngineReady, MasterReady, NoStart
<1> QED
  BY <1>1, <1>7, <1>8, <1>9

\* The registers as a command is sent.
LEMMA CommandRegisters ==
    ASSUME PollingTypeOK
    PROVE  /\ Command(reg) \in Registers
           /\ Command(reg).cmd_start
           /\ Command(reg).cmd_int_rst = reg.cmd_int_rst
           /\ Command(reg).dat_int_rst = reg.dat_int_rst
           /\ Command(reg).command \in {"read", "write"} <=> DataCommand
<1> USE DEF PollingTypeOK
<1> DEFINE set == IF DataCommand
                  THEN [reg EXCEPT !.dma_addr = call, !.block_count = task.blocks] ELSE reg
           command == IF sub = "stop" THEN "stop"
                      ELSE IF DataCommand THEN task.kind ELSE "plain"
           argument == IF sub \in {"cmd", "stop"} THEN <<call, sub>> ELSE <<0, "cmd">>
<1>1. reg \in Registers /\ task.blocks \in 0 .. MaxBlocks
  BY SdcAssumption DEF SdcTypeOK, Blocks
<1>2. set \in Registers /\ set.cmd_int_rst = reg.cmd_int_rst /\ set.dat_int_rst = reg.dat_int_rst
  BY <1>1 DEF Registers
<1>3. command \in Kinds /\ (command \in {"read", "write"} <=> DataCommand)
  BY DEF Kinds, DataCommand, MovesData
<1>4. argument \in Arguments
  BY SdcAssumption DEF Arguments
<1>5. Command(reg) = [set EXCEPT !.command = command, !.argument = argument,
                                 !.cmd_timeout = CmdTicks, !.cmd_start = TRUE]
  BY DEF Command, DataCommand
<1> HIDE DEF set, command, argument
<1> QED
  BY <1>2, <1>3, <1>4, <1>5 DEF Registers

-----------------------------------------------------------------------------
(* Types.                                                                  *)

\* A call that begins.
LEMMA BeginTypes ==
    ASSUME NEW kind \in {"init", "plain", "read", "write"}, NEW n \in Blocks,
           NEW first \in {"cmd", "cmd0"}, Begin(kind, n, first)
    PROVE  /\ stage' = "send" /\ sub' = first /\ result' = "ok"
           /\ task'.kind = kind
           /\ task' \in [kind : {"init", "plain", "read", "write"}, blocks : Blocks]
  BY DEF Begin, Task

LEMMA CallTypes ==
    ASSUME PollingTypeOK, EngineInv, Calls
    PROVE  PollingTypeOK' /\ EngineInv'
<1> USE DEF PollingTypeOK
<1>1. CASE SdDiskInitialize
  <2>1. card' \in CardStates
    BY <1>1 DEF SdDiskInitialize, SdcTypeOK, CardStates
  <2>2. SdcTypeOK' /\ EngineInv'
    BY <1>1, <2>1, SoftResetClears DEF SdDiskInitialize
  <2>3. 1 \in Blocks
    BY SdcAssumption DEF Blocks
  <2>4. /\ stage' = "send" /\ sub' = "cmd0" /\ result' = "ok"
        /\ task' \in [kind : {"init", "plain", "read", "write"}, blocks : Blocks]
    BY <1>1, <2>3, BeginTypes DEF SdDiskInitialize
  <2> QED BY <1>1, <2>2, <2>4 DEF SdDiskInitialize
<1>2. CASE SdDiskRead
  <2>1. PICK n \in Blocks : Begin("read", n, "cmd")
    BY <1>2 DEF SdDiskRead
  <2>2. /\ stage' = "send" /\ sub' = "cmd" /\ result' = "ok"
        /\ task' \in [kind : {"init", "plain", "read", "write"}, blocks : Blocks]
    BY <2>1, BeginTypes
  <2>3. call' \in 0 .. MaxReq
    BY <1>2, SdcAssumption DEF SdDiskRead
  <2> QED
    BY <1>2, <2>2, <2>3 DEF SdDiskRead, sdcVars, SdcTypeOK, EngineInv
<1>3. CASE SdUbootProbe
  <2>1. card' \in CardStates
    BY <1>3 DEF SdUbootProbe, SdcTypeOK
  <2>2. SdcTypeOK' /\ EngineInv'
    BY <1>3, <2>1, SoftResetClears DEF SdUbootProbe
  <2> QED BY <1>3, <2>2 DEF SdUbootProbe
<1>4. CASE UbootCall
  <2>1. PICK kind \in {"plain", "read", "write"}, n \in Blocks :
            /\ Begin(kind, n, "cmd")
            /\ mem' = IF kind = "write"
                      THEN [mem EXCEPT ![call + 1] = [k \in Blocks |-> <<call + 1, k>>]]
                      ELSE mem
    BY <1>4 DEF UbootCall
  <2>2. /\ stage' = "send" /\ sub' = "cmd" /\ result' = "ok"
        /\ task' \in [kind : {"init", "plain", "read", "write"}, blocks : Blocks]
    BY <2>1, BeginTypes
  <2>3. call' \in 0 .. MaxReq /\ call + 1 \in Reqs
    BY <1>4, SdcAssumption DEF UbootCall, Reqs
  <2>4. mem' \in [Reqs -> [Blocks -> BlockNames]]
    <3>1. \A k \in Blocks : <<call + 1, k>> \in BlockNames
      BY <2>3, SdcAssumption DEF BlockNames, Blocks, Reqs
    <3>2. [k \in Blocks |-> <<call + 1, k>>] \in [Blocks -> BlockNames]
      BY <3>1
    <3> QED BY <2>1, <3>2 DEF SdcTypeOK
  <2>5. SdcTypeOK' /\ EngineInv'
    BY <1>4, <2>4 DEF UbootCall, SdcTypeOK, EngineInv
  <2> QED BY <1>4, <2>2, <2>3, <2>5 DEF UbootCall
<1>5. CASE SetIos
  <2>1. reg' \in Registers
    BY <1>5 DEF SetIos, SdcTypeOK, Registers
  <2> QED BY <1>5, <2>1 DEF SetIos, SdcTypeOK, EngineInv
<1> QED
  BY <1>1, <1>2, <1>3, <1>4, <1>5 DEF Calls

LEMMA RoutineTypes ==
    ASSUME PollingTypeOK, EngineInv, Routine
    PROVE  PollingTypeOK' /\ EngineInv'
<1> USE DEF PollingTypeOK, CmdStages, DataStages
\* Registers written.
<1>1. CASE BootSend \/ UbootSend
  <2>1. reg' \in Registers
    BY <1>1, CommandRegisters DEF BootSend, UbootSend, WriteRegs
  <2> QED BY <1>1, <2>1 DEF BootSend, UbootSend, Goes, WriteRegs, SdcTypeOK, EngineInv
<1>2. CASE ClearStatus \/ ClearDataStatus
  <2>1. reg' \in Registers
    BY <1>2 DEF ClearStatus, ClearDataStatus, WriteRegs, SdcTypeOK, Registers
  <2> QED
    BY <1>2, <2>1 DEF ClearStatus, ClearDataStatus, Goes, WriteRegs, SdcTypeOK, EngineInv
\* Nothing written.
<1>3. CASE ~(BootSend \/ UbootSend \/ ClearStatus \/ ClearDataStatus)
  <2>1. UNCHANGED sdcVars
    BY <1>3 DEF Routine, SetIosDone, ReadStatus, IniNext, CommandOver, StopOver,
                ReadDataStatus, DataGood, DataBad
  <2>2. SdcTypeOK' /\ EngineInv'
    BY <2>1 DEF sdcVars, SdcTypeOK, EngineInv
  <2>3. CmdIntStatus \in Statuses /\ DatIntStatus \in Statuses
    BY DEF CmdIntStatus, DatIntStatus, SdcTypeOK, CmdMasters, DataMasters, Statuses
  <2>4. CASE SetIosDone
    BY <2>2, <2>4 DEF SetIosDone
  <2>5. CASE ReadStatus
    BY <2>2, <2>3, <2>5 DEF ReadStatus, Goes
  <2>6. CASE IniNext
    <3>1. busy_left' \in 0 .. MaxBusy
      <4>1. busy_left' = busy_left \/ (busy_left > 0 /\ busy_left' = busy_left - 1)
        BY <2>6 DEF IniNext
      <4> QED BY <4>1, MaxBusyAssumption
    <3> QED BY <2>2, <2>6, <3>1 DEF IniNext, Send, EndCall
  <2>7. CASE CommandOver
    BY <2>2, <2>7 DEF CommandOver, EndCall
  <2>8. CASE StopOver
    BY <2>2, <2>8 DEF StopOver, EndCall
  <2>9. CASE ReadDataStatus
    BY <2>2, <2>3, <2>9 DEF ReadDataStatus, Goes
  <2>10. CASE DataGood
    BY <2>2, <2>10 DEF DataGood, Send, EndCall
  <2>11. CASE DataBad
    BY <2>2, <2>11 DEF DataBad, EndCall
  <2> QED
    BY <1>3, <2>4, <2>5, <2>6, <2>7, <2>8, <2>9, <2>10, <2>11 DEF Routine
<1> QED
  BY <1>1, <1>2, <1>3

LEMMA PollingTypes ==
    ASSUME PollingTypeOK, EngineInv, [PollingNext]_allVars
    PROVE  PollingTypeOK' /\ EngineInv'
<1>1. CASE Hardware(SdcNext)
  <2>1. SdcTypeOK /\ SdcNext
    BY <1>1 DEF PollingTypeOK, Hardware
  <2>2. SdcTypeOK'
    BY <2>1, SdcTypes
  <2>3. EngineInv'
    <3>1. CASE Tick
      BY <2>1, <3>1, EngineTick
    <3>2. CASE ~Tick
      BY <2>1, <3>2 DEF SdcNext, BurstBegin, BurstEnd, BurstResp, CardReady, CardChange,
                        EngineInv
    <3> QED BY <3>1, <3>2
  <2> QED BY <1>1, <2>2, <2>3 DEF Hardware, sdPollVars, PollingTypeOK
<1>2. CASE UNCHANGED allVars
  BY <1>2 DEF allVars, sdPollVars, sdcVars, PollingTypeOK, SdcTypeOK, EngineInv
<1> QED
  BY <1>1, <1>2, CallTypes, RoutineTypes DEF PollingNext

-----------------------------------------------------------------------------
(* The command.                                                            *)

\* A clock edge takes a command on, and mixes it with no other.
LEMMA PolledCmdTick ==
    ASSUME SdcTypeOK, PolledCmdInv, Tick, UNCHANGED sdPollVars
    PROVE  PolledCmdInv'
<1>1. UNCHANGED <<stage, sub, task, seen>>
  BY DEF sdPollVars
<1>2. /\ ~reg'.cmd_start /\ ~reg'.cmd_int_rst /\ ~reg'.dat_int_rst
      /\ reg'.command = reg.command
  BY DEF Tick, SdcTypeOK, Registers
<1>3. CmdBlocksInv /\ CmdBlocksInv'
  BY CmdBlocksTick DEF PolledCmdInv
<1>4. cmdm'.status # {} => cmdm'.status \cap {"CC", "EI"} # {}
  BY <1>3, CmdStatusTick DEF PolledCmdInv
<1>5. cmdm.state = "IDLE" /\ ~reg.cmd_start =>
          /\ cmdm'.state = "IDLE"
          /\ cmdm'.status = IF reg.cmd_int_rst THEN {} ELSE cmdm.status
          /\ reg.cmd_int_rst \/ cmdm.status = {} => CmdQuiet'
  BY <1>3, CmdOverTick
<1>6. stage \notin CmdStages => CmdQuiet'
  BY <1>5 DEF PolledCmdInv, CmdQuiet, CmdStages
<1>7. stage = "settle" => CmdQuiet'
  BY <1>5 DEF PolledCmdInv, CmdQuiet
<1>8. stage \in {"clear", "settle"} => cmdm'.state = "IDLE"
  BY <1>5 DEF PolledCmdInv
<1>9. stage = "clear" => seen = cmdm'.status /\ seen # {}
  BY <1>5 DEF PolledCmdInv
<1>10. stage \in CmdStages => (reg.command \in {"read", "write"} <=> DataCommand)
  BY DEF PolledCmdInv
<1>11. DataCommand' <=> DataCommand
  BY <1>1 DEF DataCommand, MovesData
<1> QED
  BY <1>1, <1>2, <1>3, <1>4, <1>6, <1>7, <1>8, <1>9, <1>10, <1>11 DEF PolledCmdInv

\* What the drivers do to it: reset, write the command, read the status, clear it.
LEMMA PolledCmdStep ==
    ASSUME PollingTypeOK, PolledCmdInv, [PollingNext]_allVars
    PROVE  PolledCmdInv'
<1>1. SdcTypeOK /\ reg \in Registers
  BY DEF PollingTypeOK, SdcTypeOK
<1> USE DEF CmdStages
<1>2. CASE Hardware(SdcNext)
  <2>1. CASE Tick
    BY <1>1, <1>2, <2>1, PolledCmdTick DEF Hardware
  <2>2. CASE ~Tick
    <3>1. UNCHANGED <<reg, cmdm, cmdh, stage, sub, task, seen>>
      BY <1>2, <2>2 DEF Hardware, sdPollVars, SdcNext, BurstBegin, BurstEnd, BurstResp,
                        CardReady, CardChange
    <3> QED
      BY <3>1 DEF PolledCmdInv, CmdQuiet, CmdBlocksInv, DataCommand, MovesData
  <2> QED BY <2>1, <2>2
<1>3. CASE SdDiskInitialize \/ SdUbootProbe
  <2>1. card' \in CardStates
    BY <1>1, <1>3 DEF SdDiskInitialize, SdUbootProbe, SdcTypeOK, CardStates
  <2>2. CmdBlocksInv' /\ CmdQuiet' /\ Settled'
    BY <1>1, <1>3, <2>1, SoftResetClears DEF SdDiskInitialize, SdUbootProbe
  <2>3. stage' \in {"idle", "send"}
    BY <1>3 DEF SdDiskInitialize, SdUbootProbe, Begin
  <2> QED BY <2>2, <2>3 DEF PolledCmdInv, Settled, CmdQuiet
\* The steps between two commands.
<1>4. CASE SdDiskRead \/ UbootCall \/ SetIos \/ SetIosDone \/ ReadDataStatus
             \/ ClearDataStatus \/ DataGood \/ DataBad
  <2>1. /\ stage \notin CmdStages /\ stage' \notin CmdStages
        /\ UNCHANGED <<cmdm, cmdh>>
    BY <1>4 DEF SdDiskRead, UbootCall, SetIos, SetIosDone, ReadDataStatus, ClearDataStatus,
                DataGood, DataBad, Goes, WriteRegs, Begin, Send, EndCall, sdcVars
  <2>2. /\ reg'.cmd_start = reg.cmd_start
        /\ reg'.cmd_int_rst = reg.cmd_int_rst \/ stage' = "set_ios"
        /\ stage = "set_ios" => ~reg.cmd_int_rst
    BY <1>1, <1>4 DEF SdDiskRead, UbootCall, SetIos, SetIosDone, ReadDataStatus,
                ClearDataStatus, DataGood, DataBad, Goes, WriteRegs, Begin, sdcVars,
                Settled, Registers
  <2> QED BY <2>1, <2>2 DEF PolledCmdInv, CmdQuiet, CmdBlocksInv
<1>5. CASE BootSend \/ UbootSend
  <2>1. reg' = Command(reg) /\ stage = "send" /\ stage' = "poll"
    BY <1>5 DEF BootSend, UbootSend, Goes, WriteRegs
  <2>2. UNCHANGED <<cmdm, cmdh, sub, task, seen>>
    BY <1>5 DEF BootSend, UbootSend, Goes, WriteRegs
  <2>3. /\ reg'.cmd_int_rst = reg.cmd_int_rst
        /\ reg'.command \in {"read", "write"} <=> DataCommand
    BY <2>1, CommandRegisters
  <2>4. DataCommand' <=> DataCommand
    BY <2>2 DEF DataCommand, MovesData
  <2> QED BY <2>1, <2>2, <2>3, <2>4 DEF PolledCmdInv, CmdQuiet, CmdBlocksInv
<1>6. CASE ReadStatus
  <2>1. /\ stage = "poll" /\ stage' = "clear" /\ UNCHANGED <<reg, cmdm, cmdh, sub, task>>
        /\ seen' = cmdm.status /\ seen' # {} /\ cmdm.state = "IDLE"
    BY <1>6 DEF ReadStatus, Goes, sdcVars, CmdIntStatus
  <2>2. ~reg.cmd_start
    BY <2>1 DEF PolledCmdInv, CmdQuiet
  <2> QED BY <2>1, <2>2 DEF PolledCmdInv, CmdQuiet, CmdBlocksInv, DataCommand, MovesData
<1>7. CASE ClearStatus
  <2>1. /\ stage = "clear" /\ stage' = "settle" /\ UNCHANGED <<cmdm, cmdh, sub, task, seen>>
        /\ reg'.cmd_int_rst /\ reg'.cmd_start = reg.cmd_start
        /\ reg'.command = reg.command
    BY <1>1, <1>7 DEF ClearStatus, Goes, WriteRegs, Registers
  <2> QED BY <2>1 DEF PolledCmdInv, CmdQuiet, CmdBlocksInv, DataCommand, MovesData
<1>8. CASE IniNext \/ CommandOver \/ StopOver
  <2>1. /\ stage = "settle" /\ Settled /\ stage' \in {"idle", "send", "data"}
        /\ UNCHANGED <<reg, cmdm, cmdh>>
    BY <1>8 DEF IniNext, CommandOver, StopOver, Over, Send, EndCall, sdcVars
  <2> QED BY <2>1 DEF PolledCmdInv, CmdQuiet, CmdBlocksInv, Settled
<1>9. CASE UNCHANGED allVars
  BY <1>9 DEF allVars, sdPollVars, sdcVars, PolledCmdInv, CmdQuiet, CmdBlocksInv,
              DataCommand, MovesData
<1> QED
  BY <1>2, <1>3, <1>4, <1>5, <1>6, <1>7, <1>8, <1>9 DEF PollingNext, Calls, Routine

-----------------------------------------------------------------------------
(* The data engine.                                                        *)

\* A clock edge starts no transfer but that of the command being sent.
LEMMA PolledDataTick ==
    ASSUME SdcTypeOK, EngineInv, PolledCmdInv, PolledDataInv, Tick, UNCHANGED sdPollVars
    PROVE  PolledDataInv'
<1>1. UNCHANGED <<stage, sub, task>>
  BY DEF sdPollVars
<1>2. /\ ~reg'.cmd_start /\ ~reg'.cmd_int_rst /\ ~reg'.dat_int_rst
      /\ reg'.command = reg.command
  BY DEF Tick, SdcTypeOK, Registers
<1>3. /\ start'.rx => reg.cmd_start /\ reg.command = "read"
      /\ start'.tx => ~reg.cmd_start /\ start.prepare /\ "CC" \in CmdIntStatus
      /\ start'.prepare => \/ reg.cmd_start /\ reg.command = "write"
                           \/ ~reg.cmd_start /\ start.prepare
                                /\ CmdIntStatus \cap {"CC", "EI"} = {}
  BY DataStartMoves DEF Tick
<1>4. /\ MasterReady /\ ~start.rx /\ ~start.tx => MasterReady'
      /\ datm.state = "IDLE" => datm'.en = "off"
      /\ datm.state = "IDLE" /\ ~start.rx /\ ~start.tx => datm'.state = "IDLE"
      /\ datm.state = "IDLE" =>
             datm'.status = IF reg.dat_int_rst THEN {} ELSE datm.status
      /\ datm.state # "IDLE" /\ datm.status = {} /\ datm'.status # {} =>
             datm'.state = "IDLE"
  BY MasterMoves DEF Tick
<1>5. EngineReady /\ ~(reg.cmd_start /\ reg.command \in {"read", "write"}) => EngineReady'
  BY EngineReadyTick
<1>6. reg.cmd_start => stage = "poll" /\ EngineReady
  BY DEF PolledCmdInv, PolledDataInv
<1>7. reg.cmd_start /\ reg.command \in {"read", "write"} => DataCommand
  BY <1>6 DEF PolledCmdInv, CmdStages
<1>8. start.rx \/ start.tx \/ start.prepare => MasterReady
  BY DEF PolledDataInv, NoStart
<1>9. CmdIntStatus = IF cmdm.state = "IDLE" THEN cmdm.status ELSE {}
  BY DEF CmdIntStatus
\* A write that is prepared is under way, or its status has been seen.
<1>10. start.prepare /\ ~reg.cmd_start /\ CmdIntStatus \cap {"CC", "EI"} = {} =>
           stage \in {"poll", "clear"}
  BY <1>9 DEF PolledDataInv, PolledCmdInv, EngineReady, NoStart, CmdStages, DataStages
\* The parts of the invariant.
<1>11. \/ EngineReady'
       \/ stage \in CmdStages /\ DataCommand
       \/ stage \in DataStages
  BY <1>5, <1>6, <1>7 DEF PolledDataInv, CmdStages
<1>12. ~NoStart' => MasterReady'
  BY <1>3, <1>4, <1>6, <1>8 DEF NoStart, EngineReady, PolledDataInv
<1>13. datm'.status # {} => datm'.state = "IDLE"
  BY <1>4, <1>8 DEF PolledDataInv, MasterReady
<1>14. /\ start'.rx => reg.command = "read" /\ ~start'.tx /\ ~start'.prepare
       /\ start'.tx => ~start'.prepare
  BY <1>3
<1>15. start'.prepare => stage \in {"poll", "clear"}
  BY <1>3, <1>6, <1>10
<1>16. stage = "data_clear" => datm'.status # {}
  <2>1. stage = "data_clear" => ~reg.dat_int_rst
    BY DEF PolledDataInv
  <2> QED BY <1>4, <2>1 DEF PolledDataInv
<1>17. stage = "data_settle" => EngineReady'
  <2>1. CASE reg.dat_int_rst /\ stage = "data_settle"
    <3>1. datm.status # {} /\ datm.state = "IDLE" /\ NoStart
      BY <2>1 DEF PolledDataInv, MasterReady
    <3>2. ~reg.cmd_start
      BY <1>6, <2>1
    <3> QED BY <1>3, <1>4, <2>1, <3>1, <3>2 DEF EngineReady, MasterReady, NoStart
  <2>2. CASE ~reg.dat_int_rst /\ stage = "data_settle"
    BY <1>5, <1>6, <2>2 DEF PolledDataInv
  <2> QED BY <2>1, <2>2
<1>18. DataCommand' <=> DataCommand
  BY <1>1 DEF DataCommand, MovesData
<1> QED
  BY <1>1, <1>2, <1>11, <1>12, <1>13, <1>14, <1>15, <1>16, <1>17, <1>18 DEF PolledDataInv

\* The engine is idle again when the driver is done with the command that started it,
\* unless that failed.
LEMMA PolledDataStep ==
    ASSUME PollingTypeOK, EngineInv, PolledCmdInv, ~dirty => PolledDataInv,
           [PollingNext]_allVars, ~dirty'
    PROVE  PolledDataInv'
<1>1. SdcTypeOK /\ reg \in Registers
  BY DEF PollingTypeOK, SdcTypeOK
\* A reset.
<1>2. CASE SdDiskInitialize \/ SdUbootProbe
  <2>1. card' \in CardStates
    BY <1>1, <1>2 DEF SdDiskInitialize, SdUbootProbe, SdcTypeOK, CardStates
  <2>2. EngineReady' /\ Settled'
    BY <1>1, <1>2, <2>1, SoftResetClears DEF SdDiskInitialize, SdUbootProbe
  <2>3. stage' \in {"idle", "send"}
    BY <1>2 DEF SdDiskInitialize, SdUbootProbe, Begin
  <2> QED
    BY <2>2, <2>3 DEF PolledDataInv, EngineReady, MasterReady, NoStart, Settled, DataStages
\* What the stages say without one.
<1>3. ASSUME ~dirty
      PROVE  PolledDataInv
  BY <1>3
<1>4. stage \notin {"poll", "clear"} /\ ~reg.cmd_int_rst /\ ~dirty => ~start.prepare
  BY <1>3 DEF PolledDataInv
<1>5. stage \notin CmdStages \cup DataStages /\ ~dirty => EngineReady
  BY <1>3 DEF PolledDataInv
<1> USE DEF CmdStages, DataStages
<1>6. CASE Hardware(SdcNext)
  <2>1. ~dirty
    BY <1>6 DEF Hardware, sdPollVars
  <2>2. CASE Tick
    BY <1>1, <1>6, <2>1, <2>2, PolledDataTick DEF Hardware
  <2>3. CASE ~Tick
    <3>1. UNCHANGED <<reg, start, datm, stage, sub, task>>
      BY <1>6, <2>3 DEF Hardware, sdPollVars, SdcNext, BurstBegin, BurstEnd, BurstResp,
                        CardReady, CardChange
    <3> QED
      BY <2>1, <3>1 DEF PolledDataInv, EngineReady, MasterReady, NoStart, DataCommand,
                        MovesData
  <2> QED BY <2>2, <2>3
<1>7. CASE SdDiskRead \/ UbootCall \/ SetIos \/ SetIosDone
  <2>1. /\ stage \in {"idle", "set_ios"} /\ stage' \in {"idle", "send", "set_ios"}
        /\ dirty' = dirty /\ UNCHANGED <<start, datm>>
    BY <1>7 DEF SdDiskRead, UbootCall, SetIos, SetIosDone, Begin, sdcVars
  <2>2. /\ reg'.cmd_start = reg.cmd_start
        /\ reg'.dat_int_rst => (reg.dat_int_rst /\ stage = "idle") \/ stage' = "set_ios"
    BY <1>1, <1>7 DEF SdDiskRead, UbootCall, SetIos, SetIosDone, Begin, Settled, sdcVars,
                      Registers
  <2>3. EngineReady /\ PolledDataInv
    BY <1>3, <1>5, <2>1
  <2> QED BY <2>1, <2>2, <2>3 DEF PolledDataInv, EngineReady, MasterReady, NoStart
<1>8. CASE BootSend \/ UbootSend
  <2>1. /\ stage = "send" /\ stage' = "poll" /\ dirty' = dirty /\ UNCHANGED <<start, datm>>
        /\ reg' = Command(reg)
    BY <1>8 DEF BootSend, UbootSend, Goes, WriteRegs
  <2>2. reg'.dat_int_rst = reg.dat_int_rst
    BY <2>1, CommandRegisters
  <2>3. EngineReady /\ PolledDataInv
    BY <1>3, <1>5, <2>1
  <2> QED BY <2>1, <2>2, <2>3 DEF PolledDataInv, EngineReady, MasterReady, NoStart
<1>9. CASE ReadStatus
  <2>1. /\ stage = "poll" /\ stage' = "clear" /\ UNCHANGED <<reg, start, datm, sub, task>>
        /\ dirty' = dirty
    BY <1>9 DEF ReadStatus, Goes, sdcVars
  <2> QED
    BY <1>3, <2>1 DEF PolledDataInv, EngineReady, MasterReady, NoStart, DataCommand,
                      MovesData
<1>10. CASE ClearStatus
  <2>1. /\ stage = "clear" /\ stage' = "settle" /\ UNCHANGED <<start, datm, sub, task>>
        /\ dirty' = dirty /\ reg'.cmd_int_rst /\ reg'.cmd_start = reg.cmd_start
        /\ reg'.command = reg.command /\ reg'.dat_int_rst = reg.dat_int_rst
    BY <1>1, <1>10 DEF ClearStatus, Goes, WriteRegs, Registers
  <2> QED
    BY <1>3, <2>1 DEF PolledDataInv, EngineReady, MasterReady, NoStart, DataCommand,
                      MovesData
<1>11. CASE IniNext \/ CommandOver \/ StopOver
  <2>1. /\ stage = "settle" /\ Settled /\ UNCHANGED <<reg, start, datm>>
        /\ stage' \in {"idle", "send", "data"}
        /\ ~dirty
        /\ stage' # "data" => ~DataCommand
    BY <1>11 DEF IniNext, CommandOver, StopOver, Over, Send, EndCall, DataCommand,
                 MovesData, sdcVars, PollingTypeOK
  <2>2. ~start.prepare /\ PolledDataInv
    BY <1>3, <1>4, <2>1 DEF Settled
  <2> QED
    BY <2>1, <2>2 DEF PolledDataInv, EngineReady, MasterReady, NoStart, Settled
<1>12. CASE ReadDataStatus
  <2>1. /\ stage = "data" /\ stage' = "data_clear" /\ UNCHANGED <<reg, start, datm>>
        /\ dirty' = dirty /\ datm.status # {}
    BY <1>12 DEF ReadDataStatus, Goes, DatIntStatus, sdcVars
  <2> QED BY <1>3, <2>1 DEF PolledDataInv, EngineReady, MasterReady, NoStart
<1>13. CASE ClearDataStatus
  <2>1. /\ stage = "data_clear" /\ stage' = "data_settle" /\ UNCHANGED <<start, datm>>
        /\ dirty' = dirty /\ reg'.dat_int_rst /\ reg'.cmd_start = reg.cmd_start
        /\ reg'.command = reg.command /\ reg'.cmd_int_rst = reg.cmd_int_rst
    BY <1>1, <1>13 DEF ClearDataStatus, Goes, WriteRegs, Registers
  <2> QED BY <1>3, <2>1 DEF PolledDataInv, EngineReady, MasterReady, NoStart
<1>14. CASE DataGood \/ DataBad
  <2>1. /\ stage = "data_settle" /\ Settled /\ UNCHANGED <<reg, start, datm>>
        /\ dirty' = dirty /\ stage' \in {"idle", "send"}
    BY <1>14 DEF DataGood, DataBad, Send, EndCall, sdcVars
  <2>2. EngineReady /\ PolledDataInv
    BY <1>3, <2>1 DEF PolledDataInv, Settled
  <2> QED
    BY <2>1, <2>2 DEF PolledDataInv, EngineReady, MasterReady, NoStart, Settled
<1>15. CASE UNCHANGED allVars
  <2>1. dirty' = dirty /\ UNCHANGED <<reg, start, datm, stage, sub, task>>
    BY <1>15 DEF allVars, sdPollVars, sdcVars
  <2> QED
    BY <1>3, <2>1 DEF PolledDataInv, EngineReady, MasterReady, NoStart, DataCommand,
                      MovesData
<1> QED
  BY <1>2, <1>6, <1>7, <1>8, <1>9, <1>10, <1>11, <1>12, <1>13, <1>14, <1>15
     DEF PollingNext, Calls, Routine

-----------------------------------------------------------------------------
(* All of it.                                                              *)

LEMMA PollingStart ==
    ASSUME PollingInit
    PROVE  PollingTypeOK /\ EngineInv /\ PolledSdInv
<1> USE SdcAssumption
<1>1. PICK in \in BOOLEAN : PollingIdle /\ SdcReset(in, {})
  BY DEF PollingInit
<1>2. reg \in Registers
  BY <1>1 DEF SdcReset, Registers, Kinds, Arguments
<1>3. cmdm \in CmdMasters /\ cmdh \in CmdHosts /\ start \in Starts
  BY <1>1 DEF SdcReset, CmdMasters, CmdHosts, Starts, Statuses
<1>4. datm \in DataMasters /\ dath \in DataHosts
  BY <1>1 DEF SdcReset, DataMasters, DataHosts, Statuses
<1>5. fifo \in Seq(BlockNames) /\ Len(fifo) <= FifoLen
  BY <1>1 DEF SdcReset
<1>6. bus \in Buses
  BY <1>1 DEF SdcReset, Buses, Bursts, Addresses, NoBurst
<1>7. mem \in [Reqs -> [Blocks -> BlockNames]]
  BY <1>1 DEF SdcReset, BlockNames, NoBlock
<1>8. card \in CardStates
  BY <1>1 DEF SdcReset, CardStates, Blocks, Arguments
<1>9. SdcTypeOK
  BY <1>2, <1>3, <1>4, <1>5, <1>6, <1>7, <1>8 DEF SdcTypeOK
<1>10. PollingTypeOK
  <2>1. NoTask \in [kind : {"init", "plain", "read", "write"}, blocks : Blocks]
    BY DEF NoTask, Blocks
  <2>2. 0 \in 0 .. MaxReq /\ 0 \in 0 .. MaxBusy /\ {} \in Statuses
    BY MaxBusyAssumption DEF Statuses
  <2> QED BY <1>1, <1>9, <2>1, <2>2 DEF PollingTypeOK, PollingIdle
<1>11. EngineInv
  BY <1>1 DEF EngineInv, SdcReset
<1>12. PolledCmdInv
  BY <1>1 DEF PollingIdle, SdcReset, PolledCmdInv, CmdQuiet, CmdBlocksInv, CmdStages
<1>13. PolledDataInv
  BY <1>1 DEF PollingIdle, SdcReset, PolledDataInv, EngineReady, MasterReady, NoStart
<1> QED
  BY <1>10, <1>11, <1>12, <1>13 DEF PolledSdInv

\* The boot ROM and U-Boot on the polled controller: when a call is over, however it
\* ended, or a reset is, the data engine is idle, no write waits for an answer and no
\* status is pending, for any number of calls and any failure of the card; but for what
\* a data command that failed leaves until the reset that follows.
THEOREM PolledEngineReady == PollingSpec => []PolledEngineIsReady
<1>1. PollingInit => PollingTypeOK /\ EngineInv /\ PolledSdInv
  BY PollingStart
<1>2. /\ PollingTypeOK /\ EngineInv /\ PolledSdInv
      /\ [PollingNext]_allVars
      => (PollingTypeOK /\ EngineInv /\ PolledSdInv)'
  BY PollingTypes, PolledCmdStep, PolledDataStep DEF PolledSdInv
<1>3. PolledSdInv => PolledEngineIsReady
  BY DEF PolledSdInv, PolledCmdInv, PolledDataInv, PolledEngineIsReady, CmdQuiet,
         CmdStages, DataStages
<1> QED
  BY <1>1, <1>2, <1>3, PTL DEF PollingSpec
=============================================================================

-------------------------- MODULE SdcDriver_proofs --------------------------
(***************************************************************************)
(* Proofs about SdcDriver, for every number and shape of requests, every   *)
(* size of the FIFO and every timeout: calls and commands, and then that a *)
(* request reported as done without an error has moved its own data.       *)
(***************************************************************************)
EXTENDS SdcProps, SdcHw_proofs

-----------------------------------------------------------------------------
(* Calls.                                                                  *)

\* The lock and the request go through their steps in order.
LEMMA CallStep ==
    ASSUME CallInv, issued \in Nat, op \in {"none", "request", "isr"}, [Next]_vars
    PROVE  CallInv'
<1> USE DEF CallInv, Goto, Lock, Unlock, SendPcs, SendFirst, HasData, drvVars, lockVars,
           reqVars
<1>1. CASE Sdc
  BY <1>1 DEF Sdc
<1>2. CASE RequestEnter
  <2>1. PICK r \in Requests :
            /\ req' = r
            /\ role' = IF r.sbc THEN "sbc" ELSE "cmd"
            /\ Lock("request", IF r.sbc THEN "send" ELSE SendFirst(r, "cmd"))
    BY <1>2 DEF RequestEnter
  <2>2. mrq' # 0 /\ has_data' = FALSE
    BY <1>2 DEF RequestEnter
  <2>3. CASE r.sbc
    BY <2>1, <2>2, <2>3
  <2>4. CASE ~r.sbc
    BY <2>1, <2>2, <2>4
  <2> QED BY <2>3, <2>4
<1>3. CASE Sending
  <2>1. CASE SetupData
    BY <2>1 DEF SetupData
  <2>2. CASE SetupFails
    BY <2>2 DEF SetupFails
  <2>3. CASE SendCmd
    BY <2>3 DEF SendCmd
  <2>4. CASE CmdPoll
    BY <2>4 DEF CmdPoll
  <2>5. CASE CmdClear
    BY <2>5 DEF CmdClear
  <2>6. CASE SbcOk
    BY <2>6 DEF SbcOk
  <2>7. CASE CmdFailed
    BY <2>7 DEF CmdFailed
  <2>8. CASE CmdOk
    BY <2>8 DEF CmdOk
  <2>9. CASE CmdOkWithData
    BY <2>9 DEF CmdOkWithData
  <2>10. CASE StopDone
    BY <2>10 DEF StopDone
  <2> QED
    BY <1>3, <2>1, <2>2, <2>3, <2>4, <2>5, <2>6, <2>7, <2>8, <2>9, <2>10 DEF Sending
<1>4. CASE RequestExit
  BY <1>4 DEF RequestExit
<1>5. CASE IrqDispatch
  BY <1>5 DEF IrqDispatch
<1>6. CASE Isr
  BY <1>6 DEF Isr, IsrEnter, IsrReadCard, IsrReportCard, IsrNoData, IsrReadData,
              IsrDisable, IsrClear, IsrDropData, IsrTakeData, IsrDone
<1>7. CASE UNCHANGED vars
  BY <1>7 DEF vars
<1> QED
  BY <1>1, <1>2, <1>3, <1>4, <1>5, <1>6, <1>7 DEF Next

\* What a step does to the controller: a step of its own, registers written, or a
\* buffer filled.
LEMMA HardwareStep ==
    ASSUME [Next]_vars
    PROVE  \/ SdcNext
           \/ UNCHANGED sdcVars
           \/ UNCHANGED <<cmdm, cmdh, start, datm, dath, fifo, bus, card>>
  BY DEF Next, Sdc, RequestEnter, Sending, SetupData, SetupFails, SendCmd, CmdPoll, CmdClear,
         SbcOk, CmdFailed, CmdOk, CmdOkWithData, StopDone, RequestExit, IrqDispatch, Isr,
         IsrEnter, IsrReadCard, IsrReportCard, IsrNoData, IsrReadData, IsrDisable, IsrClear,
         IsrDropData, IsrTakeData, IsrDone, WriteReg, vars, sdcVars

-----------------------------------------------------------------------------
(* Data master and data host.                                              *)

LEMMA EngineStep ==
    ASSUME SdcTypeOK, EngineInv, [Next]_vars
    PROVE  EngineInv'
<1>1. CASE UNCHANGED <<datm, dath>>
  BY <1>1 DEF EngineInv
<1>2. CASE Tick
  BY <1>2, EngineTick
<1>3. SdcNext => Tick \/ UNCHANGED <<datm, dath>>
  BY DEF SdcNext, BurstBegin, BurstEnd, BurstResp, CardReady, CardChange
<1> QED
  BY <1>1, <1>2, <1>3, HardwareStep DEF sdcVars

-----------------------------------------------------------------------------
(* Types.                                                                  *)

LEMMA TypeStep ==
    ASSUME TypeOK, CallInv, EngineInv, [Next]_vars
    PROVE  TypeOK'
<1> USE SdcAssumption, RequestsAssumption
<1> USE DEF TypeOK, Goto, Lock, Unlock, lockVars, reqVars, drvVars
<1>1. CASE Sdc
  <2>1. SdcTypeOK'
    BY <1>1, SdcTypes DEF Sdc
  <2> QED BY <1>1, <2>1 DEF Sdc
<1>2. CASE RequestEnter
  <2>1. issued < MaxReq /\ issued' = issued + 1 /\ mrq' = issued + 1
    BY <1>2 DEF RequestEnter
  <2>2. issued + 1 \in Reqs
    BY <2>1 DEF Reqs
  <2>3. \A n \in Blocks : <<issued + 1, n>> \in BlockNames
    BY <2>2 DEF BlockNames, Blocks, Reqs
  <2>4. mem' \in [Reqs -> [Blocks -> BlockNames]]
    <3>1. [n \in Blocks |-> <<issued + 1, n>>] \in [Blocks -> BlockNames]
      BY <2>3
    <3>2. \/ mem' = [mem EXCEPT ![issued + 1] = [n \in Blocks |-> <<issued + 1, n>>]]
          \/ mem' = mem
      BY <1>2 DEF RequestEnter
    <3> QED BY <3>1, <3>2 DEF SdcTypeOK
  <2>5. SdcTypeOK'
    BY <1>2, <2>4 DEF RequestEnter, SdcTypeOK
  <2>6. /\ op' = "request" /\ pc' \in {"setup", "send"} /\ role' \in {"sbc", "cmd"}
        /\ req' \in Requests
    BY <1>2 DEF RequestEnter, SendFirst
  <2>7. issued' \in 0 .. MaxReq /\ mrq' \in 0 .. MaxReq
    BY <2>1, <2>2 DEF Reqs
  <2> QED BY <1>2, <2>5, <2>6, <2>7 DEF RequestEnter
<1>3. CASE Sending
  <2>1. CASE SetupData
    <3>1. mrq \in Reqs /\ req.blocks \in 0 .. MaxBlocks
      BY <2>1 DEF SetupData, CallInv, SendPcs, Reqs, NoReq, Blocks
    <3>2. [reg EXCEPT !.dma_addr = mrq, !.block_count = req.blocks] \in Registers
      BY <3>1 DEF SdcTypeOK, Registers
    <3> QED BY <2>1, <3>1, <3>2 DEF SetupData, WriteReg, SdcTypeOK
  <2>2. CASE SetupFails
    BY <2>2 DEF SetupFails, sdcVars, SdcTypeOK
  <2>3. CASE SendCmd
    <3>1. <<mrq, role>> \in Arguments
      BY DEF Arguments
    <3>2. Kind \in Kinds
      BY DEF Kind, Kinds, NoReq
    <3>3. CmdTimeout \in {0, CmdTicks}
      BY DEF CmdTimeout
    <3>4. [reg EXCEPT !.command = Kind, !.argument = <<mrq, role>>,
                      !.cmd_timeout = CmdTimeout, !.cmd_start = TRUE] \in Registers
      BY <3>1, <3>2, <3>3 DEF SdcTypeOK, Registers
    <3> QED BY <2>3, <3>4 DEF SendCmd, WriteReg, SdcTypeOK
  <2>4. CASE CmdPoll
    BY <2>4 DEF CmdPoll, sdcVars, SdcTypeOK, CmdIntStatus, CmdMasters, Statuses
  <2>5. CASE CmdClear
    BY <2>5, ZenonT(30) DEF CmdClear, WriteReg, SdcTypeOK, Registers
  <2>6. CASE SbcOk
    BY <2>6 DEF SbcOk, SendFirst, sdcVars, SdcTypeOK
  <2>7. CASE CmdFailed
    BY <2>7 DEF CmdFailed, sdcVars, SdcTypeOK
  <2>8. CASE CmdOk
    BY <2>8 DEF CmdOk, sdcVars, SdcTypeOK
  <2>9. CASE CmdOkWithData
    BY <2>9 DEF CmdOkWithData, sdcVars, SdcTypeOK
  <2>10. CASE StopDone
    BY <2>10 DEF StopDone, sdcVars, SdcTypeOK
  <2> QED
    BY <1>3, <2>1, <2>2, <2>3, <2>4, <2>5, <2>6, <2>7, <2>8, <2>9, <2>10 DEF Sending
<1>4. CASE RequestExit
  BY <1>4 DEF RequestExit, WriteReg, SdcTypeOK, Registers
<1>5. CASE IrqDispatch
  BY <1>5 DEF IrqDispatch, sdcVars, SdcTypeOK
<1>6. CASE Isr
  <2>1. CASE IsrEnter
    BY <2>1 DEF IsrEnter, sdcVars, SdcTypeOK
  <2>2. CASE IsrReadCard
    BY <2>2 DEF IsrReadCard, sdcVars, SdcTypeOK, CardStates
  <2>3. CASE IsrReportCard
    BY <2>3 DEF IsrReportCard, WriteReg, SdcTypeOK, Registers
  <2>4. CASE IsrNoData
    BY <2>4 DEF IsrNoData, sdcVars, SdcTypeOK
  <2>5. CASE IsrReadData
    BY <2>5 DEF IsrReadData, sdcVars, SdcTypeOK, DatIntStatus, DataMasters, Statuses
  <2>6. CASE IsrDisable
    BY <2>6, ZenonT(60) DEF IsrDisable, WriteReg, SdcTypeOK, Registers
  <2>7. CASE IsrClear
    BY <2>7, ZenonT(30) DEF IsrClear, WriteReg, SdcTypeOK, Registers
  <2>8. CASE IsrDropData
    BY <2>8 DEF IsrDropData, sdcVars, SdcTypeOK
  <2>9. CASE IsrTakeData
    BY <2>9 DEF IsrTakeData, sdcVars, SdcTypeOK
  <2>10. CASE IsrDone
    <3>1. SdcTypeOK'
      BY <2>10 DEF IsrDone, sdcVars, SdcTypeOK
    <3>2. mapped' \subseteq Reqs /\ mrq' \in 0 .. MaxReq
      BY <2>10 DEF IsrDone
    <3> QED BY <2>10, <3>1, <3>2 DEF IsrDone
  <2> QED
    BY <1>6, <2>1, <2>2, <2>3, <2>4, <2>5, <2>6, <2>7, <2>8, <2>9, <2>10 DEF Isr
<1>7. CASE UNCHANGED vars
  BY <1>7 DEF vars, sdcVars, SdcTypeOK
<1> QED
  BY <1>1, <1>2, <1>3, <1>4, <1>5, <1>6, <1>7 DEF Next

LEMMA TypeInit ==
    ASSUME Init
    PROVE  TypeOK /\ CallInv /\ EngineInv
<1> USE SdcAssumption
<1>1. DriverIdle /\ reported = card.in
  BY DEF Init
<1>2. PICK in \in BOOLEAN : SdcReset(in, IF in THEN {"remove"} ELSE {"insert"})
  BY DEF Init, SdcInit
<1>3. reg \in Registers
  BY <1>2 DEF SdcReset, Registers, Kinds, Arguments
<1>4. cmdm \in CmdMasters /\ cmdh \in CmdHosts /\ start \in Starts
  BY <1>2 DEF SdcReset, CmdMasters, CmdHosts, Starts, Statuses
<1>5. datm \in DataMasters /\ dath \in DataHosts
  BY <1>2 DEF SdcReset, DataMasters, DataHosts, Statuses
<1>6. fifo \in Seq(BlockNames) /\ Len(fifo) <= FifoLen
  BY <1>2 DEF SdcReset
<1>7. bus \in Buses
  BY <1>2 DEF SdcReset, Buses, Bursts, Addresses, NoBurst
<1>8. mem \in [Reqs -> [Blocks -> BlockNames]]
  BY <1>2 DEF SdcReset, BlockNames, NoBlock
<1>9. card \in CardStates
  BY <1>2 DEF SdcReset, CardStates, Blocks, Arguments
<1>10. SdcTypeOK
  BY <1>3, <1>4, <1>5, <1>6, <1>7, <1>8, <1>9 DEF SdcTypeOK
<1>11. TypeOK
  <2>1. reported \in BOOLEAN
    BY <1>1, <1>9 DEF CardStates
  <2>2. st \in Statuses /\ mrq \in 0 .. MaxReq /\ issued \in 0 .. MaxReq
    BY <1>1 DEF DriverIdle, Statuses
  <2> QED BY <1>1, <1>10, <2>1, <2>2 DEF TypeOK, DriverIdle
<1>12. CallInv
  BY <1>1 DEF CallInv, DriverIdle, SendPcs
<1>13. EngineInv
  BY <1>2 DEF EngineInv, SdcReset
<1> QED
  BY <1>11, <1>12, <1>13

\* Types, the order of calls, and that the data host works in the direction the data
\* master has set up, in every reachable state, whatever the card does.
THEOREM SdcTypeCorrect == Spec => [](TypeOK /\ CallInv /\ EngineInv)
<1>1. Init => TypeOK /\ CallInv /\ EngineInv
  BY TypeInit
<1>2. TypeOK /\ CallInv /\ EngineInv /\ [Next]_vars => (TypeOK /\ CallInv /\ EngineInv)'
  <2> SUFFICES ASSUME TypeOK, CallInv, EngineInv, [Next]_vars
               PROVE  (TypeOK /\ CallInv /\ EngineInv)'
    OBVIOUS
  <2>1. issued \in Nat /\ op \in {"none", "request", "isr"}
    BY DEF TypeOK
  <2>2. SdcTypeOK
    BY DEF TypeOK
  <2> QED BY <2>1, <2>2, TypeStep, CallStep, EngineStep
<1> QED
  BY <1>1, <1>2, PTL DEF Spec

-----------------------------------------------------------------------------
(* The card detect interrupt.                                              *)

\* No step but the report to the MMC core changes what it waits for.
LEMMA CardStepKept ==
    ASSUME TypeOK, CardInv, [Next]_vars
    PROVE  CardInv'
<1>1. reg \in Registers
  BY DEF TypeOK, SdcTypeOK
<1>2. CASE IsrReportCard
  BY <1>1, <1>2 DEF IsrReportCard, WriteReg, CardInv, Registers
<1>3. CASE ~IsrReportCard
  <2>1. SdcNext => reg'.card_ie = reg.card_ie
    BY <1>1 DEF SdcNext, Tick, BurstBegin, BurstEnd, BurstResp, CardReady, CardChange,
                Registers
  <2>2. reported' = reported /\ reg'.card_ie = reg.card_ie
    BY <1>1, <1>3, <2>1
       DEF Next, Sdc, RequestEnter, Sending, SetupData, SetupFails, SendCmd, CmdPoll,
           CmdClear, SbcOk, CmdFailed, CmdOk, CmdOkWithData, StopDone, RequestExit,
           IrqDispatch, Isr, IsrEnter, IsrReadCard, IsrNoData, IsrReadData, IsrDisable,
           IsrClear, IsrDropData, IsrTakeData, IsrDone, WriteReg, vars, sdcVars, drvVars,
           Registers
  <2> QED BY <2>2 DEF CardInv
<1> QED
  BY <1>2, <1>3

\* A card put in or taken out is reported to the MMC core, or an interrupt that will
\* report it is raised, however often it moves while the handler runs.
THEOREM CardChangeReported == Spec => []CardChangeIsReported
<1>1. Init => CardInv
  <2> SUFFICES ASSUME Init PROVE CardInv
    OBVIOUS
  <2>1. PICK in \in BOOLEAN : SdcReset(in, IF in THEN {"remove"} ELSE {"insert"})
    BY DEF Init, SdcInit
  <2>2. card.in = in /\ reg.card_ie = IF in THEN {"remove"} ELSE {"insert"}
    BY <2>1 DEF SdcReset
  <2> QED BY <2>2 DEF Init, CardInv
<1>2. TypeOK /\ CardInv /\ [Next]_vars => CardInv'
  BY CardStepKept
<1>3. TypeOK /\ CardInv => CardChangeIsReported
  <2> SUFFICES ASSUME TypeOK, CardInv PROVE CardChangeIsReported
    OBVIOUS
  <2>1. reported \in BOOLEAN /\ card.in \in BOOLEAN
    BY DEF TypeOK, SdcTypeOK, CardStates
  <2>2. reported # card.in => CardInterrupt
    BY <2>1 DEF CardInv, CardInterrupt
  <2> QED BY <2>2 DEF CardChangeIsReported, Interrupt
<1>4. Spec => []TypeOK
  BY SdcTypeCorrect, PTL
<1> QED
  BY <1>1, <1>2, <1>3, <1>4, PTL DEF Spec

-----------------------------------------------------------------------------
(* Whose status a command has.                                             *)

\* A clock edge takes a command on, and mixes it with no other.
LEMMA CmdTick ==
    ASSUME SdcTypeOK, CmdInv, Tick, UNCHANGED <<pc, st>>
    PROVE  CmdInv'
<1>1. PICK answer \in CardAnswers, block \in CardBlocks :
          /\ CmdMaster /\ CmdHost(answer) /\ CardStep(answer, block)
          /\ reg' = [reg EXCEPT !.cmd_start = FALSE, !.cmd_int_rst = FALSE,
                                !.dat_int_rst = FALSE]
  BY DEF Tick
<1>2. ~reg'.cmd_start /\ ~reg'.cmd_int_rst /\ reg'.argument = reg.argument
  BY <1>1 DEF SdcTypeOK, Registers
<1>3. card'.done = IF answer = "none" THEN card.done ELSE reg.argument
  BY <1>1, CardDone
<1>4. /\ cmdh'.state \in {"INIT", "IDLE", "SEND", "WAIT"}
      /\ answer # "none" => cmdh.state = "SEND" /\ ~cmdm.go_idle
      /\ cmdh'.finish # "no" => cmdh'.state = "IDLE" /\ answer # "none"
      /\ cmdm.go_idle => cmdh'.state = "INIT"
      /\ cmdh'.state \in {"SEND", "WAIT"} =>
             cmdh.state \in {"SEND", "WAIT"} \/ cmdm.start_xfr
  BY <1>1, CmdHostMoves DEF CmdInv
<1>5. cmdm \in CmdMasters /\ cmdh.state \in {"INIT", "IDLE", "SEND", "WAIT"}
  BY DEF SdcTypeOK, CmdHosts
<1> USE DEF CmdInv, CmdBlocksInv, CmdQuiet, CmdStep, CmdMasters
<1>6. CASE CmdIdle
  BY <1>2, <1>3, <1>4, <1>5, <1>6 DEF CmdIdle
<1>7. CASE CmdStart
  BY <1>2, <1>3, <1>4, <1>5, <1>7 DEF CmdStart
<1>8. CASE CmdTimedOut
  BY <1>2, <1>3, <1>4, <1>5, <1>8 DEF CmdTimedOut
<1>9. CASE CmdAnswered
  BY <1>2, <1>3, <1>4, <1>5, <1>9 DEF CmdAnswered
<1>10. CASE CmdWaits
  BY <1>2, <1>3, <1>4, <1>5, <1>10 DEF CmdWaits
<1>11. CASE CmdBusyCheck
  BY <1>2, <1>3, <1>4, <1>5, <1>11 DEF CmdBusyCheck
<1> QED
  BY <1>1, <1>6, <1>7, <1>8, <1>9, <1>10, <1>11 DEF CmdMaster

\* What the driver does to it: write the command, read the status, clear it.
LEMMA CmdInvStep ==
    ASSUME TypeOK, CmdInv, [Next]_vars
    PROVE  CmdInv'
<1>1. SdcTypeOK /\ reg \in Registers
  BY DEF TypeOK, SdcTypeOK
<1>2. CASE Sdc
  <2>1. CASE Tick
    BY <1>1, <1>2, <2>1, CmdTick DEF Sdc, drvVars, lockVars
  <2>2. CASE ~Tick
    <3>1. UNCHANGED <<reg, cmdm, cmdh, pc, st>> /\ card'.done = card.done
      BY <1>1, <1>2, <2>2 DEF Sdc, SdcNext, BurstBegin, BurstEnd, BurstResp, CardReady,
         CardChange, drvVars, lockVars, SdcTypeOK, CardStates
    <3> QED BY <3>1 DEF CmdInv, CmdBlocksInv, CmdQuiet
  <2> QED BY <2>1, <2>2
<1> USE DEF Goto, Lock, Unlock, lockVars, reqVars, drvVars, sdcVars, WriteReg, CmdQuiet,
           Registers
<1>3. CASE RequestEnter
  <2>1. pc = "free" /\ pc' \in {"setup", "send"}
    BY <1>3 DEF RequestEnter, SendFirst
  <2> QED BY <1>3, <2>1 DEF RequestEnter, CmdInv, CmdBlocksInv
<1>4. CASE SetupData
  BY <1>1, <1>4 DEF SetupData, CmdInv, CmdBlocksInv
<1>5. CASE SetupFails
  BY <1>5 DEF SetupFails, CmdInv, CmdBlocksInv
<1>6. CASE SendCmd
  BY <1>1, <1>6 DEF SendCmd, CmdInv, CmdBlocksInv
<1>7. CASE CmdPoll
  BY <1>7 DEF CmdPoll, CmdInv, CmdBlocksInv, CmdIntStatus
<1>8. CASE CmdClear
  BY <1>1, <1>8 DEF CmdClear, CmdInv, CmdBlocksInv
<1>9. CASE SbcOk \/ CmdFailed \/ CmdOk \/ CmdOkWithData \/ StopDone
  <2>1. Settled /\ pc = "wait" /\ pc' \in {"setup", "send", "free", "enable", "done"}
    BY <1>9 DEF SbcOk, CmdFailed, CmdOk, CmdOkWithData, StopDone, SendFirst
  <2>2. UNCHANGED <<sdcVars, st>>
    BY <1>9 DEF SbcOk, CmdFailed, CmdOk, CmdOkWithData, StopDone
  <2> QED BY <2>1, <2>2 DEF CmdInv, CmdBlocksInv, Settled
<1>10. CASE RequestExit
  BY <1>1, <1>10 DEF RequestExit, CmdInv, CmdBlocksInv
<1>11. CASE IrqDispatch
  BY <1>11 DEF IrqDispatch, CmdInv, CmdBlocksInv
<1>12. CASE Isr
  <2> DEFINE Before == {"free", "card", "card_ie", "data", "disable", "data_clear",
                        "data_wait", "done"}
  <2>1. pc \in Before /\ pc' \in Before \cup {"send"}
    BY <1>12 DEF Isr, IsrEnter, IsrReadCard, IsrReportCard, IsrNoData, IsrReadData,
       IsrDisable, IsrClear, IsrDropData, IsrTakeData, IsrDone
  <2>2. /\ UNCHANGED <<cmdm, cmdh, card>>
        /\ reg'.cmd_start = reg.cmd_start /\ reg'.cmd_int_rst = reg.cmd_int_rst
        /\ reg'.argument = reg.argument
    BY <1>1, <1>12 DEF Isr, IsrEnter, IsrReadCard, IsrReportCard, IsrNoData, IsrReadData,
       IsrDisable, IsrClear, IsrDropData, IsrTakeData, IsrDone
  <2> QED BY <2>1, <2>2 DEF CmdInv, CmdBlocksInv
<1>13. CASE UNCHANGED vars
  BY <1>13 DEF vars, CmdInv, CmdBlocksInv
<1> QED
  BY <1>2, <1>3, <1>4, <1>5, <1>6, <1>7, <1>8, <1>9, <1>10, <1>11, <1>12, <1>13
     DEF Next, Sending

\* A status with which a command ends is its own: the card has executed the command
\* whose completion sdc_cmd_finish reports, whichever answers were late, lost or
\* damaged before, and whatever the timeouts.
THEOREM CommandResultOwn == Spec => []CommandResultIsOwn
<1>1. Init => CmdInv
  <2> SUFFICES ASSUME Init PROVE CmdInv
    OBVIOUS
  <2>1. PICK in \in BOOLEAN : SdcReset(in, IF in THEN {"remove"} ELSE {"insert"})
    BY DEF Init, SdcInit
  <2> QED BY <2>1 DEF Init, DriverIdle, SdcReset, CmdInv, CmdBlocksInv, CmdQuiet
<1>2. TypeOK /\ CmdInv /\ [Next]_vars => CmdInv'
  BY CmdInvStep
<1>3. CmdInv => CommandResultIsOwn
  BY DEF CmdInv, CmdBlocksInv, CommandResultIsOwn
<1>4. Spec => []TypeOK
  BY SdcTypeCorrect, PTL
<1> QED
  BY <1>1, <1>2, <1>3, <1>4, PTL DEF Spec

-----------------------------------------------------------------------------
(* The command of a data transfer.                                         *)

\* The command host, when the answer to a data command is heard.
LEMMA HeardMoves ==
    ASSUME SdcTypeOK, AnswersHeard, CmdInv, NEW answer \in CardAnswers, CmdHost(answer)
    PROVE  /\ reg.command \in {"read", "write"} /\ cmdh.finish # "bad" =>
                  cmdh'.finish # "bad"
           /\ reg.command = "read" /\ cmdh.state = "SEND" /\ ~cmdm.go_idle =>
                  cmdh'.finish = "good"
           /\ ~cmdm.go_idle /\ cmdh.state = "INIT" => cmdh'.state = "IDLE"
           /\ ~cmdm.go_idle /\ cmdh.state = "IDLE" =>
                  /\ cmdm.start_xfr => cmdh'.state = "SEND"
                  /\ ~cmdm.start_xfr => cmdh'.state = "IDLE"
<1>1. cmdh \in CmdHosts
  BY DEF SdcTypeOK
<1>2. cmdh.counter = 0
  BY <1>1 DEF AnswersHeard, CmdHosts
<1>3. /\ answer \in {"none", "lost", "good", "bad"}
      /\ reg.command \in {"read", "write"} => answer # "bad"
      /\ reg.command = "read" /\ cmdh.state = "SEND" /\ ~cmdm.go_idle => answer = "good"
  BY DEF AnswersHeard, CardAnswers
<1> USE DEF CmdHosts
<1>4. CASE CmdHostInit
  BY <1>1, <1>4 DEF CmdHostInit
<1>5. CASE CmdHostWarmUp
  BY <1>1, <1>2, <1>5 DEF CmdHostWarmUp, AnswersHeard
<1>6. CASE CmdHostIdle
  BY <1>1, <1>6 DEF CmdHostIdle
<1>7. CASE CmdHostSend(answer)
  <2>1. CASE answer \in {"none", "lost"}
    BY <1>1, <1>3, <1>7, <2>1 DEF CmdHostSend
  <2>2. CASE answer \in {"good", "bad"}
    BY <1>1, <1>3, <1>7, <2>2 DEF CmdHostSend
  <2> QED BY <1>3, <2>1, <2>2
<1> QED
  BY <1>4, <1>5, <1>6, <1>7 DEF CmdHost

LEMMA DataCmdTick ==
    ASSUME SdcTypeOK, AnswersHeard, CmdInv, DataCmdInv, Tick, UNCHANGED drvVars
    PROVE  DataCmdInv'
<1>1. PICK answer \in CardAnswers :
          /\ CmdMaster /\ CmdHost(answer)
          /\ reg' = [reg EXCEPT !.cmd_start = FALSE, !.cmd_int_rst = FALSE,
                                !.dat_int_rst = FALSE]
  BY DEF Tick
<1>2. ~reg'.cmd_start /\ ~reg'.cmd_int_rst /\ reg'.command = reg.command
  BY <1>1 DEF SdcTypeOK, Registers
<1>3. UNCHANGED <<pc, role, req, st>>
  BY DEF drvVars, lockVars, reqVars
<1>4. Kind' = Kind
  BY <1>3 DEF Kind
<1>5. /\ cmdh'.finish # "no" => cmdh'.state = "IDLE" /\ answer # "none"
      /\ cmdm.go_idle => cmdh'.state = "INIT"
      /\ cmdh'.state \in {"SEND", "WAIT"} =>
             cmdh.state \in {"SEND", "WAIT"} \/ cmdm.start_xfr
  BY <1>1, CmdHostMoves DEF CmdInv
<1>6. /\ reg.command \in {"read", "write"} /\ cmdh.finish # "bad" => cmdh'.finish # "bad"
      /\ reg.command = "read" /\ cmdh.state = "SEND" /\ ~cmdm.go_idle =>
             cmdh'.finish = "good"
      /\ ~cmdm.go_idle /\ cmdh.state = "INIT" => cmdh'.state = "IDLE"
      /\ ~cmdm.go_idle /\ cmdh.state = "IDLE" =>
             /\ cmdm.start_xfr => cmdh'.state = "SEND"
             /\ ~cmdm.start_xfr => cmdh'.state = "IDLE"
  BY <1>1, HeardMoves
<1>7. cmdm \in CmdMasters /\ cmdh \in CmdHosts /\ cmdh' \in CmdHosts
  BY <1>1, CmdHostTypes DEF SdcTypeOK
<1>8. cmdm.watchdog \in Nat /\ CmdTicks >= 3 /\ CmdTicks \in Nat
      /\ reg.cmd_timeout \in {0, CmdTicks}
  BY <1>7, SdcAssumption DEF CmdMasters, AnswersHeard, SdcTypeOK, Registers
<1>9. CmdExpired => cmdm.watchdog >= 3
  BY <1>8 DEF CmdExpired
<1> USE DEF CmdQuiet, CmdStep, CmdMasters, CmdHosts
<1>10. CASE CmdIdle
  BY <1>2, <1>3, <1>4, <1>5, <1>6, <1>7, <1>10 DEF CmdIdle, CmdInv, CmdBlocksInv, DataCmdInv
<1>11. CASE CmdStart
  BY <1>2, <1>3, <1>4, <1>5, <1>6, <1>7, <1>11 DEF CmdStart, CmdInv, CmdBlocksInv, DataCmdInv
<1>12. CASE CmdTimedOut
  <2>1. reg.command # "read"
    BY <1>8, <1>9, <1>12 DEF CmdTimedOut, DataCmdInv
  <2> QED BY <1>2, <1>3, <1>4, <1>5, <1>6, <1>7, <1>12, <2>1
         DEF CmdTimedOut, CmdInv, CmdBlocksInv, DataCmdInv
<1>13. CASE CmdAnswered
  BY <1>2, <1>3, <1>4, <1>5, <1>6, <1>7, <1>13 DEF CmdAnswered, CmdInv, CmdBlocksInv, DataCmdInv
<1>14. CASE CmdWaits
  <2>1. /\ cmdm.watchdog = 0 => cmdm'.watchdog <= 1
        /\ cmdm.watchdog <= 1 => cmdm'.watchdog <= 2
    BY <1>8, <1>14 DEF CmdWaits
  <2> QED BY <1>2, <1>3, <1>4, <1>5, <1>6, <1>7, <1>14, <2>1
         DEF CmdWaits, CmdInv, CmdBlocksInv, DataCmdInv
<1>15. CASE CmdBusyCheck
  BY <1>2, <1>3, <1>4, <1>5, <1>6, <1>7, <1>15 DEF CmdBusyCheck, CmdInv, CmdBlocksInv, DataCmdInv
<1> QED
  BY <1>1, <1>10, <1>11, <1>12, <1>13, <1>14, <1>15 DEF CmdMaster

LEMMA DataCmdStep ==
    ASSUME TypeOK, AnswersHeard, CallInv, CmdInv, DataCmdInv, [Next]_vars
    PROVE  DataCmdInv'
<1>1. SdcTypeOK /\ reg \in Registers
  BY DEF TypeOK, SdcTypeOK
<1>2. CASE Sdc
  <2>1. CASE Tick
    BY <1>1, <1>2, <2>1, DataCmdTick DEF Sdc
  <2>2. CASE ~Tick
    <3>1. UNCHANGED <<reg, cmdm, cmdh, pc, st, role, req>>
      BY <1>2, <2>2 DEF Sdc, SdcNext, BurstBegin, BurstEnd, BurstResp, CardReady, CardChange,
         drvVars, lockVars, reqVars
    <3> QED BY <3>1 DEF DataCmdInv, Kind
  <2> QED BY <2>1, <2>2
<1> USE DEF Goto, Lock, Unlock, lockVars, reqVars, drvVars, sdcVars, WriteReg, CmdQuiet,
           Registers, Kind
<1>3. CASE RequestEnter
  <2>1. pc = "free" /\ pc' \in {"setup", "send"}
    BY <1>3 DEF RequestEnter, SendFirst
  <2> QED BY <1>3, <2>1 DEF RequestEnter, DataCmdInv, CmdInv, CmdBlocksInv
<1>4. CASE SetupData
  BY <1>1, <1>4 DEF SetupData, DataCmdInv, CmdInv, CmdBlocksInv
<1>5. CASE SetupFails
  BY <1>5 DEF SetupFails, DataCmdInv, CmdInv, CmdBlocksInv
<1>6. CASE SendCmd
  BY <1>1, <1>6 DEF SendCmd, DataCmdInv, CmdInv, CmdBlocksInv
<1>7. CASE CmdPoll
  BY <1>7 DEF CmdPoll, DataCmdInv, CmdInv, CmdBlocksInv, CmdIntStatus
<1>8. CASE CmdClear
  BY <1>1, <1>8 DEF CmdClear, DataCmdInv, CmdInv, CmdBlocksInv
<1>9. CASE SbcOk \/ CmdFailed \/ CmdOk \/ CmdOkWithData \/ StopDone
  <2>1. Settled /\ pc = "wait" /\ pc' \in {"setup", "send", "free", "enable", "done"}
    BY <1>9 DEF SbcOk, CmdFailed, CmdOk, CmdOkWithData, StopDone, SendFirst
  <2>2. UNCHANGED <<sdcVars, st>>
    BY <1>9 DEF SbcOk, CmdFailed, CmdOk, CmdOkWithData, StopDone
  <2> QED BY <2>1, <2>2 DEF DataCmdInv, CmdInv, CmdBlocksInv, Settled
<1>10. CASE RequestExit
  BY <1>1, <1>10 DEF RequestExit, DataCmdInv, CmdInv, CmdBlocksInv
<1>11. CASE IrqDispatch
  BY <1>11 DEF IrqDispatch, DataCmdInv
<1>12. CASE Isr
  <2> DEFINE Before == {"free", "card", "card_ie", "data", "disable", "data_clear",
                        "data_wait", "done"}
  <2>1. pc \in Before /\ pc' \in Before \cup {"send"}
    BY <1>12 DEF Isr, IsrEnter, IsrReadCard, IsrReportCard, IsrNoData, IsrReadData,
       IsrDisable, IsrClear, IsrDropData, IsrTakeData, IsrDone
  <2>2. /\ UNCHANGED <<cmdm, cmdh>>
        /\ reg'.cmd_int_rst = reg.cmd_int_rst /\ reg'.command = reg.command
    BY <1>1, <1>12 DEF Isr, IsrEnter, IsrReadCard, IsrReportCard, IsrNoData, IsrReadData,
       IsrDisable, IsrClear, IsrDropData, IsrTakeData, IsrDone
  <2> QED BY <2>1, <2>2 DEF DataCmdInv, CmdInv, CmdBlocksInv
<1>13. CASE UNCHANGED vars
  BY <1>13 DEF vars, DataCmdInv
<1> QED
  BY <1>2, <1>3, <1>4, <1>5, <1>6, <1>7, <1>8, <1>9, <1>10, <1>11, <1>12, <1>13
     DEF Next, Sending

-----------------------------------------------------------------------------
(* The data engine and the request.                                        *)

LEMMA TransferTick ==
    ASSUME SdcTypeOK, EngineInv, CmdInv, DataCmdInv, TransferInv, Tick, UNCHANGED drvVars,
           role \in {"sbc", "cmd", "stop"}
    PROVE  TransferInv'
<1>1. /\ CmdMaster /\ DataStart /\ DataMaster /\ LoadAddress
      /\ reg' = [reg EXCEPT !.cmd_start = FALSE, !.cmd_int_rst = FALSE,
                            !.dat_int_rst = FALSE]
  BY DEF Tick
<1>2. /\ ~reg'.cmd_start /\ ~reg'.cmd_int_rst /\ ~reg'.dat_int_rst
      /\ reg'.command = reg.command /\ reg'.dma_addr = reg.dma_addr
  BY <1>1 DEF SdcTypeOK, Registers
<1>3. UNCHANGED <<pc, role, req, st, mrq, has_data, mapped>>
  BY DEF drvVars, lockVars, reqVars
\* What starts a transfer.
<1>4. /\ start'.rx => reg.cmd_start /\ reg.command = "read"
      /\ start'.tx => ~reg.cmd_start /\ start.prepare /\ "CC" \in CmdIntStatus
      /\ start'.prepare => \/ reg.cmd_start /\ reg.command = "write"
                           \/ ~reg.cmd_start /\ start.prepare
                                /\ CmdIntStatus \cap {"CC", "EI"} = {}
  BY <1>1, DataStartMoves
\* What the data master does with it.
<1>5. /\ MasterReady /\ ~start.rx /\ ~start.tx => MasterReady'
      /\ datm.state = "IDLE" => datm'.en = "off"
      /\ datm.state = "IDLE" /\ ~start.rx /\ ~start.tx => datm'.state = "IDLE"
      /\ datm.state = "IDLE" => datm'.status = IF reg.dat_int_rst THEN {} ELSE datm.status
      /\ datm.state # "IDLE" /\ datm.status = {} /\ datm'.status # {} => datm'.state = "IDLE"
      /\ datm'.en # "off" => datm.en # "off" \/ datm.state \in {"START_RX", "START_TX"}
  BY <1>1, MasterMoves
<1>6. datm'.en # "off" => bus'.adr[1] = reg.dma_addr
  <2>1. bus' = IF datm.state \in {"START_RX", "START_TX"} /\ datm.en = "off"
               THEN [bus EXCEPT !.adr = <<reg.dma_addr, 1>>] ELSE bus
    BY <1>1 DEF LoadAddress, EngineStarts
  <2>2. datm.state \in {"START_RX", "START_TX"} /\ datm.en = "off" =>
            bus'.adr[1] = reg.dma_addr
    BY <2>1 DEF SdcTypeOK, Buses
  <2> QED BY <1>5, <2>1, <2>2 DEF TransferInv
\* The command, as long as it is answered and not cleared.
<1>7. cmdm.state = "IDLE" /\ ~reg.cmd_start /\ ~reg.cmd_int_rst =>
          cmdm'.state = "IDLE" /\ cmdm'.status = cmdm.status
  BY <1>1 DEF CmdMaster, CmdIdle, CmdStart, CmdTimedOut, CmdAnswered, CmdWaits, CmdBusyCheck,
              CmdStep
<1>8. CmdIntStatus = IF cmdm.state = "IDLE" THEN cmdm.status ELSE {}
  BY DEF CmdIntStatus
<1>9. start.prepare /\ ~reg.cmd_start /\ CmdIntStatus \cap {"CC", "EI"} = {} =>
          pc \in {"poll", "clear"}
  BY <1>8 DEF TransferInv, CmdInv, CmdBlocksInv, DataCmdInv
<1>10. start'.tx => /\ cmdm.state = "IDLE" /\ cmdm.status = {"CC"}
                    /\ pc = "poll" => ~reg.cmd_int_rst
                    /\ pc \in {"clear", "wait"} => st = {"CC"}
  BY <1>4, <1>8 DEF TransferInv, CmdInv, CmdBlocksInv, DataCmdInv
<1>11. reg.cmd_start => pc = "poll" /\ EngineReady
  BY DEF CmdInv, CmdBlocksInv, TransferInv
<1>12. reg.cmd_start /\ reg.command \in {"read", "write"} => role = "cmd" /\ HasData(req)
  BY <1>11 DEF DataCmdInv, Kind, HasData
<1>13. EngineReady /\ ~(reg.cmd_start /\ reg.command \in {"read", "write"}) => EngineReady'
  BY <1>4, <1>5 DEF EngineReady, NoStart
<1>14. start.rx \/ start.tx \/ start.prepare => MasterReady
  BY DEF TransferInv, NoStart
\* The parts of the invariant.
<1>15. ~NoStart' => MasterReady'
  BY <1>4, <1>5, <1>11, <1>14 DEF NoStart, EngineReady, TransferInv
<1>16. (start.tx \/ ~MasterReady)' =>
           /\ pc = "poll" /\ reg.command = "write" =>
                  cmdm'.state = "IDLE" /\ cmdm'.status = {"CC"}
           /\ pc \in {"clear", "wait"} /\ role = "cmd" => st = {"CC"}
  <2>1. CASE start'.tx
    BY <1>4, <1>7, <1>10, <2>1
  <2>2. CASE ~MasterReady' /\ start.rx
    BY <2>2 DEF TransferInv, DataCmdInv
  <2>3. CASE ~MasterReady' /\ ~start.rx
    <3>1. start.tx \/ ~MasterReady
      BY <1>5, <2>3
    <3>2. ~reg.cmd_start
      BY <1>11, <3>1 DEF EngineReady, NoStart
    <3>3. pc = "poll" => ~reg.cmd_int_rst
      BY DEF CmdInv, CmdBlocksInv
    <3> QED BY <1>7, <3>1, <3>2, <3>3 DEF TransferInv
  <2> QED BY <2>1, <2>2, <2>3
<1>17. \/ EngineReady'
       \/ pc \in {"poll", "clear", "wait"} /\ role = "cmd" /\ HasData(req)
       \/ has_data /\ pc \notin SendPcs \cup {"done"}
  BY <1>11, <1>12, <1>13 DEF TransferInv
<1>18. datm'.status # {} => datm'.state = "IDLE"
  BY <1>5, <1>14 DEF TransferInv, MasterReady
<1>19. /\ start'.rx => reg.command = "read" /\ ~start'.tx /\ ~start'.prepare
       /\ start'.tx => ~start'.prepare
  BY <1>4
<1>20. start'.prepare => reg.command = "write" /\ pc \in {"poll", "clear"}
  BY <1>4, <1>9, <1>11 DEF TransferInv
<1>21. pc \in {"disable", "data_clear"} => datm'.status # {}
  BY <1>5 DEF TransferInv
<1>22. pc = "data_wait" => EngineReady'
  <2>1. CASE reg.dat_int_rst
    <3>1. datm.status # {} /\ datm.state = "IDLE" /\ NoStart
      BY <2>1 DEF TransferInv, MasterReady
    <3>2. ~reg.cmd_start
      BY <1>11, <3>1 DEF EngineReady, MasterReady
    <3> QED BY <1>4, <1>5, <2>1, <3>1, <3>2 DEF EngineReady, MasterReady, NoStart
  <2>2. CASE ~reg.dat_int_rst
    BY <1>11, <1>13, <2>2 DEF TransferInv
  <2> QED BY <2>1, <2>2
<1>23. \/ has_data
       \/ pc \in SendPcs \ {"setup"} /\ role = "cmd" /\ HasData(req)
       => HasData(req) /\ mrq \in mapped /\ reg.dma_addr = mrq
  BY DEF TransferInv
<1> QED
  BY <1>2, <1>3, <1>6, <1>15, <1>16, <1>17, <1>18, <1>19, <1>20, <1>21, <1>22, <1>23
     DEF TransferInv, HasData

LEMMA TransferStep ==
    ASSUME TypeOK, AnswersHeard, CallInv, EngineInv, CmdInv, DataCmdInv, TransferInv,
           [Next]_vars
    PROVE  TransferInv'
<1>1. /\ SdcTypeOK /\ reg \in Registers
      /\ role \in {"sbc", "cmd", "stop"} /\ op \in {"none", "request", "isr"}
  BY DEF TypeOK, SdcTypeOK
<1>2. CASE Sdc
  <2>1. CASE Tick
    BY <1>1, <1>2, <2>1, TransferTick DEF Sdc
  <2>2. CASE ~Tick
    <3>1. UNCHANGED <<reg, cmdm, start, datm, pc, st, role, req, mrq, has_data, mapped>>
      BY <1>2, <2>2 DEF Sdc, SdcNext, BurstBegin, BurstEnd, BurstResp, CardReady, CardChange,
         drvVars, lockVars, reqVars
    <3>2. bus'.adr[1] = bus.adr[1]
      <4>1. CASE BurstEnd
        <5>1. bus'.adr = <<bus.adr[1], bus.adr[2] + 1>>
          BY <4>1 DEF BurstEnd
        <5> QED BY <5>1
      <4>2. CASE BurstBegin \/ BurstResp \/ CardReady \/ CardChange
        BY <1>1, <4>2 DEF BurstBegin, BurstResp, CardReady, CardChange, SdcTypeOK, Buses
      <4> QED BY <1>2, <2>2, <4>1, <4>2 DEF Sdc, SdcNext
    <3> QED
      BY <3>1, <3>2 DEF TransferInv, EngineReady, MasterReady, NoStart, HasData
  <2> QED BY <2>1, <2>2
<1>3. pc \notin {"poll", "clear", "wait"} => ~start.prepare
  BY DEF TransferInv, CmdInv, CmdBlocksInv
<1>4. pc = "wait" /\ Settled => ~start.prepare
  BY DEF TransferInv, CmdInv, CmdBlocksInv, Settled
<1>5. op = "none" <=> pc = "free"
  BY DEF CallInv
<1> USE DEF Goto, Lock, Unlock, lockVars, reqVars, drvVars, sdcVars, WriteReg, Registers,
           EngineReady, MasterReady, NoStart, HasData, SendPcs
<1>6. CASE RequestEnter
  <2>1. PICK r \in Requests :
            /\ req' = r
            /\ role' = IF r.sbc THEN "sbc" ELSE "cmd"
            /\ Lock("request", IF r.sbc THEN "send" ELSE SendFirst(r, "cmd"))
    BY <1>6 DEF RequestEnter
  <2>2. /\ pc' \in {"setup", "send"}
        /\ pc' = "send" /\ role' = "cmd" => ~HasData(req')
    <3>1. CASE r.sbc
      BY <2>1, <3>1
    <3>2. CASE ~r.sbc
      BY <2>1, <3>2 DEF SendFirst
    <3> QED BY <3>1, <3>2
  <2>3. EngineReady /\ pc = "free" /\ ~has_data'
    BY <1>6, <2>1 DEF RequestEnter, TransferInv, CallInv
  <2>4. UNCHANGED <<reg, cmdm, start, datm, bus>>
    BY <1>6 DEF RequestEnter
  <2> QED BY <2>2, <2>3, <2>4 DEF TransferInv, CmdInv, CmdBlocksInv
<1>7. CASE SetupData
  <2>1. EngineReady /\ HasData(req) /\ pc = "setup" /\ pc' = "send"
    BY <1>1, <1>5, <1>7 DEF SetupData, TransferInv, CallInv
  <2>2. /\ mrq \in mapped' /\ reg'.dma_addr = mrq
        /\ reg'.cmd_start = reg.cmd_start /\ reg'.dat_int_rst = reg.dat_int_rst
        /\ UNCHANGED <<start, datm, bus, role, req, mrq, has_data>>
    BY <1>1, <1>7 DEF SetupData
  <2> QED BY <2>1, <2>2 DEF TransferInv, CmdInv, CmdBlocksInv
<1>8. CASE SetupFails
  <2>1. EngineReady /\ ~has_data
    BY <1>1, <1>5, <1>8 DEF SetupFails, TransferInv, CallInv
  <2> QED BY <1>8, <2>1 DEF SetupFails, TransferInv, CmdInv, CmdBlocksInv
<1>9. CASE SendCmd
  <2>1. EngineReady /\ pc = "send" /\ pc' = "poll"
    BY <1>9 DEF SendCmd, TransferInv
  <2>2. /\ reg'.dma_addr = reg.dma_addr /\ reg'.dat_int_rst = reg.dat_int_rst
        /\ UNCHANGED <<start, datm, bus, role, req, mrq, has_data, mapped>>
    BY <1>1, <1>9 DEF SendCmd
  <2> QED BY <2>1, <2>2 DEF TransferInv
<1>10. CASE CmdPoll
  <2>1. cmdm.state = "IDLE" /\ st' = cmdm.status /\ st' # {}
    BY <1>10 DEF CmdPoll, CmdIntStatus
  <2>2. start.tx \/ ~MasterReady => role = "cmd" /\ HasData(req)
    BY <1>10 DEF CmdPoll, TransferInv
  <2>3. (start.tx \/ ~MasterReady) /\ role = "cmd" => st' = {"CC"}
    <3>1. reg.command = Kind
      BY <1>10 DEF CmdPoll, DataCmdInv
    <3>2. role = "cmd" /\ HasData(req) => reg.command \in {"read", "write"}
      <4>1. req.kind \in {"plain", "read", "write"}
        BY RequestsAssumption DEF TypeOK, NoReq
      <4> QED BY <3>1, <4>1 DEF Kind
    <3> QED BY <1>10, <2>1, <2>2, <3>2 DEF CmdPoll, TransferInv, DataCmdInv
  <2> QED BY <1>10, <2>1, <2>3 DEF CmdPoll, TransferInv
<1>11. CASE CmdClear
  <2>1. /\ reg'.cmd_int_rst
        /\ reg'.dma_addr = reg.dma_addr /\ reg'.dat_int_rst = reg.dat_int_rst
        /\ reg'.cmd_start = reg.cmd_start /\ reg'.command = reg.command
        /\ UNCHANGED <<start, datm, bus, role, req, mrq, has_data, mapped, st>>
    BY <1>1, <1>11 DEF CmdClear
  <2> QED BY <1>11, <2>1 DEF CmdClear, TransferInv
<1>12. CASE SbcOk
  <2>1. EngineReady /\ ~has_data
    BY <1>1, <1>5, <1>12 DEF SbcOk, TransferInv, CallInv
  <2>2. pc = "wait" /\ pc' \in {"setup", "send"} /\ (pc' = "send" => ~HasData(req'))
    BY <1>12 DEF SbcOk, SendFirst
  <2> QED BY <1>12, <2>1, <2>2 DEF SbcOk, TransferInv
<1>13. CASE CmdFailed
  <2>1. ~has_data
    BY <1>1, <1>5, <1>13 DEF CmdFailed, CallInv
  <2>2. EngineReady
    BY <1>4, <1>13, <2>1 DEF CmdFailed, TransferInv, DataCmdInv
  <2> QED BY <1>13, <2>1, <2>2 DEF CmdFailed, TransferInv, CmdInv, CmdBlocksInv
<1>14. CASE CmdOk
  <2>1. ~has_data /\ EngineReady
    BY <1>1, <1>5, <1>14 DEF CmdOk, CallInv, TransferInv
  <2> QED BY <1>14, <2>1 DEF CmdOk, TransferInv, CmdInv, CmdBlocksInv
<1>15. CASE CmdOkWithData
  BY <1>4, <1>15 DEF CmdOkWithData, TransferInv, CmdInv, CmdBlocksInv, DataCmdInv
<1>16. CASE StopDone
  <2>1. EngineReady
    BY <1>16 DEF StopDone, TransferInv
  <2> QED BY <1>16, <2>1 DEF StopDone, TransferInv, CmdInv, CmdBlocksInv
<1>17. CASE RequestExit
  <2>1. /\ reg'.dma_addr = reg.dma_addr /\ reg'.dat_int_rst = reg.dat_int_rst
        /\ reg'.cmd_start = reg.cmd_start
        /\ reg'.command = reg.command /\ reg'.cmd_int_rst = reg.cmd_int_rst
        /\ UNCHANGED <<start, datm, bus, cmdm, role, req, mrq, has_data, mapped, st>>
    BY <1>1, <1>17 DEF RequestExit
  <2> QED BY <1>3, <1>17, <2>1 DEF RequestExit, TransferInv
<1>18. CASE IrqDispatch
  BY <1>18 DEF IrqDispatch, TransferInv
<1>19. CASE Isr
  <2>1. CASE IsrEnter \/ IsrReadCard
    BY <1>3, <2>1 DEF IsrEnter, IsrReadCard, TransferInv
  <2>2. CASE IsrReportCard
    BY <1>1, <1>3, <2>2 DEF IsrReportCard, TransferInv
  <2>3. CASE IsrNoData
    BY <1>3, <2>3 DEF IsrNoData, TransferInv
  <2>4. CASE IsrReadData
    BY <1>3, <2>4 DEF IsrReadData, DatIntStatus, TransferInv
  <2>5. CASE IsrDisable
    BY <1>1, <1>3, <2>5 DEF IsrDisable, TransferInv
  <2>6. CASE IsrClear
    BY <1>1, <1>3, <2>6 DEF IsrClear, TransferInv
  <2>7. CASE IsrDropData \/ IsrTakeData
    <3>1. EngineReady
      BY <2>7 DEF IsrDropData, IsrTakeData, TransferInv, Settled
    <3> QED BY <2>7, <3>1 DEF IsrDropData, IsrTakeData, TransferInv, CmdInv, CmdBlocksInv
  <2>8. CASE IsrDone
    <3>1. EngineReady
      BY <2>8 DEF IsrDone, TransferInv
    <3> QED BY <2>8, <3>1 DEF IsrDone, TransferInv, CmdInv, CmdBlocksInv
  <2> QED
    BY <1>19, <2>1, <2>2, <2>3, <2>4, <2>5, <2>6, <2>7, <2>8 DEF Isr
<1>20. CASE UNCHANGED vars
  BY <1>20 DEF vars, TransferInv
<1> QED
  BY <1>2, <1>6, <1>7, <1>8, <1>9, <1>10, <1>11, <1>12, <1>13, <1>14, <1>15, <1>16, <1>17,
     <1>18, <1>19, <1>20 DEF Next, Sending

\* If the answer to a data command is heard, the data engine works for no request but
\* the one the driver holds, and only while that one waits for it.
LEMMA TransferCorrect ==
    ASSUME AnswersHeard
    PROVE  Spec => [](TypeOK /\ CallInv /\ EngineInv /\ CmdInv /\ TransferInv)
<1>1. Init => CmdInv /\ DataCmdInv /\ TransferInv
  <2> SUFFICES ASSUME Init PROVE CmdInv /\ DataCmdInv /\ TransferInv
    OBVIOUS
  <2>1. PICK in \in BOOLEAN : SdcReset(in, IF in THEN {"remove"} ELSE {"insert"})
    BY DEF Init, SdcInit
  <2>2. CmdInv
    BY <2>1 DEF Init, DriverIdle, SdcReset, CmdInv, CmdBlocksInv, CmdQuiet
  <2>3. DataCmdInv
    BY <2>1 DEF Init, DriverIdle, SdcReset, DataCmdInv
  <2>4. TransferInv
    BY <2>1 DEF Init, DriverIdle, SdcReset, TransferInv, EngineReady, MasterReady, NoStart,
                SendPcs
  <2> QED BY <2>2, <2>3, <2>4
<1>2. /\ TypeOK /\ CallInv /\ EngineInv /\ CmdInv /\ DataCmdInv /\ TransferInv
      /\ [Next]_vars
      => (CmdInv /\ DataCmdInv /\ TransferInv)'
  BY AnswersHeard, CmdInvStep, DataCmdStep, TransferStep
<1>3. Spec => [](TypeOK /\ CallInv /\ EngineInv)
  BY SdcTypeCorrect
<1> QED
  BY <1>1, <1>2, <1>3, PTL DEF Spec

\* Under the same assumption a request that is over has left command blocks, data master
\* and data host idle, with no start and no status for the next one, after bad blocks,
\* FIFO errors, timeouts and stops that failed.
THEOREM EngineLeftReady ==
    ASSUME AnswersHeard
    PROVE  Spec => []EngineIsReady
<1>1. TypeOK /\ CallInv /\ EngineInv /\ CmdInv /\ TransferInv => EngineIsReady
  <2> SUFFICES ASSUME TypeOK, CallInv, EngineInv, CmdInv, TransferInv, mrq = 0
               PROVE  EngineReady /\ CmdQuiet /\ dath.state = "IDLE"
    BY DEF EngineIsReady
  <2>1. ~has_data /\ pc \notin SendPcs
    BY DEF TypeOK, CallInv, SendPcs
  <2>2. EngineReady
    BY <2>1 DEF TransferInv, SendPcs
  <2>3. CmdQuiet
    BY <2>1 DEF CmdInv, SendPcs
  <2>4. dath.state = "IDLE"
    BY <2>2 DEF EngineReady, MasterReady, EngineInv, TypeOK, SdcTypeOK, DataHosts
  <2> QED BY <2>2, <2>3, <2>4
<1> QED
  BY <1>1, TransferCorrect, PTL

-----------------------------------------------------------------------------
(* The strengthening.                                                      *)

\* Blocks that have gone over the data lines in this transfer, and whether all
\* of them were good.
Moved == IF dath.state # "IDLE" THEN reg.block_count - dath.blkcnt
         ELSE IF datm.state = "XFER" THEN reg.block_count ELSE 0
Sound == datm.state = "XFER" /\ dath.state = "IDLE" => dath.crc_ok

\* The first m blocks of request i.
FirstBlocks(i, m) == [n \in 1 .. m |-> <<i, n>>]

\* Blocks the DMA engine has moved.
DmaMoved == bus.adr[2] - 1

\* The request and the registers its transfer uses.
RegInv ==
    /\ mrq # 0 => mrq = issued
    /\ reg.dma_addr <= issued /\ bus.adr[1] <= issued
    /\ pc \in {"poll", "clear", "wait"} => reg.argument[1] = mrq
    /\ \/ has_data
       \/ pc \in SendPcs \ {"setup"} /\ role = "cmd" /\ HasData(req)
       => reg.block_count = req.blocks

\* The engine works in the direction of the request, begins to read in the tick
\* in which the card obeys, and runs while no command is on its way.
DirectionInv ==
    /\ start.rx \/ datm.state = "START_RX" \/ datm.en = "rx" => req.kind = "read"
    /\ start.prepare \/ start.tx \/ datm.state = "START_TX" \/ datm.en = "tx"
           => req.kind = "write"
    /\ start.rx => cmdm.start_xfr /\ cmdm.state = "EXECUTE" /\ cmdh.state = "IDLE"
    /\ datm.state = "START_RX" /\ datm.en = "off" => cmdh.state = "SEND" /\ ~cmdm.go_idle
    /\ start.tx \/ datm.state = "START_TX" \/ datm.en # "off" =>
           cmdh.state \notin {"SEND", "WAIT"} /\ ~cmdm.start_xfr
    /\ cmdm.go_idle => "EI" \in cmdm.status

\* A burst works at the address of the engine, and finds in the FIFO what it
\* needs as long as the engine is enabled.
BurstInv ==
    /\ bus.burst # NoBurst =>
           /\ bus.burst.adr = bus.adr /\ bus.burst.dir # "none"
           /\ datm.en = "rx" => bus.burst.dir = "write" /\ fifo # <<>>
           /\ datm.en = "tx" => bus.burst.dir = "read" /\ Len(fifo) < FifoLen
    /\ datm.en = "off" => fifo = <<>> /\ datm.d = "none"
    /\ dath.state # "IDLE" => dath.blkcnt \in 1 .. reg.block_count

\* A read: what is in memory and in the FIFO, and what comes next.
ReadInv ==
    /\ datm.state # "IDLE" /\ datm.en = "rx" /\ Sound =>
           /\ DmaMoved >= 0 /\ Len(fifo) = Moved - DmaMoved
           /\ \A k \in 1 .. Len(fifo) : fifo[k] = <<mrq, DmaMoved + k>>
           /\ \A n \in 1 .. DmaMoved : mem[mrq][n] = <<mrq, n>>
    /\ (datm.state = "START_RX" /\ datm.en = "rx") \/ dath.state = "READ" =>
           card.id = mrq /\ card.next = Moved + 1

\* A write: what is in memory, in the FIFO and on the card.
WriteInv ==
    /\ mrq # 0 /\ req.kind = "write" =>
           /\ \A n \in Blocks : mem[mrq][n] = <<mrq, n>>
           /\ bus.burst.dir = "write" => bus.adr[1] # mrq
    /\ datm.state # "IDLE" /\ datm.en = "tx" /\ Sound =>
           /\ DmaMoved >= 0 /\ Len(fifo) = DmaMoved - Moved
           /\ \A k \in 1 .. Len(fifo) :
                  fifo[k] = IF Moved + k \in Blocks THEN <<mrq, Moved + k>> ELSE NoBlock
    /\ \/ reg.command = "write" /\ cmdh.finish = "good"
       \/ start.prepare /\ "CC" \in cmdm.status
       \/ start.tx
       => card.stored = <<>>
    /\ datm.state = "START_TX" \/ (datm.state = "XFER" /\ datm.en = "tx" /\ Sound) =>
           card.stored = FirstBlocks(mrq, Moved)

\* The data of the request are where they belong.
DataMoved ==
    /\ req.kind = "read" => \A n \in 1 .. req.blocks : mem[mrq][n] = <<mrq, n>>
    /\ req.kind = "write" => card.stored = FirstBlocks(mrq, req.blocks)

\* From the end of the transfer to the end of the request.
DoneInv ==
    /\ datm.status = {"CC"} =>
           DataMoved /\ bus.burst.dir # "write" /\ (datm.en = "rx" => fifo = <<>>)
    /\ \/ has_data /\ pc \in {"disable", "data_clear", "data_wait"} /\ st = {"CC"}
       \/ has_data /\ pc \in SendPcs \cup {"done"} /\ ~error
       => DataMoved /\ bus.burst = NoBurst /\ bus.resp = <<>> /\ datm.en = "off"

DataInv == RegInv /\ DirectionInv /\ BurstInv /\ ReadInv /\ WriteInv /\ DoneInv

-----------------------------------------------------------------------------
(* What a clock edge does to the card, the data host and the FIFO.         *)

LEMMA FirstBlocksGrow ==
    ASSUME NEW i \in 0 .. MaxReq, NEW m \in Nat
    PROVE  /\ FirstBlocks(i, 0) = <<>>
           /\ FirstBlocks(i, m) \in Seq(Int \X Int) /\ Len(FirstBlocks(i, m)) = m
           /\ Append(FirstBlocks(i, m), <<i, m + 1>>) = FirstBlocks(i, m + 1)
  BY SdcAssumption DEF FirstBlocks

\* The next block of a card that reads, and what a card that writes has stored.
LEMMA CardTick ==
    ASSUME SdcTypeOK, NEW answer \in CardAnswers, NEW block \in CardBlocks,
           CardStep(answer, block)
    PROVE  /\ answer # "none" /\ reg.command = "read" =>
                  card'.id = reg.argument[1] /\ card'.next = 1
           /\ answer = "none" \/ reg.command \notin {"read", "write"} =>
                  card'.id = card.id
           /\ (answer = "none" \/ reg.command # "read") /\ block = "none" =>
                  card'.next = card.next
           /\ answer = "none" /\ block # "none" /\ card.op = "read" =>
                  card'.next = IF card.next < MaxBlocks THEN card.next + 1 ELSE card.next
           /\ answer # "none" /\ reg.command = "write" => card'.stored = <<>>
           /\ (answer = "none" \/ reg.command # "write")
                /\ (block = "none" \/ card.op # "write") => card'.stored = card.stored
           /\ answer = "none" /\ block = "good" /\ card.op = "write" =>
                  card'.stored = IF Len(card.stored) < MaxBlocks
                                     THEN Append(card.stored, Head(fifo)) ELSE card.stored
<1> DEFINE given_up == IF datm'.d = "abort" THEN [card EXCEPT !.op = "none"] ELSE card
           moved == IF block = "none" THEN given_up ELSE CardMoves(card, block)
<1>1. card \in CardStates
  BY DEF SdcTypeOK
<1>2. given_up \in CardStates
      /\ given_up.id = card.id /\ given_up.next = card.next /\ given_up.stored = card.stored
  BY <1>1 DEF CardStates
<1>3. /\ CardMoves(card, block).id = card.id
      /\ CardMoves(card, block).next =
             IF card.op = "read" /\ card.next < MaxBlocks THEN card.next + 1 ELSE card.next
      /\ CardMoves(card, block).stored =
             IF card.op = "write" /\ block = "good" /\ Len(card.stored) < MaxBlocks
                 THEN Append(card.stored, Head(fifo)) ELSE card.stored
  BY <1>1 DEF CardStates, CardMoves
<1>4. /\ moved.id = card.id
      /\ moved.next = IF block # "none" /\ card.op = "read" /\ card.next < MaxBlocks
                          THEN card.next + 1 ELSE card.next
      /\ moved.stored = IF block = "good" /\ card.op = "write" /\ Len(card.stored) < MaxBlocks
                            THEN Append(card.stored, Head(fifo)) ELSE card.stored
  BY <1>2, <1>3
<1>5. moved \in CardStates
  BY <1>2, MovesTypes
<1>6. card' = IF answer = "none" THEN moved ELSE CardObeys(moved)
  BY DEF CardStep
<1> HIDE DEF moved
<1>7. /\ reg.command = "read" =>
             /\ CardObeys(moved).id = reg.argument[1] /\ CardObeys(moved).next = 1
             /\ CardObeys(moved).stored = moved.stored
      /\ reg.command = "write" =>
             CardObeys(moved).stored = <<>> /\ CardObeys(moved).next = moved.next
      /\ reg.command \notin {"read", "write"} =>
             /\ CardObeys(moved).id = moved.id /\ CardObeys(moved).next = moved.next
             /\ CardObeys(moved).stored = moved.stored
  <2>1. reg.command \in {"plain", "stop", "read", "write"}
    BY DEF SdcTypeOK, Registers, Kinds
  <2>2. CASE reg.command = "plain"
    BY <1>5, <2>2 DEF CardObeys, CardStates
  <2>3. CASE reg.command = "stop"
    BY <1>5, <2>3 DEF CardObeys, CardStates
  <2>4. CASE reg.command = "read"
    BY <1>5, <2>4 DEF CardObeys, CardStates
  <2>5. CASE reg.command = "write"
    BY <1>5, <2>5 DEF CardObeys, CardStates
  <2> QED BY <2>1, <2>2, <2>3, <2>4, <2>5
<1> QED
  BY <1>4, <1>6, <1>7

\* The data host, a block at a time.
LEMMA DataHostTick ==
    ASSUME SdcTypeOK, EngineInv, NEW block \in CardBlocks, DataHost(block)
    PROVE  /\ block \in {"none", "good", "bad"}
           /\ block # "none" =>
                  /\ datm.d = "none" /\ datm.state = "XFER"
                  /\ \/ dath.state = "READ" /\ card.op = "read" /\ datm.en = "rx"
                     \/ dath.state = "WRITE" /\ card.op = "write" /\ datm.en = "tx"
                          /\ fifo # <<>>
           /\ datm.d # "abort" /\ dath.state = "IDLE" =>
                  dath'.blkcnt = reg.block_count /\ dath'.crc_ok = dath.crc_ok
           /\ datm.d # "abort" /\ dath.state # "IDLE" /\ block = "none" => dath' = dath
           /\ block = "good" =>
                  IF dath.blkcnt > 1
                      THEN dath'.state = dath.state /\ dath'.blkcnt = dath.blkcnt - 1
                      ELSE dath'.state = "IDLE"
           /\ block = "bad" => dath'.state = "IDLE" /\ ~dath'.crc_ok
<1>1. dath \in DataHosts
  BY DEF SdcTypeOK
<1>2. block \in {"none", "good", "bad"}
  BY DEF CardBlocks
<1>3. block # "none" =>
          /\ datm.d = "none"
          /\ \/ dath.state = "READ" /\ card.op = "read"
             \/ dath.state = "WRITE" /\ card.op = "write" /\ fifo # <<>>
  BY DEF CardBlocks
<1>4. datm.state \in {"IDLE", "START_RX", "START_TX", "XFER"}
  BY DEF SdcTypeOK, DataMasters
<1>5. block # "none" =>
          /\ datm.state = "XFER"
          /\ dath.state = "READ" => datm.en = "rx"
          /\ dath.state = "WRITE" => datm.en = "tx"
  BY <1>3, <1>4 DEF EngineInv
<1> USE DEF DataHosts
<1>6. CASE DataHostIdle
  BY <1>1, <1>2, <1>3, <1>5, <1>6 DEF DataHostIdle
<1>7. CASE DataHostBlock(block)
  <2>1. CASE block = "none"
    BY <1>1, <1>7, <2>1 DEF DataHostBlock
  <2>2. CASE block = "good" /\ dath.blkcnt > 1
    BY <1>1, <1>3, <1>5, <1>7, <2>2 DEF DataHostBlock
  <2>3. CASE block # "none" /\ ~(block = "good" /\ dath.blkcnt > 1)
    BY <1>1, <1>2, <1>3, <1>5, <1>7, <2>3 DEF DataHostBlock
  <2> QED BY <2>1, <2>2, <2>3
<1>8. CASE DataHostAbort
  BY <1>2, <1>3, <1>8 DEF DataHostAbort
<1> QED
  BY <1>6, <1>7, <1>8 DEF DataHost

\* The data master: how a transfer begins, goes on and ends.
LEMMA DataMasterTick ==
    ASSUME SdcTypeOK, EngineInv, TransferInv, BurstInv, DataMaster
    PROVE  /\ datm.state = "IDLE" =>
                  /\ datm'.en = "off" /\ datm'.d = "none"
                  /\ datm'.state = IF start.tx THEN "START_TX"
                                   ELSE IF start.rx THEN "START_RX" ELSE "IDLE"
           /\ datm.state = "START_RX" =>
                  /\ datm'.en = "rx" /\ datm'.d = "read" /\ datm'.status = {}
                  /\ datm'.state = IF dath.state # "IDLE" THEN "XFER" ELSE "START_RX"
           /\ datm.state = "START_TX" =>
                  /\ datm'.en = "tx" /\ datm'.d \in {"none", "write"} /\ datm'.status = {}
                  /\ datm'.state # "START_TX" =>
                         datm'.state = "XFER" /\ dath.state # "IDLE"
           /\ datm.state = "XFER" =>
                  /\ datm'.en = datm.en /\ datm.en \in {"rx", "tx"}
                  /\ datm'.state \in {"XFER", "IDLE"}
                  /\ datm'.state = "XFER" => ~DatFifoError /\ datm'.d = "none"
                  /\ datm'.status = {"CC"} =>
                         DatComplete /\ dath.crc_ok /\ datm'.state = "IDLE"
                           /\ datm'.d = "none"
           /\ datm.state = "IDLE" => datm'.status = IF reg.dat_int_rst THEN {} ELSE datm.status
           /\ datm.state # "IDLE" => datm.status = {}
           /\ datm.state \in {"IDLE", "START_RX", "START_TX", "XFER"}
<1>1. /\ datm \in DataMasters
      /\ datm.state \in {"IDLE", "START_RX", "START_TX", "XFER"}
      /\ datm.en \in {"off", "rx", "tx"}
  BY DEF SdcTypeOK, DataMasters
<1>2. datm.state # "IDLE" => datm.status = {}
  BY DEF TransferInv
<1>3. datm.state = "XFER" => datm.en \in {"rx", "tx"}
  BY <1>1 DEF EngineInv
<1>4. datm.state = "START_TX" => datm.d \in {"none", "write"}
  BY <1>1 DEF EngineInv, DataMasters
<1> USE DEF DatStep, DataHostBusy
<1>5. CASE DatIdle
  BY <1>2, <1>5 DEF DatIdle
<1>6. CASE DatStartRx
  BY <1>2, <1>6 DEF DatStartRx
<1>7. CASE DatStartTx
  <2>1. CASE 2 * Len(fifo) >= FifoLen
    BY <1>2, <1>7, <2>1 DEF DatStartTx
  <2>2. CASE ~(2 * Len(fifo) >= FifoLen)
    BY <1>2, <1>4, <1>7, <2>2 DEF DatStartTx
  <2> QED BY <2>1, <2>2
<1>8. CASE DatFails
  BY <1>1, <1>2, <1>3, <1>8 DEF DatFails
<1>9. CASE DatTimesOut
  BY <1>1, <1>2, <1>3, <1>9 DEF DatTimesOut
<1>10. CASE DatCompletes
  BY <1>1, <1>2, <1>3, <1>10 DEF DatCompletes
<1>11. CASE DatRuns
  BY <1>1, <1>2, <1>3, <1>11 DEF DatRuns
<1> QED
  BY <1>5, <1>6, <1>7, <1>8, <1>9, <1>10, <1>11 DEF DataMaster

\* What a transfer that goes on moves in a clock edge.
LEMMA MovedTick ==
    ASSUME SdcTypeOK, EngineInv, TransferInv, BurstInv, NEW block \in CardBlocks,
           DataMaster, DataHost(block), reg'.block_count = reg.block_count,
           datm.state # "IDLE", datm'.state # "IDLE", Sound'
    PROVE  /\ Sound /\ block # "bad" /\ Moved \in Nat
           /\ datm.en = "off" => Moved = 0
           /\ block # "none" => datm.state = "XFER" /\ Moved + 1 <= reg.block_count
           /\ block # "none" /\ dath.state = "READ" => Len(fifo) # FifoLen
           /\ Moved' = IF block = "none" THEN Moved ELSE Moved + 1
<1>1. /\ block \in {"none", "good", "bad"}
      /\ block # "none" => datm.d = "none" /\ datm.state = "XFER" /\ dath.state # "IDLE"
      /\ block # "none" /\ dath.state = "READ" => datm.en = "rx"
      /\ datm.d # "abort" /\ dath.state = "IDLE" =>
             dath'.blkcnt = reg.block_count /\ dath'.crc_ok = dath.crc_ok
      /\ datm.d # "abort" /\ dath.state # "IDLE" /\ block = "none" => dath' = dath
      /\ block = "good" =>
             IF dath.blkcnt > 1
                 THEN dath'.state = dath.state /\ dath'.blkcnt = dath.blkcnt - 1
                 ELSE dath'.state = "IDLE"
      /\ block = "bad" => dath'.state = "IDLE" /\ ~dath'.crc_ok
  BY DataHostTick
<1>2. /\ datm.state = "START_RX" =>
             datm'.state = IF dath.state # "IDLE" THEN "XFER" ELSE "START_RX"
      /\ datm.state = "START_TX" /\ datm'.state # "START_TX" =>
             datm'.state = "XFER" /\ dath.state # "IDLE"
      /\ datm.state = "XFER" => datm'.state = "XFER" /\ ~DatFifoError
      /\ datm.state \in {"START_RX", "START_TX", "XFER"}
  BY DataMasterTick
<1>3. /\ datm.d \notin {"none", "abort"} => dath'.state # "IDLE"
      /\ datm.d = "none" /\ dath.state = "IDLE" => dath'.state = "IDLE"
  BY DataHostMoves
<1>4. /\ datm.d # "abort"
      /\ datm.state = "XFER" /\ dath.state = "IDLE" => datm.d = "none"
      /\ datm.state # "XFER" /\ datm.d = "none" => dath.state = "IDLE"
      /\ datm.en = "off" => datm.state # "XFER" /\ datm.d = "none"
  BY <1>2 DEF EngineInv, BurstInv
<1>5. /\ reg.block_count \in Nat
      /\ dath.state # "IDLE" => dath.blkcnt \in 1 .. reg.block_count
  BY SdcAssumption DEF SdcTypeOK, Registers, BurstInv
<1>6. CASE block = "none"
  <2>1. CASE dath.state = "IDLE" /\ datm.d = "none"
    BY <1>1, <1>2, <1>3, <1>4, <1>5, <1>6, <2>1 DEF Moved, Sound
  <2>2. CASE dath.state = "IDLE" /\ datm.d # "none"
    BY <1>1, <1>2, <1>3, <1>4, <1>5, <1>6, <2>2 DEF Moved, Sound
  <2>3. CASE dath.state # "IDLE"
    BY <1>1, <1>2, <1>4, <1>5, <1>6, <2>3 DEF Moved, Sound
  <2> QED BY <2>1, <2>2, <2>3
<1>7. CASE block = "bad"
  BY <1>1, <1>2, <1>7 DEF Sound
<1>8. CASE block = "good"
  <2>1. dath.blkcnt \in 1 .. reg.block_count /\ datm'.state = "XFER" /\ datm.state = "XFER"
    BY <1>1, <1>2, <1>5, <1>8
  <2>2. dath.state = "READ" => Len(fifo) # FifoLen
    BY <1>1, <1>2, <1>8, <2>1 DEF DatFifoError
  <2>3. Moved' = Moved + 1
    <3>1. CASE dath.blkcnt > 1
      BY <1>1, <1>5, <1>8, <2>1, <3>1 DEF Moved
    <3>2. CASE dath.blkcnt = 1
      BY <1>1, <1>5, <1>8, <2>1, <3>2 DEF Moved
    <3> QED BY <2>1, <3>1, <3>2
  <2> QED BY <1>1, <1>4, <1>5, <1>8, <2>1, <2>2, <2>3 DEF Moved, Sound
<1> QED
  BY <1>1, <1>6, <1>7, <1>8

\* The FIFO and the address, while the engine is enabled.
LEMMA FifoTick ==
    ASSUME SdcTypeOK, EngineInv, TransferInv, BurstInv, NEW block \in CardBlocks,
           DataMaster, DataHost(block), DataFifo(block), LoadAddress, BusKeepsUp
    PROVE  /\ datm.en = "off" /\ datm'.en # "off" =>
                  /\ datm.state \in {"START_RX", "START_TX"} /\ bus.burst = NoBurst
                  /\ bus'.adr = <<reg.dma_addr, 1>> /\ bus'.burst = NoBurst
                  /\ fifo = <<>> /\ fifo' = <<>> /\ block = "none"
           /\ datm.en # "off" => bus' = bus
           /\ bus'.burst = bus.burst /\ bus'.resp = bus.resp
           /\ datm.en = "off" => block = "none"
           /\ datm'.en = "off" => fifo' = <<>>
           /\ datm'.en # "off" /\ block = "none" => fifo' = fifo
           /\ datm'.en # "off" /\ block # "none" /\ dath.state = "READ"
                /\ Len(fifo) # FifoLen =>
                  fifo' = Append(fifo, IF block = "good" THEN <<card.id, card.next>> ELSE NoBlock)
           /\ datm'.en # "off" /\ block # "none" /\ dath.state = "READ"
                /\ Len(fifo) = FifoLen => fifo' = fifo
           /\ datm'.en # "off" /\ block # "none" /\ dath.state = "WRITE" =>
                  fifo' = Tail(fifo) /\ fifo # <<>>
<1>1. /\ datm.en \in {"off", "rx", "tx"} /\ datm'.en \in {"off", "rx", "tx"}
      /\ block # "none" =>
             \/ dath.state = "READ" /\ datm.en = "rx"
             \/ dath.state = "WRITE" /\ datm.en = "tx" /\ fifo # <<>>
      /\ dath.state \in {"IDLE", "READ", "WRITE"}
  BY DataHostTick, DataMasterTypes DEF SdcTypeOK, DataMasters, DataHosts
<1>2. datm.en = "off" /\ datm'.en # "off" => datm.state \in {"START_RX", "START_TX"}
  BY DataMasterTick
<1>3. bus' = IF EngineStarts THEN [bus EXCEPT !.adr = <<reg.dma_addr, 1>>] ELSE bus
  BY DEF LoadAddress
<1>4. bus \in Buses
  BY DEF SdcTypeOK
<1>5. /\ bus'.burst = bus.burst /\ bus'.resp = bus.resp
      /\ EngineStarts => bus'.adr = <<reg.dma_addr, 1>>
  BY <1>3, <1>4 DEF Buses
<1>6. datm.en = "off" => fifo = <<>>
  BY DEF BurstInv
<1>7. /\ datm'.en = "off" => fifo' = <<>>
      /\ datm'.en # "off" /\ block = "none" => fifo' = fifo
      /\ datm'.en # "off" /\ block # "none" /\ datm.en = "rx" =>
             fifo' = IF Len(fifo) = FifoLen THEN fifo
                     ELSE Append(fifo, IF block = "good" THEN <<card.id, card.next>>
                                       ELSE NoBlock)
      /\ datm'.en # "off" /\ block # "none" /\ datm.en = "tx" => fifo' = Tail(fifo)
  BY <1>1 DEF DataFifo
<1> QED
  BY <1>1, <1>2, <1>3, <1>5, <1>6, <1>7 DEF EngineStarts, BusKeepsUp

-----------------------------------------------------------------------------
(* A clock edge.                                                           *)

SdcInv == TypeOK /\ CallInv /\ EngineInv /\ CmdInv /\ DataCmdInv /\ TransferInv

DataEdge(answer, block) ==
    /\ answer \in CardAnswers /\ block \in CardBlocks
    /\ CmdMaster /\ CmdHost(answer) /\ DataStart /\ DataMaster /\ DataHost(block)
    /\ DataFifo(block) /\ CardStep(answer, block) /\ LoadAddress /\ BusKeepsUp
    /\ reg' = [reg EXCEPT !.cmd_start = FALSE, !.cmd_int_rst = FALSE, !.dat_int_rst = FALSE]
    /\ UNCHANGED mem /\ UNCHANGED drvVars

\* Registers and driver stay.
LEMMA EdgeFrame ==
    ASSUME SdcInv, NEW answer, NEW block, DataEdge(answer, block)
    PROVE  /\ reg'.command = reg.command /\ reg'.argument = reg.argument
           /\ reg'.dma_addr = reg.dma_addr /\ reg'.block_count = reg.block_count
           /\ UNCHANGED <<op, pc, mrq, req, has_data, error, mapped, issued, role, st, mem>>
           /\ SdcTypeOK /\ EngineInv /\ CmdInv /\ DataCmdInv /\ TransferInv
           /\ role \in {"sbc", "cmd", "stop"}
           /\ req.kind \in {"plain", "read", "write"} /\ req.blocks \in Blocks
           /\ mrq \in 0 .. MaxReq
<1>1. /\ SdcTypeOK /\ reg \in Registers
  BY DEF SdcInv, TypeOK, SdcTypeOK
<1>2. /\ reg'.command = reg.command /\ reg'.argument = reg.argument
      /\ reg'.dma_addr = reg.dma_addr /\ reg'.block_count = reg.block_count
  BY <1>1 DEF DataEdge, Registers
<1>3. req.kind \in {"plain", "read", "write"} /\ req.blocks \in Blocks
  BY RequestsAssumption, SdcAssumption DEF SdcInv, TypeOK, NoReq, Blocks
<1> QED
  BY <1>1, <1>2, <1>3 DEF DataEdge, drvVars, lockVars, reqVars, SdcInv, TypeOK

\* The card obeys no command while the engine runs, but for the read the engine has
\* just begun.
LEMMA AnswerTick ==
    ASSUME SdcInv, AnswersHeard, DataInv, NEW answer, NEW block, DataEdge(answer, block)
    PROVE  /\ start.tx \/ datm.state = "START_TX" \/ datm.en # "off" => answer = "none"
           /\ datm.state = "START_RX" /\ datm.en = "off" =>
                  answer # "none" /\ reg.command = "read" /\ reg.argument[1] = mrq
           /\ answer # "none" => pc = "poll" /\ cmdh.state = "SEND" /\ ~cmdm.go_idle
                                   /\ cmdm.state = "EXECUTE"
<1>1. answer # "none" => cmdh.state = "SEND" /\ ~cmdm.go_idle
  BY DEF DataEdge, CardAnswers
<1>2. cmdh.state = "SEND" /\ ~cmdm.go_idle => pc = "poll" /\ cmdm.state = "EXECUTE"
  BY DEF SdcInv, CmdInv, CmdBlocksInv, CmdQuiet
<1>3. start.tx \/ datm.state = "START_TX" \/ datm.en # "off" => answer = "none"
  BY <1>1 DEF DataInv, DirectionInv
<1>4. ASSUME datm.state = "START_RX", datm.en = "off"
      PROVE  answer # "none" /\ reg.command = "read" /\ reg.argument[1] = mrq
  <2>1. cmdh.state = "SEND" /\ ~cmdm.go_idle /\ req.kind = "read"
    BY <1>4 DEF DataInv, DirectionInv
  <2>2. pc = "poll" /\ role = "cmd"
    BY <1>2, <1>4, <2>1 DEF SdcInv, TransferInv, EngineReady, MasterReady, SendPcs
  <2>3. reg.command = "read"
    BY <2>1, <2>2 DEF SdcInv, DataCmdInv, Kind
  <2>4. answer = "good"
    BY <2>1, <2>3 DEF DataEdge, CardAnswers, AnswersHeard
  <2> QED BY <2>2, <2>3, <2>4 DEF DataInv, RegInv
<1> QED
  BY <1>1, <1>2, <1>3, <1>4

\* Which request the engine works for, while it does.
LEMMA EngineRequest ==
    ASSUME SdcInv, DataInv
    PROVE  /\ ~EngineReady =>
                  /\ mrq \in Reqs /\ mrq = issued /\ mrq \in mapped
                  /\ reg.dma_addr = mrq /\ reg.block_count = req.blocks
           /\ datm.en # "off" => bus.adr[1] = mrq
           /\ reg.block_count \in 0 .. MaxBlocks
<1>1. SdcTypeOK /\ mrq \in 0 .. MaxReq
  BY DEF SdcInv, TypeOK
<1>2. ~EngineReady =>
          /\ HasData(req) /\ mrq \in mapped /\ reg.dma_addr = mrq
          /\ reg.block_count = req.blocks
  BY DEF SdcInv, TransferInv, DataInv, RegInv, SendPcs
<1>3. mrq \in mapped => mrq \in Reqs
  BY DEF SdcInv, TypeOK
<1>4. mrq \in Reqs => mrq # 0
  BY SdcAssumption DEF Reqs
<1>5. datm.en # "off" => bus.adr[1] = reg.dma_addr /\ ~EngineReady
  BY DEF SdcInv, TransferInv, EngineReady, MasterReady
<1>6. reg.block_count \in 0 .. MaxBlocks
  BY <1>1 DEF SdcTypeOK, Registers
<1> QED
  BY <1>2, <1>3, <1>4, <1>5, <1>6 DEF DataInv, RegInv

\* The command master, in the same edge.
LEMMA CmdMasterTick ==
    ASSUME SdcInv, AnswersHeard, DataInv, NEW answer, NEW block, DataEdge(answer, block)
    PROVE  /\ reg.cmd_start =>
                  /\ pc = "poll" /\ EngineReady /\ cmdm'.start_xfr /\ cmdm'.state = "EXECUTE"
                  /\ cmdm'.status = {}
                  /\ cmdh.state \in {"INIT", "IDLE"} /\ ~cmdm.go_idle /\ ~cmdm.start_xfr
           /\ ~reg.cmd_start => (cmdm'.start_xfr => cmdm.start_xfr)
           /\ cmdm'.go_idle => "EI" \in cmdm'.status /\ CmdExpired
           /\ "CC" \in cmdm'.status => "CC" \in cmdm.status \/ cmdh.finish # "no"
<1>1. SdcTypeOK /\ CmdInv /\ TransferInv /\ CmdMaster
  BY DEF SdcInv, TypeOK, DataEdge
<1>2. cmdm \in CmdMasters
  BY <1>1 DEF SdcTypeOK
<1>3. reg.cmd_start => /\ pc = "poll" /\ EngineReady /\ cmdm.state = "IDLE"
                       /\ cmdh.state \in {"INIT", "IDLE"} /\ ~cmdm.go_idle /\ ~cmdm.start_xfr
                       /\ cmdm.status = {}
  BY <1>1 DEF CmdInv, CmdBlocksInv, CmdQuiet, TransferInv
<1>4. /\ cmdm.go_idle => cmdm.state = "IDLE"
      /\ reg.cmd_int_rst => cmdm.state = "IDLE"
  BY <1>1 DEF CmdInv, CmdBlocksInv
<1> USE DEF CmdStep, CmdMasters
<1>5. CASE CmdIdle
  BY <1>2, <1>3, <1>4, <1>5 DEF CmdIdle
<1>6. CASE CmdStart
  BY <1>2, <1>3, <1>4, <1>6 DEF CmdStart
<1>7. CASE CmdTimedOut
  BY <1>2, <1>3, <1>4, <1>7 DEF CmdTimedOut
<1>8. CASE CmdAnswered
  BY <1>2, <1>3, <1>4, <1>8 DEF CmdAnswered
<1>9. CASE CmdWaits
  BY <1>2, <1>3, <1>4, <1>9 DEF CmdWaits
<1>10. CASE CmdBusyCheck
  BY <1>2, <1>3, <1>4, <1>10 DEF CmdBusyCheck
<1> QED
  BY <1>1, <1>5, <1>6, <1>7, <1>8, <1>9, <1>10 DEF CmdMaster

LEMMA DirectionTick ==
    ASSUME SdcInv, AnswersHeard, DataInv, NEW answer, NEW block, DataEdge(answer, block)
    PROVE  DirectionInv'
<1>1. /\ UNCHANGED <<pc, role, req>> /\ role \in {"sbc", "cmd", "stop"}
      /\ SdcTypeOK /\ EngineInv /\ CmdInv /\ DataCmdInv /\ TransferInv
      /\ answer \in CardAnswers /\ CmdHost(answer) /\ DataMaster /\ DataStart
  BY EdgeFrame DEF DataEdge
<1>2. DirectionInv /\ BurstInv
  BY DEF DataInv
<1>3. /\ start'.rx => reg.cmd_start /\ reg.command = "read"
      /\ start'.tx => ~reg.cmd_start /\ start.prepare /\ "CC" \in CmdIntStatus
      /\ start'.prepare => (reg.cmd_start /\ reg.command = "write") \/ start.prepare
  BY <1>1 DEF DataStart
<1>4. /\ datm.state = "IDLE" =>
             /\ datm'.en = "off"
             /\ datm'.state = IF start.tx THEN "START_TX"
                              ELSE IF start.rx THEN "START_RX" ELSE "IDLE"
      /\ datm.state = "START_RX" =>
             datm'.en = "rx" /\ datm'.state \in {"XFER", "START_RX"}
      /\ datm.state = "START_TX" =>
             datm'.en = "tx" /\ datm'.state \in {"XFER", "START_TX"}
      /\ datm.state = "XFER" =>
             datm'.en = datm.en /\ datm.en # "off" /\ datm'.state \in {"XFER", "IDLE"}
      /\ datm.state \in {"IDLE", "START_RX", "START_TX", "XFER"}
  BY <1>1, <1>2, DataMasterTick
<1>5. /\ reg.cmd_start =>
             /\ pc = "poll" /\ EngineReady /\ cmdm'.start_xfr /\ cmdm'.state = "EXECUTE"
             /\ cmdh.state \in {"INIT", "IDLE"} /\ ~cmdm.go_idle /\ ~cmdm.start_xfr
      /\ ~reg.cmd_start => (cmdm'.start_xfr => cmdm.start_xfr)
      /\ cmdm'.go_idle => "EI" \in cmdm'.status /\ CmdExpired
  BY CmdMasterTick
<1>6. /\ cmdm.go_idle => cmdh'.state = "INIT"
      /\ cmdh'.state \in {"SEND", "WAIT"} =>
             cmdh.state \in {"SEND", "WAIT"} \/ cmdm.start_xfr
      /\ cmdh'.finish # "no" => cmdh'.state = "IDLE"
  BY <1>1, CmdHostMoves DEF CmdInv
<1>7. /\ reg.command = "read" /\ cmdh.state = "SEND" /\ ~cmdm.go_idle =>
             cmdh'.finish = "good"
      /\ ~cmdm.go_idle /\ cmdh.state = "INIT" => cmdh'.state = "IDLE"
      /\ ~cmdm.go_idle /\ cmdh.state = "IDLE" =>
             /\ cmdm.start_xfr => cmdh'.state = "SEND"
             /\ ~cmdm.start_xfr => cmdh'.state = "IDLE"
  BY <1>1, HeardMoves
<1>8. reg.cmd_start => (reg.command = "read" => req.kind = "read")
                         /\ (reg.command = "write" => req.kind = "write")
  BY <1>1, <1>5 DEF DataCmdInv, Kind
\* No command is on its way when the data of a write start.
<1>9. start'.tx => /\ ~reg.cmd_start
                   /\ cmdh.state \notin {"SEND", "WAIT"} /\ ~cmdm.start_xfr
  <2> SUFFICES ASSUME start'.tx
               PROVE  ~reg.cmd_start /\ cmdh.state \notin {"SEND", "WAIT"} /\ ~cmdm.start_xfr
    OBVIOUS
  <2>1. /\ ~reg.cmd_start /\ cmdm.state = "IDLE" /\ "CC" \in cmdm.status
        /\ reg.command = "write"
    BY <1>1, <1>3 DEF CmdIntStatus, TransferInv
  <2>2. cmdm.status = {"CC"}
    BY <1>1, <2>1 DEF DataCmdInv
  <2>3. ~cmdm.go_idle
    BY <1>2, <2>2 DEF DirectionInv
  <2> QED BY <1>1, <2>1, <2>3 DEF CmdInv, CmdBlocksInv
\* The answer to a read comes in the tick in which the engine is enabled.
<1>10. datm.state = "START_RX" /\ datm.en = "off" =>
           ~reg.cmd_start /\ ~cmdm.start_xfr /\ cmdh'.state = "IDLE"
  <2> SUFFICES ASSUME datm.state = "START_RX", datm.en = "off"
               PROVE  ~reg.cmd_start /\ ~cmdm.start_xfr /\ cmdh'.state = "IDLE"
    OBVIOUS
  <2>1. cmdh.state = "SEND" /\ ~cmdm.go_idle
    BY <1>2 DEF DirectionInv
  <2>2. reg.command = "read"
    BY AnswerTick
  <2>3. cmdh'.state = "IDLE"
    BY <1>6, <1>7, <2>1, <2>2
  <2>4. ~reg.cmd_start
    BY <1>5 DEF EngineReady, MasterReady
  <2> QED BY <1>1, <2>1, <2>3, <2>4 DEF CmdInv, CmdBlocksInv
<1>11. start.tx \/ datm.state # "IDLE" \/ datm.en # "off" => ~reg.cmd_start
  BY <1>5 DEF EngineReady, MasterReady, NoStart
<1>12. start.rx =>
           /\ cmdm.start_xfr /\ cmdm.state = "EXECUTE" /\ cmdh.state = "IDLE"
           /\ ~cmdm.go_idle /\ ~CmdExpired
  <2> SUFFICES ASSUME start.rx
               PROVE  /\ cmdm.start_xfr /\ cmdm.state = "EXECUTE" /\ cmdh.state = "IDLE"
                      /\ ~cmdm.go_idle /\ ~CmdExpired
    OBVIOUS
  <2>1. /\ cmdm.start_xfr /\ cmdm.state = "EXECUTE" /\ cmdh.state = "IDLE"
        /\ reg.command = "read"
    BY <1>1, <1>2 DEF DirectionInv, TransferInv
  <2>2. cmdm.watchdog = 0 /\ ~cmdm.go_idle
    BY <1>1, <2>1 DEF DataCmdInv, CmdInv, CmdBlocksInv
  <2>3. reg.cmd_timeout \in {0, CmdTicks} /\ CmdTicks \in Nat \ {0}
    BY <1>1, SdcAssumption DEF SdcTypeOK, Registers
  <2> QED BY <2>1, <2>2, <2>3 DEF CmdExpired
\* The parts of the invariant.
<1>13. start'.rx \/ datm'.state = "START_RX" \/ datm'.en = "rx" => req.kind = "read"
  BY <1>2, <1>3, <1>4, <1>8 DEF DirectionInv
<1>14. start'.prepare \/ start'.tx \/ datm'.state = "START_TX" \/ datm'.en = "tx"
           => req.kind = "write"
  BY <1>2, <1>3, <1>4, <1>8 DEF DirectionInv
<1>15. start'.rx => cmdm'.start_xfr /\ cmdm'.state = "EXECUTE" /\ cmdh'.state = "IDLE"
  BY <1>3, <1>5, <1>7
<1>16. datm'.state = "START_RX" /\ datm'.en = "off" =>
           cmdh'.state = "SEND" /\ ~cmdm'.go_idle
  BY <1>4, <1>5, <1>7, <1>12
<1>17. start'.tx \/ datm'.state = "START_TX" \/ datm'.en # "off" =>
           cmdh'.state \notin {"SEND", "WAIT"} /\ ~cmdm'.start_xfr
  <2>1. CASE start'.tx
    BY <1>5, <1>6, <1>9, <2>1
  <2>2. CASE datm'.state = "START_TX" \/ datm'.en # "off"
    <3>1. \/ start.tx \/ datm.state = "START_TX" \/ datm.en # "off"
          \/ datm.state = "START_RX" /\ datm.en = "off"
      BY <1>4, <2>2
    <3>2. CASE start.tx \/ datm.state = "START_TX" \/ datm.en # "off"
      <4>1. cmdh.state \notin {"SEND", "WAIT"} /\ ~cmdm.start_xfr
        BY <1>2, <3>2 DEF DirectionInv
      <4> QED BY <1>5, <1>6, <1>11, <3>2, <4>1
    <3>3. CASE datm.state = "START_RX" /\ datm.en = "off"
      BY <1>5, <1>10, <3>3
    <3> QED BY <3>1, <3>2, <3>3
  <2> QED BY <2>1, <2>2
<1> QED
  BY <1>1, <1>5, <1>13, <1>14, <1>15, <1>16, <1>17 DEF DirectionInv

LEMMA BurstTick ==
    ASSUME SdcInv, DataInv, NEW answer, NEW block, DataEdge(answer, block)
    PROVE  BurstInv'
<1>1. /\ SdcTypeOK /\ EngineInv /\ TransferInv /\ BurstInv
      /\ block \in CardBlocks /\ DataMaster /\ DataHost(block) /\ DataFifo(block)
      /\ LoadAddress /\ BusKeepsUp
      /\ reg'.block_count = reg.block_count /\ req.blocks \in Blocks
  BY EdgeFrame DEF DataEdge, DataInv
<1>2. /\ datm.state = "IDLE" => datm'.en = "off" /\ datm'.d = "none"
      /\ datm.state = "START_RX" => datm'.en = "rx"
      /\ datm.state = "START_TX" => datm'.en = "tx"
      /\ datm.state = "XFER" => datm'.en = datm.en /\ datm.en # "off"
      /\ datm.state \in {"IDLE", "START_RX", "START_TX", "XFER"}
  BY <1>1, DataMasterTick
<1>3. /\ datm.en = "off" => block = "none"
      /\ datm'.en = "off" => fifo' = <<>>
      /\ datm'.en # "off" /\ block = "none" => fifo' = fifo
      /\ datm'.en # "off" /\ block # "none" /\ dath.state = "READ" /\ Len(fifo) # FifoLen =>
             fifo' = Append(fifo, IF block = "good" THEN <<card.id, card.next>> ELSE NoBlock)
      /\ datm'.en # "off" /\ block # "none" /\ dath.state = "READ" /\ Len(fifo) = FifoLen =>
             fifo' = fifo
      /\ datm'.en # "off" /\ block # "none" /\ dath.state = "WRITE" =>
             fifo' = Tail(fifo) /\ fifo # <<>>
      /\ bus'.burst = bus.burst
  BY <1>1, FifoTick
<1>4. /\ block \in {"none", "good", "bad"}
      /\ block # "none" => \/ dath.state = "READ" /\ datm.en = "rx"
                           \/ dath.state = "WRITE" /\ datm.en = "tx"
      /\ datm.d # "abort" /\ dath.state = "IDLE" => dath'.blkcnt = reg.block_count
      /\ datm.d # "abort" /\ dath.state # "IDLE" /\ block = "none" => dath' = dath
      /\ block = "good" =>
             IF dath.blkcnt > 1
                 THEN dath'.state = dath.state /\ dath'.blkcnt = dath.blkcnt - 1
                 ELSE dath'.state = "IDLE"
      /\ block = "bad" => dath'.state = "IDLE"
  BY <1>1, DataHostTick
<1>5. bus.burst # NoBurst => bus' = bus /\ ~EngineStarts
  BY <1>1 DEF LoadAddress, BusKeepsUp
<1>6. ASSUME bus.burst # NoBurst
      PROVE  /\ bus'.burst.adr = bus'.adr /\ bus'.burst.dir # "none"
             /\ datm'.en = "rx" => bus'.burst.dir = "write" /\ fifo' # <<>>
             /\ datm'.en = "tx" => bus'.burst.dir = "read" /\ Len(fifo') < FifoLen
  <2>1. datm'.en \in {"rx", "tx"} => datm.en = datm'.en
    <3>1. datm.en \in {"off", "rx", "tx"}
      BY <1>1 DEF SdcTypeOK, DataMasters
    <3>2. /\ datm.state = "START_RX" => datm.en # "tx"
          /\ datm.state = "START_TX" => datm.en # "rx"
      BY <1>1 DEF EngineInv
    <3> QED BY <1>2, <1>5, <1>6, <3>1, <3>2 DEF EngineStarts
  <2>2. fifo \in Seq(BlockNames) /\ <<card.id, card.next>> \in BlockNames
           /\ NoBlock \in BlockNames
    BY <1>1, SdcAssumption DEF SdcTypeOK, CardStates, BlockNames, NoBlock, Blocks
  <2>3. ASSUME datm'.en = "rx" PROVE bus.burst.dir = "write" /\ fifo' # <<>>
    <3>1. fifo # <<>> /\ bus.burst.dir = "write"
      BY <1>1, <1>6, <2>1, <2>3 DEF BurstInv
    <3>2. fifo' = fifo \/ \E e \in BlockNames : fifo' = Append(fifo, e)
      BY <1>3, <1>4, <2>1, <2>2, <2>3
    <3> QED BY <2>2, <3>1, <3>2
  <2>4. ASSUME datm'.en = "tx" PROVE bus.burst.dir = "read" /\ Len(fifo') < FifoLen
    <3>1. Len(fifo) < FifoLen /\ bus.burst.dir = "read"
      BY <1>1, <1>6, <2>1, <2>4 DEF BurstInv
    <3>2. fifo' = fifo \/ (fifo' = Tail(fifo) /\ fifo # <<>>)
      BY <1>3, <1>4, <2>1, <2>4
    <3>3. Len(fifo') <= Len(fifo)
      BY <2>2, <3>2
    <3>4. Len(fifo') \in Nat /\ Len(fifo) \in Nat /\ FifoLen \in Nat
      BY <2>2, <3>2, SdcAssumption
    <3> QED BY <3>1, <3>3, <3>4
  <2> QED BY <1>1, <1>5, <1>6, <2>3, <2>4 DEF BurstInv
<1>7. datm'.en = "off" => fifo' = <<>> /\ datm'.d = "none"
  BY <1>2, <1>3
<1>8. dath'.state # "IDLE" => dath'.blkcnt \in 1 .. reg.block_count
  <2> SUFFICES ASSUME dath'.state # "IDLE" PROVE dath'.blkcnt \in 1 .. reg.block_count
    OBVIOUS
  <2>1. /\ dath'.state \in {"READ", "WRITE"} /\ datm.d # "abort"
        /\ dath.state = dath'.state \/ datm.d \in {"read", "write"}
    BY <1>1, DataHostMoves
  <2>2. CASE dath.state # "IDLE"
    <3>1. dath.blkcnt \in 1 .. reg.block_count
      BY <1>1, <2>2 DEF BurstInv
    <3>2. dath'.blkcnt = dath.blkcnt \/ (dath.blkcnt > 1 /\ dath'.blkcnt = dath.blkcnt - 1)
      BY <1>4, <2>1, <2>2
    <3>3. reg.block_count \in 0 .. MaxBlocks
      BY EngineRequest
    <3> QED BY <3>1, <3>2, <3>3, SdcAssumption
  <2>3. CASE dath.state = "IDLE"
    <3>1. datm.en # "off"
      BY <1>1, <2>1, <2>3 DEF EngineInv
    <3>2. reg.block_count = req.blocks
      BY <3>1, EngineRequest DEF EngineReady, MasterReady
    <3>3. dath'.blkcnt = reg.block_count
      BY <1>4, <2>1, <2>3
    <3>4. reg.block_count \in 1 .. MaxBlocks
      BY <1>1, <3>2 DEF Blocks
    <3> QED BY <3>3, <3>4, SdcAssumption
  <2> QED BY <2>2, <2>3
<1> QED
  BY <1>1, <1>3, <1>6, <1>7, <1>8 DEF BurstInv

LEMMA ReadTick ==
    ASSUME SdcInv, AnswersHeard, DataInv, NEW answer, NEW block, DataEdge(answer, block)
    PROVE  ReadInv'
<1>1. /\ SdcTypeOK /\ EngineInv /\ TransferInv /\ BurstInv /\ ReadInv
      /\ answer \in CardAnswers /\ block \in CardBlocks /\ DataMaster /\ DataHost(block)
      /\ DataFifo(block) /\ LoadAddress /\ BusKeepsUp /\ CardStep(answer, block)
      /\ reg'.block_count = reg.block_count /\ UNCHANGED <<mem, mrq>>
      /\ mrq \in 0 .. MaxReq
  BY EdgeFrame DEF DataEdge, DataInv
<1>2. /\ datm.state = "IDLE" =>
             datm'.en = "off" /\ datm'.state \in {"START_TX", "START_RX", "IDLE"}
      /\ datm.state = "START_RX" =>
             /\ datm'.en = "rx"
             /\ datm'.state = IF dath.state # "IDLE" THEN "XFER" ELSE "START_RX"
      /\ datm.state = "START_TX" => datm'.en = "tx" /\ datm'.state # "START_RX"
      /\ datm.state = "XFER" =>
             datm'.en = datm.en /\ datm.en # "off" /\ datm'.state # "START_RX"
      /\ datm.state \in {"IDLE", "START_RX", "START_TX", "XFER"}
  BY <1>1, DataMasterTick
<1>3. /\ block \in {"none", "good", "bad"}
      /\ block # "none" =>
             /\ datm.state = "XFER"
             /\ \/ dath.state = "READ" /\ card.op = "read" /\ datm.en = "rx"
                \/ dath.state = "WRITE" /\ datm.en = "tx"
      /\ datm.d # "abort" /\ dath.state = "IDLE" => dath'.blkcnt = reg.block_count
      /\ datm.d # "abort" /\ dath.state # "IDLE" /\ block = "none" => dath' = dath
      /\ block = "good" =>
             IF dath.blkcnt > 1
                 THEN dath'.state = dath.state /\ dath'.blkcnt = dath.blkcnt - 1
                 ELSE dath'.state = "IDLE"
      /\ block = "bad" => dath'.state = "IDLE"
  BY <1>1, DataHostTick
<1>4. /\ datm.en # "off" => answer = "none"
      /\ datm.state = "START_RX" /\ datm.en = "off" =>
             answer # "none" /\ reg.command = "read" /\ reg.argument[1] = mrq
  BY AnswerTick
<1>5. /\ answer # "none" /\ reg.command = "read" =>
             card'.id = reg.argument[1] /\ card'.next = 1
      /\ answer = "none" => card'.id = card.id
      /\ answer = "none" /\ block = "none" => card'.next = card.next
      /\ answer = "none" /\ block # "none" /\ card.op = "read" =>
             card'.next = IF card.next < MaxBlocks THEN card.next + 1 ELSE card.next
  BY <1>1, CardTick
<1>6. reg.block_count \in 0 .. MaxBlocks /\ MaxBlocks \in Nat
  BY EngineRequest, SdcAssumption
<1>7. /\ datm.en = "off" => datm.d = "none"
      /\ datm.state = "START_RX" =>
             datm.d # "abort" /\ (datm.d = "none" => dath.state = "IDLE")
      /\ datm.state = "START_RX" => datm.en # "tx"
      /\ datm.en \in {"off", "rx", "tx"}
  BY <1>1, <1>2 DEF EngineInv, BurstInv, SdcTypeOK, DataMasters
<1>8. /\ datm.d \notin {"none", "abort"} => dath'.state # "IDLE"
      /\ datm.d = "none" /\ dath.state = "IDLE" => dath'.state = "IDLE"
      /\ dath'.state = "READ" => datm.d # "abort" /\ (dath.state = "READ" \/ datm.d = "read")
  BY <1>1, DataHostMoves
\* Memory and FIFO.
<1>9. ASSUME datm'.state # "IDLE", datm'.en = "rx", Sound'
      PROVE  /\ DmaMoved' >= 0 /\ Len(fifo') = Moved' - DmaMoved'
             /\ \A k \in 1 .. Len(fifo') : fifo'[k] = <<mrq, DmaMoved' + k>>
             /\ \A n \in 1 .. DmaMoved' : mem[mrq][n] = <<mrq, n>>
  <2>1. datm.state # "IDLE"
    BY <1>2, <1>9
  <2>2. /\ Sound /\ block # "bad" /\ Moved \in Nat
        /\ datm.en = "off" => Moved = 0
        /\ block # "none" /\ dath.state = "READ" => Len(fifo) # FifoLen
        /\ Moved' = IF block = "none" THEN Moved ELSE Moved + 1
    BY <1>1, <1>9, <2>1, MovedTick
  <2>3. /\ datm.en = "off" =>
               bus'.adr = <<reg.dma_addr, 1>> /\ fifo' = <<>> /\ block = "none"
        /\ datm.en # "off" => bus' = bus
        /\ block = "none" => fifo' = fifo
        /\ block # "none" /\ dath.state = "READ" /\ Len(fifo) # FifoLen =>
               fifo' = Append(fifo, IF block = "good" THEN <<card.id, card.next>> ELSE NoBlock)
    BY <1>1, <1>9, FifoTick
  <2>4. CASE datm.en = "off"
    <3>1. DmaMoved' = 0 /\ Moved' = 0 /\ fifo' = <<>>
      BY <2>2, <2>3, <2>4 DEF DmaMoved
    <3> QED BY <3>1
  <2>5. CASE datm.en # "off"
    <3>1. datm.en = "rx" /\ DmaMoved' = DmaMoved
      BY <1>2, <1>7, <1>9, <2>1, <2>3, <2>5 DEF DmaMoved
    <3>2. /\ DmaMoved >= 0 /\ Len(fifo) = Moved - DmaMoved
          /\ \A k \in 1 .. Len(fifo) : fifo[k] = <<mrq, DmaMoved + k>>
          /\ \A n \in 1 .. DmaMoved : mem[mrq][n] = <<mrq, n>>
      BY <1>1, <2>1, <2>2, <3>1 DEF ReadInv
    <3>3. CASE block = "none"
      BY <2>2, <2>3, <3>1, <3>2, <3>3
    <3>4. CASE block = "good"
      <4>1. dath.state = "READ"
        BY <1>3, <3>1, <3>4
      <4>2. fifo' = Append(fifo, <<mrq, Moved + 1>>)
        BY <1>1, <2>2, <2>3, <3>4, <4>1 DEF ReadInv
      <4>3. fifo \in Seq(BlockNames) /\ bus.adr[2] \in Nat
        BY <1>1 DEF SdcTypeOK, Buses, Addresses
      <4>4. /\ Len(fifo') = Len(fifo) + 1
            /\ \A k \in 1 .. Len(fifo) : fifo'[k] = fifo[k]
            /\ fifo'[Len(fifo) + 1] = <<mrq, Moved + 1>>
        BY <4>2, <4>3
      <4>5. DmaMoved \in Int /\ Moved \in Nat /\ Len(fifo) \in Nat
        BY <2>2, <4>3 DEF DmaMoved
      <4>6. Moved' = Moved + 1
        BY <2>2, <3>4
      <4> HIDE DEF DmaMoved, Moved
      <4>7. Len(fifo') = Moved' - DmaMoved'
        BY <3>1, <3>2, <4>4, <4>5, <4>6
      <4>8. \A k \in 1 .. Len(fifo') : fifo'[k] = <<mrq, DmaMoved + k>>
        <5> SUFFICES ASSUME NEW k \in 1 .. Len(fifo')
                     PROVE  fifo'[k] = <<mrq, DmaMoved + k>>
          OBVIOUS
        <5>1. k \in 1 .. Len(fifo) \/ k = Len(fifo) + 1
          BY <4>4, <4>5
        <5>2. CASE k \in 1 .. Len(fifo)
          BY <3>2, <4>4, <5>2
        <5>3. CASE k = Len(fifo) + 1
          <6>1. DmaMoved + k = Moved + 1
            BY <3>2, <4>5, <5>3
          <6> QED BY <4>4, <5>3, <6>1
        <5> QED BY <5>1, <5>2, <5>3
      <4> QED BY <3>1, <3>2, <4>7, <4>8
    <3> QED BY <1>3, <2>2, <3>3, <3>4
  <2> QED BY <2>4, <2>5
\* The next block.
<1>10. ASSUME (datm'.state = "START_RX" /\ datm'.en = "rx") \/ dath'.state = "READ"
       PROVE  card'.id = mrq /\ card'.next = Moved' + 1
  <2>1. CASE datm.state = "START_RX" /\ datm.en = "off"
    <3>1. dath.state = "IDLE" /\ dath'.state = "IDLE" /\ datm'.state = "START_RX"
      BY <1>2, <1>7, <1>8, <2>1
    <3>2. Moved' = 0
      BY <3>1 DEF Moved
    <3> QED BY <1>4, <1>5, <2>1, <3>2
  <2>2. CASE datm.state = "START_RX" /\ datm.en # "off"
    <3>1. answer = "none" /\ block = "none" /\ datm.d # "abort"
      BY <1>3, <1>4, <1>7, <2>2
    <3>2. card'.id = mrq /\ card'.next = Moved + 1
      BY <1>1, <1>5, <1>7, <2>2, <3>1 DEF ReadInv
    <3>3. Moved' = Moved
      <4>1. CASE dath.state # "IDLE"
        BY <1>1, <1>3, <3>1, <4>1 DEF Moved
      <4>2. CASE dath.state = "IDLE"
        BY <1>1, <1>2, <1>3, <1>6, <2>2, <3>1, <4>2 DEF Moved
      <4> QED BY <4>1, <4>2
    <3> QED BY <3>2, <3>3
  <2>3. CASE datm.state # "START_RX"
    <3>1. dath'.state = "READ" /\ datm.d # "abort" /\ (dath.state = "READ" \/ datm.d = "read")
      BY <1>2, <1>8, <1>10, <2>3
    <3>2. dath.state = "READ" /\ datm.en = "rx"
      <4>1. dath.state \in {"IDLE", "READ", "WRITE"}
        BY <1>1 DEF SdcTypeOK, DataHosts
      <4> QED BY <1>1, <1>2, <2>3, <3>1, <4>1 DEF EngineInv
    <3>3. /\ answer = "none" /\ card.id = mrq /\ card.next = Moved + 1
          /\ dath.blkcnt \in 1 .. reg.block_count
          /\ Moved = reg.block_count - dath.blkcnt
      BY <1>1, <1>4, <3>2 DEF ReadInv, BurstInv, Moved
    <3>4. Moved' = reg.block_count - dath'.blkcnt
      BY <1>1, <3>1 DEF Moved
    <3>5. CASE block = "none"
      BY <1>3, <1>5, <3>1, <3>2, <3>3, <3>4, <3>5
    <3>6. CASE block # "none"
      <4>1. dath.blkcnt > 1 /\ dath'.blkcnt = dath.blkcnt - 1 /\ card.op = "read"
        BY <1>3, <3>1, <3>2, <3>6
      <4>2. card.next < MaxBlocks /\ Moved' = Moved + 1 /\ Moved \in Nat
        BY <1>6, <3>3, <3>4, <4>1
      <4> QED BY <1>5, <3>3, <3>6, <4>1, <4>2
    <3> QED BY <3>5, <3>6
  <2> QED BY <2>1, <2>2, <2>3
<1> QED
  BY <1>1, <1>9, <1>10 DEF ReadInv

LEMMA WriteTick ==
    ASSUME SdcInv, AnswersHeard, DataInv, NEW answer, NEW block, DataEdge(answer, block)
    PROVE  WriteInv'
<1>1. /\ SdcTypeOK /\ EngineInv /\ TransferInv /\ BurstInv /\ WriteInv /\ CmdInv /\ DataCmdInv
      /\ answer \in CardAnswers /\ block \in CardBlocks /\ DataMaster /\ DataHost(block)
      /\ CmdHost(answer) /\ DataStart
      /\ DataFifo(block) /\ LoadAddress /\ BusKeepsUp /\ CardStep(answer, block)
      /\ reg'.block_count = reg.block_count /\ reg'.command = reg.command
      /\ UNCHANGED <<mem, mrq, req>> /\ mrq \in 0 .. MaxReq
  BY EdgeFrame DEF DataEdge, DataInv
<1>2. /\ datm.state = "IDLE" =>
             /\ datm'.en = "off"
             /\ datm'.state = IF start.tx THEN "START_TX"
                              ELSE IF start.rx THEN "START_RX" ELSE "IDLE"
      /\ datm.state = "START_RX" => datm'.en = "rx" /\ datm'.state \in {"XFER", "START_RX"}
      /\ datm.state = "START_TX" => datm'.en = "tx" /\ datm'.state \in {"XFER", "START_TX"}
      /\ datm.state = "XFER" =>
             datm'.en = datm.en /\ datm.en # "off" /\ datm'.state \in {"XFER", "IDLE"}
      /\ datm.state \in {"IDLE", "START_RX", "START_TX", "XFER"}
  BY <1>1, DataMasterTick
<1>3. /\ block \in {"none", "good", "bad"}
      /\ block # "none" =>
             /\ datm.state = "XFER"
             /\ \/ dath.state = "READ" /\ datm.en = "rx"
                \/ dath.state = "WRITE" /\ card.op = "write" /\ datm.en = "tx"
  BY <1>1, DataHostTick
<1>4. /\ start.tx \/ datm.state = "START_TX" \/ datm.en # "off" => answer = "none"
      /\ answer # "none" => cmdm.state = "EXECUTE"
  BY AnswerTick
<1>5. /\ answer # "none" /\ reg.command = "write" => card'.stored = <<>>
      /\ answer = "none" /\ block = "none" => card'.stored = card.stored
      /\ answer = "none" /\ block = "good" /\ card.op = "write" =>
             card'.stored = IF Len(card.stored) < MaxBlocks
                                THEN Append(card.stored, Head(fifo)) ELSE card.stored
  BY <1>1, CardTick
<1>6. reg.block_count \in 0 .. MaxBlocks /\ MaxBlocks \in Nat
  BY EngineRequest, SdcAssumption
<1>7. /\ fifo \in Seq(BlockNames) /\ bus.adr[2] \in Nat
      /\ datm.en \in {"off", "rx", "tx"}
  BY <1>1 DEF SdcTypeOK, Buses, Addresses, DataMasters
\* Memory.
<1>8. bus'.burst.dir = "write" => bus.burst.dir = "write" /\ bus'.adr = bus.adr
  <2>1. bus'.burst = bus.burst
    BY <1>1, FifoTick
  <2>2. bus.burst.dir = "write" => bus' = bus
    BY <1>1 DEF LoadAddress, BusKeepsUp, NoBurst
  <2> QED BY <2>1, <2>2
\* The FIFO.
<1>9. ASSUME datm'.state # "IDLE", datm'.en = "tx", Sound'
      PROVE  /\ DmaMoved' >= 0 /\ Len(fifo') = DmaMoved' - Moved'
             /\ \A k \in 1 .. Len(fifo') :
                    fifo'[k] = IF Moved' + k \in Blocks THEN <<mrq, Moved' + k>> ELSE NoBlock
             /\ card'.stored = FirstBlocks(mrq, Moved')
  <2>1. datm.state # "IDLE"
    BY <1>2, <1>9
  <2>2. /\ Sound /\ block # "bad" /\ Moved \in Nat
        /\ datm.en = "off" => Moved = 0
        /\ block # "none" => Moved + 1 <= reg.block_count
        /\ Moved' = IF block = "none" THEN Moved ELSE Moved + 1
    BY <1>1, <1>9, <2>1, MovedTick
  <2>3. /\ datm.en = "off" =>
               bus'.adr = <<reg.dma_addr, 1>> /\ fifo' = <<>> /\ block = "none"
        /\ datm.en # "off" => bus' = bus
        /\ block = "none" => fifo' = fifo
        /\ block # "none" /\ dath.state = "WRITE" => fifo' = Tail(fifo) /\ fifo # <<>>
    BY <1>1, <1>9, FifoTick
  <2>4. datm.state = "START_TX" \/ (datm.state = "XFER" /\ datm.en = "tx")
    BY <1>2, <1>9, <2>1
  <2>5. answer = "none" /\ card.stored = FirstBlocks(mrq, Moved)
    BY <1>1, <1>4, <2>2, <2>4 DEF WriteInv
  <2>6. CASE datm.en = "off"
    <3>1. DmaMoved' = 0 /\ Moved' = 0 /\ fifo' = <<>> /\ block = "none" /\ Moved = 0
      BY <2>2, <2>3, <2>6 DEF DmaMoved
    <3> QED BY <1>5, <2>5, <3>1
  <2>7. CASE datm.en # "off"
    <3>1. datm.en = "tx" /\ DmaMoved' = DmaMoved
      <4>1. datm.state = "START_TX" => datm.en # "rx"
        BY <1>1 DEF EngineInv
      <4> QED BY <1>7, <2>3, <2>4, <2>7, <4>1 DEF DmaMoved
    <3>2. /\ DmaMoved >= 0 /\ Len(fifo) = DmaMoved - Moved
          /\ \A k \in 1 .. Len(fifo) :
                 fifo[k] = IF Moved + k \in Blocks THEN <<mrq, Moved + k>> ELSE NoBlock
      BY <1>1, <2>1, <2>2, <3>1 DEF WriteInv
    <3>3. CASE block = "none"
      BY <1>5, <2>2, <2>3, <2>5, <3>1, <3>2, <3>3
    <3>4. CASE block = "good"
      <4>1. dath.state = "WRITE" /\ card.op = "write" /\ fifo' = Tail(fifo) /\ fifo # <<>>
        BY <1>3, <2>3, <3>1, <3>4
      <4>2. /\ Len(fifo') = Len(fifo) - 1 /\ Len(fifo) >= 1 /\ Len(fifo) \in Nat
            /\ \A k \in 1 .. Len(fifo') : fifo'[k] = fifo[k + 1]
            /\ Head(fifo) = fifo[1]
        BY <1>7, <4>1
      <4>3. /\ Moved' = Moved + 1 /\ Moved \in Nat /\ DmaMoved \in Int
            /\ Moved + 1 \in Blocks /\ Moved < MaxBlocks
        BY <1>6, <1>7, <2>2, <3>4 DEF Blocks, DmaMoved
      <4> HIDE DEF DmaMoved, Moved
      <4>4. Len(fifo') = DmaMoved' - Moved'
        BY <3>1, <3>2, <4>2, <4>3
      <4>5. \A k \in 1 .. Len(fifo') :
                fifo'[k] = IF Moved' + k \in Blocks THEN <<mrq, Moved' + k>> ELSE NoBlock
        <5> SUFFICES ASSUME NEW k \in 1 .. Len(fifo')
                     PROVE  fifo'[k] = IF Moved' + k \in Blocks
                                           THEN <<mrq, Moved' + k>> ELSE NoBlock
          OBVIOUS
        <5>1. k + 1 \in 1 .. Len(fifo) /\ Moved + (k + 1) = Moved' + k
          BY <4>2, <4>3
        <5>2. fifo[k + 1] = IF Moved + (k + 1) \in Blocks THEN <<mrq, Moved + (k + 1)>>
                            ELSE NoBlock
          BY <3>2, <5>1
        <5> QED BY <4>2, <5>1, <5>2
      <4>6. card'.stored = FirstBlocks(mrq, Moved + 1)
        <5>1. Head(fifo) = <<mrq, Moved + 1>>
          <6>1. 1 \in 1 .. Len(fifo)
            BY <4>2
          <6> QED BY <3>2, <4>2, <4>3, <6>1
        <5>2. Len(card.stored) = Moved
          BY <1>1, <2>5, <4>3, FirstBlocksGrow
        <5>3. card'.stored = Append(FirstBlocks(mrq, Moved), <<mrq, Moved + 1>>)
          BY <1>5, <2>5, <3>4, <4>1, <4>3, <5>1, <5>2
        <5> QED BY <1>1, <4>3, <5>3, FirstBlocksGrow
      <4> QED BY <3>1, <3>2, <4>3, <4>4, <4>5, <4>6
    <3> QED BY <1>3, <2>2, <3>3, <3>4
  <2> QED BY <2>6, <2>7
\* The card, before the data.
<1>10. ASSUME \/ reg.command = "write" /\ cmdh'.finish = "good"
              \/ start'.prepare /\ "CC" \in cmdm'.status
              \/ start'.tx
       PROVE  card'.stored = <<>>
  <2>1. CASE reg.command = "write" /\ cmdh'.finish = "good"
    <3>1. answer # "none"
      BY <1>1, <2>1, CmdHostMoves DEF CmdInv
    <3> QED BY <1>5, <2>1, <3>1
  <2>2. CASE start'.tx \/ (start'.prepare /\ "CC" \in cmdm'.status)
    <3>1. /\ reg.cmd_start => cmdm'.status = {}
          /\ "CC" \in cmdm'.status => "CC" \in cmdm.status \/ cmdh.finish # "no"
      BY CmdMasterTick
    <3>2. start.prepare /\ ("CC" \in cmdm.status \/ cmdh.finish # "no")
      <4>1. /\ start'.tx => start.prepare /\ "CC" \in CmdIntStatus
            /\ start'.prepare => reg.cmd_start \/ start.prepare
        BY <1>1 DEF DataStart
      <4> QED BY <2>2, <3>1, <4>1 DEF CmdIntStatus
    <3>3. reg.command = "write" /\ block = "none"
      BY <1>1, <1>3, <3>2 DEF TransferInv, NoStart, MasterReady
    <3>4. cmdh.finish \in {"no", "good", "bad"}
      BY <1>1 DEF SdcTypeOK, CmdHosts
    <3>5. card.stored = <<>>
      BY <1>1, <3>2, <3>3, <3>4 DEF DataCmdInv, WriteInv
    <3> QED BY <1>5, <3>3, <3>5
  <2> QED BY <1>10, <2>1, <2>2
\* The card, while the engine waits for data.
<1>11. ASSUME datm'.state = "START_TX", datm'.en = "off"
       PROVE  card'.stored = FirstBlocks(mrq, Moved')
  <2>1. datm.state = "IDLE" /\ start.tx
    BY <1>2, <1>11
  <2>2. datm.en = "off"
    BY <1>1, <2>1 DEF TransferInv, NoStart, MasterReady
  <2>3. datm.d = "none" /\ dath.state = "IDLE"
    BY <1>1, <2>1, <2>2 DEF BurstInv, EngineInv
  <2>4. dath'.state = "IDLE"
    BY <1>1, <2>3, DataHostMoves
  <2>5. Moved' = 0
    BY <1>11, <2>4 DEF Moved
  <2>6. card'.stored = <<>>
    BY <1>1, <1>3, <1>4, <1>5, <2>1 DEF WriteInv
  <2> QED BY <1>1, <2>5, <2>6, FirstBlocksGrow
<1>12. datm'.state = "START_TX" \/ (datm'.state = "XFER" /\ datm'.en = "tx" /\ Sound')
           => card'.stored = FirstBlocks(mrq, Moved')
  <2>1. datm'.en = "rx" => datm'.state # "START_TX"
    BY <1>1, <1>2 DEF EngineInv
  <2>2. datm'.en \in {"off", "rx", "tx"}
    BY <1>2, <1>7
  <2>3. datm'.state = "START_TX" => Sound'
    BY DEF Sound
  <2> QED BY <1>9, <1>11, <2>1, <2>2, <2>3
<1> QED
  BY <1>1, <1>8, <1>9, <1>10, <1>12 DEF WriteInv

\* What stays moved.
LEMMA MovedStays ==
    ASSUME SdcInv, NEW answer, NEW block, DataEdge(answer, block), DataMoved,
           block = "none", answer = "none" \/ req.kind # "write" \/ reg.command # "write"
    PROVE  DataMoved'
<1>1. /\ SdcTypeOK /\ answer \in CardAnswers /\ block \in CardBlocks /\ CardStep(answer, block)
      /\ UNCHANGED <<mem, mrq, req>>
  BY EdgeFrame DEF DataEdge
<1>2. req.kind = "write" => card'.stored = card.stored
  BY <1>1, CardTick
<1> QED
  BY <1>1, <1>2 DEF DataMoved, FirstBlocks

LEMMA DoneTick ==
    ASSUME SdcInv, AnswersHeard, DataInv, NEW answer, NEW block, DataEdge(answer, block)
    PROVE  DoneInv'
<1>1. /\ SdcTypeOK /\ EngineInv /\ TransferInv /\ CmdInv /\ DataCmdInv
      /\ BurstInv /\ ReadInv /\ WriteInv /\ DoneInv /\ DirectionInv
      /\ answer \in CardAnswers /\ block \in CardBlocks /\ DataMaster /\ DataHost(block)
      /\ DataFifo(block) /\ LoadAddress /\ BusKeepsUp /\ CardStep(answer, block)
      /\ UNCHANGED <<mem, mrq, req, pc, has_data, error, st>>
      /\ role \in {"sbc", "cmd", "stop"} /\ mrq \in 0 .. MaxReq
  BY EdgeFrame DEF DataEdge, DataInv
<1>2. /\ datm.state = "IDLE" => datm'.en = "off"
      /\ datm.state \in {"START_RX", "START_TX"} => datm'.status = {}
      /\ datm.state = "XFER" =>
             /\ datm'.en = datm.en /\ datm.en \in {"rx", "tx"}
             /\ datm'.status = {"CC"} => DatComplete /\ dath.crc_ok
      /\ datm.state = "IDLE" => datm'.status = IF reg.dat_int_rst THEN {} ELSE datm.status
      /\ datm.state \in {"IDLE", "START_RX", "START_TX", "XFER"}
  BY <1>1, DataMasterTick
<1>3. block # "none" => datm.state = "XFER" /\ dath.state # "IDLE"
  BY <1>1, DataHostTick
<1>4. /\ datm.en # "off" => answer = "none"
      /\ answer # "none" => pc = "poll" /\ cmdm.state = "EXECUTE"
  BY AnswerTick
<1>5. /\ bus'.burst = bus.burst /\ bus'.resp = bus.resp
      /\ datm'.en # "off" /\ block = "none" => fifo' = fifo
  BY <1>1, FifoTick
<1>6. ASSUME datm'.status = {"CC"}
      PROVE  DataMoved' /\ bus'.burst.dir # "write" /\ (datm'.en = "rx" => fifo' = <<>>)
  <2>1. CASE datm.state = "IDLE"
    <3>1. datm.status = {"CC"} /\ datm'.en = "off" /\ block = "none"
      BY <1>2, <1>3, <1>6, <2>1
    <3>2. DataMoved /\ bus.burst.dir # "write"
      BY <1>1, <3>1 DEF DoneInv
    <3>3. ASSUME answer # "none", req.kind = "write", reg.command = "write" PROVE FALSE
      <4>1. pc = "poll" /\ cmdm.state = "EXECUTE"
        BY <1>4, <3>3
      <4>2. ~MasterReady
        BY <3>1 DEF MasterReady
      <4> QED BY <1>1, <3>3, <4>1, <4>2 DEF TransferInv
    <3>4. DataMoved'
      BY <3>1, <3>2, <3>3, MovedStays
    <3> QED BY <1>5, <3>1, <3>2, <3>4
  <2>2. CASE datm.state = "XFER"
    <3>1. /\ dath.state = "IDLE" /\ dath.crc_ok /\ bus.burst = NoBurst
          /\ datm.en = "tx" \/ fifo = <<>>
          /\ block = "none" /\ answer = "none" /\ datm.en \in {"rx", "tx"}
      BY <1>2, <1>3, <1>4, <1>6, <2>2 DEF DatComplete, DataHostBusy
    <3>2. Sound /\ Moved = reg.block_count /\ reg.block_count = req.blocks
      BY <2>2, <3>1, EngineRequest DEF Sound, Moved, EngineReady, MasterReady
    <3>3. DataMoved
      <4>1. CASE datm.en = "rx"
        <5>1. req.kind = "read" /\ Len(fifo) = Moved - DmaMoved /\ Len(fifo) = 0
          BY <1>1, <2>2, <3>1, <3>2, <4>1 DEF ReadInv, DirectionInv
        <5>2. \A n \in 1 .. DmaMoved : mem[mrq][n] = <<mrq, n>>
          BY <1>1, <2>2, <3>1, <3>2, <4>1 DEF ReadInv
        <5>3. DmaMoved \in Int /\ reg.block_count \in Int
          BY <1>1, EngineRequest DEF DmaMoved, SdcTypeOK, Buses, Addresses
        <5>4. DmaMoved = req.blocks
          BY <3>2, <5>1, <5>3
        <5> QED BY <5>1, <5>2, <5>4 DEF DataMoved
      <4>2. CASE datm.en = "tx"
        BY <1>1, <2>2, <3>1, <3>2, <4>2 DEF WriteInv, DirectionInv, DataMoved
      <4> QED BY <3>1, <4>1, <4>2
    <3>4. DataMoved'
      BY <3>1, <3>3, MovedStays
    <3> QED BY <1>2, <1>5, <2>2, <3>1, <3>4 DEF NoBurst
  <2> QED BY <1>2, <1>6, <2>1, <2>2
<1>7. ASSUME \/ has_data /\ pc \in {"disable", "data_clear", "data_wait"} /\ st = {"CC"}
             \/ has_data /\ pc \in SendPcs \cup {"done"} /\ ~error
      PROVE  DataMoved' /\ bus'.burst = NoBurst /\ bus'.resp = <<>> /\ datm'.en = "off"
  <2>1. DataMoved /\ bus.burst = NoBurst /\ bus.resp = <<>> /\ datm.en = "off"
    BY <1>1, <1>7 DEF DoneInv
  <2>2. has_data /\ pc \in SendPcs => role = "stop"
    BY DEF SdcInv, TypeOK, CallInv, SendPcs
  <2>3. datm.state = "IDLE"
    <3>1. CASE pc \in {"disable", "data_clear", "data_wait"}
      BY <1>1, <3>1 DEF TransferInv, EngineReady, MasterReady
    <3>2. CASE pc \in SendPcs \cup {"done"}
      BY <1>1, <1>7, <2>2, <3>2 DEF TransferInv, EngineReady, MasterReady, SendPcs
    <3> QED BY <1>7, <3>1, <3>2
  <2>4. answer # "none" => reg.command # "write"
    <3>1. answer # "none" => pc = "poll" /\ role = "stop"
      BY <1>4, <1>7, <2>2 DEF SendPcs
    <3> QED BY <1>1, <3>1 DEF DataCmdInv, Kind
  <2>5. block = "none" /\ datm'.en = "off"
    BY <1>2, <1>3, <2>3
  <2> QED BY <1>5, <2>1, <2>4, <2>5, MovedStays
<1> QED
  BY <1>1, <1>6, <1>7 DEF DoneInv

\* Every clock edge keeps it all.
LEMMA DataTick ==
    ASSUME SdcInv, AnswersHeard, DataInv, Tick, UNCHANGED drvVars
    PROVE  DataInv'
<1>1. PICK answer, block : DataEdge(answer, block)
  BY DEF Tick, DataEdge
<1>2. DirectionInv' /\ BurstInv' /\ ReadInv' /\ WriteInv' /\ DoneInv'
  BY <1>1, DirectionTick, BurstTick, ReadTick, WriteTick, DoneTick
<1>3. RegInv'
  <2>1. /\ reg'.argument = reg.argument /\ reg'.dma_addr = reg.dma_addr
        /\ reg'.block_count = reg.block_count
        /\ UNCHANGED <<pc, mrq, req, has_data, issued, role>>
    BY <1>1, EdgeFrame
  <2>2. bus'.adr = bus.adr \/ bus'.adr = <<reg.dma_addr, 1>>
    <3>1. bus \in Buses
      BY DEF SdcInv, TypeOK, SdcTypeOK
    <3> QED BY <1>1, <3>1 DEF DataEdge, LoadAddress, Buses
  <2> QED BY <2>1, <2>2 DEF DataInv, RegInv, HasData
<1> QED
  BY <1>2, <1>3 DEF DataInv

-----------------------------------------------------------------------------
(* The bus.                                                                *)

LEMMA DataBurstBegin ==
    ASSUME SdcInv, DataInv, BurstBegin, UNCHANGED drvVars
    PROVE  DataInv'
<1>1. bus \in Buses
  BY DEF SdcInv, TypeOK, SdcTypeOK
<1>2. /\ bus'.adr = bus.adr /\ bus'.burst.adr = bus.adr
      /\ bus'.burst.dir = IF datm.en = "rx" THEN "write" ELSE "read"
      /\ \/ datm.en = "tx" /\ Len(fifo) < FifoLen
         \/ datm.en = "rx" /\ fifo # <<>>
  BY <1>1 DEF BurstBegin, TxStb, RxStb, Buses
<1>3. UNCHANGED <<reg, cmdm, cmdh, start, datm, dath, fifo, mem, card>>
      /\ UNCHANGED <<pc, mrq, req, has_data, error, issued, role, st>>
  BY DEF BurstBegin, drvVars, lockVars, reqVars
<1>4. RegInv' /\ DirectionInv'
  BY <1>2, <1>3 DEF DataInv, RegInv, DirectionInv, HasData
<1>5. BurstInv'
  BY <1>2, <1>3 DEF DataInv, BurstInv
<1>6. ReadInv'
  BY <1>2, <1>3 DEF DataInv, ReadInv, DmaMoved, Moved, Sound
<1>7. WriteInv'
  <2>1. req.kind = "write" => datm.en # "rx"
    BY DEF DataInv, DirectionInv
  <2> QED BY <1>2, <1>3, <2>1 DEF DataInv, WriteInv, DmaMoved, Moved, Sound
<1>8. DoneInv'
  <2>1. DataMoved' <=> DataMoved
    BY <1>3 DEF DataMoved
  <2>2. datm.status = {"CC"} => bus'.burst.dir # "write"
    BY <1>2 DEF DataInv, DoneInv
  <2> QED BY <1>2, <1>3, <2>1, <2>2 DEF DataInv, DoneInv
<1> QED
  BY <1>4, <1>5, <1>6, <1>7, <1>8 DEF DataInv

\* What the end of a burst does to memory, FIFO and address.
LEMMA BurstEndMoves ==
    ASSUME SdcTypeOK, BurstInv, BurstEnd
    PROVE  /\ bus'.adr = <<bus.adr[1], bus.adr[2] + 1>> /\ bus'.burst = NoBurst
           /\ bus.burst # NoBurst /\ bus.burst.adr = bus.adr
           /\ bus.burst.dir \in {"read", "write"}
           /\ bus.burst.dir = "read" => mem' = mem
           /\ bus.burst.dir = "write" =>
                  mem' = IF InBuffer(bus.adr)
                         THEN [mem EXCEPT ![bus.adr[1]][bus.adr[2]] =
                                  IF datm.en = "rx" /\ fifo # <<>> THEN Head(fifo) ELSE NoBlock]
                         ELSE mem
           /\ datm.en = "rx" => bus.burst.dir = "write" /\ fifo # <<>> /\ fifo' = Tail(fifo)
           /\ datm.en = "tx" =>
                  /\ bus.burst.dir = "read"
                  /\ fifo' = Append(fifo, IF InBuffer(bus.adr)
                                              THEN mem[bus.adr[1]][bus.adr[2]] ELSE NoBlock)
           /\ datm.en = "off" => fifo' = fifo
           /\ datm.en \in {"off", "rx", "tx"}
<1>1. /\ bus.burst # NoBurst /\ bus.burst.adr = bus.adr
      /\ datm.en = "rx" => bus.burst.dir = "write" /\ fifo # <<>>
      /\ datm.en = "tx" => bus.burst.dir = "read" /\ Len(fifo) < FifoLen
      /\ bus.burst.dir # "none"
  BY DEF BurstInv, BurstEnd
<1>2. bus.burst.dir \in {"none", "read", "write"} /\ datm.en \in {"off", "rx", "tx"}
  BY DEF SdcTypeOK, Buses, Bursts, DataMasters
<1>3. bus'.adr = <<bus.adr[1], bus.adr[2] + 1>> /\ bus'.burst = NoBurst
  BY DEF BurstEnd
<1>4. /\ bus.burst.dir = "read" => mem' = mem
      /\ bus.burst.dir = "write" =>
             mem' = IF InBuffer(bus.adr)
                    THEN [mem EXCEPT ![bus.adr[1]][bus.adr[2]] =
                             IF datm.en = "rx" /\ fifo # <<>> THEN Head(fifo) ELSE NoBlock]
                    ELSE mem
  BY <1>1 DEF BurstEnd
<1>5. datm.en = "rx" => fifo' = Tail(fifo)
  BY <1>1 DEF BurstEnd
<1>6. datm.en = "tx" => fifo' = Append(fifo, IF InBuffer(bus.adr)
                                                 THEN mem[bus.adr[1]][bus.adr[2]] ELSE NoBlock)
  BY <1>1 DEF BurstEnd
<1>7. datm.en = "off" => fifo' = fifo
  BY <1>1 DEF BurstEnd
<1> QED
  BY <1>1, <1>2, <1>3, <1>4, <1>5, <1>6, <1>7

LEMMA DataBurstEnd ==
    ASSUME SdcInv, DataInv, BurstEnd, UNCHANGED drvVars
    PROVE  DataInv'
<1>1. /\ UNCHANGED <<reg, cmdm, cmdh, start, datm, dath, card>>
      /\ UNCHANGED <<pc, mrq, req, has_data, error, issued, role, st>>
  BY DEF BurstEnd, drvVars, lockVars, reqVars
<1>2. /\ SdcTypeOK /\ RegInv /\ DirectionInv /\ BurstInv /\ ReadInv /\ WriteInv /\ DoneInv
      /\ mrq \in 0 .. MaxReq /\ req.blocks \in Blocks
  BY RequestsAssumption, SdcAssumption DEF SdcInv, TypeOK, DataInv, NoReq, Blocks
<1>3. /\ bus'.adr = <<bus.adr[1], bus.adr[2] + 1>> /\ bus'.burst = NoBurst
      /\ bus.burst # NoBurst /\ bus.burst.dir \in {"read", "write"}
      /\ bus.burst.dir = "read" => mem' = mem
      /\ bus.burst.dir = "write" =>
             mem' = IF InBuffer(bus.adr)
                    THEN [mem EXCEPT ![bus.adr[1]][bus.adr[2]] =
                             IF datm.en = "rx" /\ fifo # <<>> THEN Head(fifo) ELSE NoBlock]
                    ELSE mem
      /\ datm.en = "rx" => bus.burst.dir = "write" /\ fifo # <<>> /\ fifo' = Tail(fifo)
      /\ datm.en = "tx" =>
             /\ bus.burst.dir = "read"
             /\ fifo' = Append(fifo, IF InBuffer(bus.adr)
                                         THEN mem[bus.adr[1]][bus.adr[2]] ELSE NoBlock)
      /\ datm.en = "off" => fifo' = fifo
      /\ datm.en \in {"off", "rx", "tx"}
  BY <1>2, BurstEndMoves
<1>4. /\ bus.adr[1] \in 0 .. MaxReq /\ bus.adr[2] \in Nat
      /\ fifo \in Seq(BlockNames) /\ mem \in [Reqs -> [Blocks -> BlockNames]]
      /\ reg.block_count \in 0 .. MaxBlocks /\ MaxBlocks \in Nat
  BY <1>2, EngineRequest, SdcAssumption DEF SdcTypeOK, Buses, Addresses
<1>5. /\ DmaMoved' = DmaMoved + 1 /\ Moved' = Moved /\ (Sound' <=> Sound)
      /\ DmaMoved \in Int /\ bus.adr[2] = DmaMoved + 1
  BY <1>1, <1>3, <1>4 DEF DmaMoved, Moved, Sound
<1>6. Moved \in 0 .. reg.block_count
  <2>1. dath.state # "IDLE" => dath.blkcnt \in 1 .. reg.block_count
    BY <1>2 DEF BurstInv
  <2> QED BY <1>4, <2>1 DEF Moved
<1>7. datm.en # "off" => mrq \in Reqs /\ bus.adr[1] = mrq
  BY EngineRequest DEF EngineReady, MasterReady
<1>8. RegInv' /\ DirectionInv'
  BY <1>1, <1>2, <1>3 DEF RegInv, DirectionInv, HasData
<1>9. BurstInv'
  BY <1>1, <1>2, <1>3 DEF BurstInv
<1> HIDE DEF DmaMoved, Moved, Sound
<1>10. ReadInv'
  <2>1. ASSUME datm.state # "IDLE", datm.en = "rx", Sound
        PROVE  /\ DmaMoved' >= 0 /\ Len(fifo') = Moved' - DmaMoved'
               /\ \A k \in 1 .. Len(fifo') : fifo'[k] = <<mrq, DmaMoved' + k>>
               /\ \A n \in 1 .. DmaMoved' : mem'[mrq][n] = <<mrq, n>>
    <3>1. /\ DmaMoved >= 0 /\ Len(fifo) = Moved - DmaMoved
          /\ \A k \in 1 .. Len(fifo) : fifo[k] = <<mrq, DmaMoved + k>>
          /\ \A n \in 1 .. DmaMoved : mem[mrq][n] = <<mrq, n>>
      BY <1>2, <2>1 DEF ReadInv
    <3>2. /\ fifo # <<>> /\ fifo' = Tail(fifo) /\ bus.burst.dir = "write"
      BY <1>3, <2>1
    <3>3. /\ Len(fifo) >= 1 /\ Len(fifo') = Len(fifo) - 1 /\ Len(fifo) \in Nat
          /\ \A k \in 1 .. Len(fifo') : fifo'[k] = fifo[k + 1]
          /\ Head(fifo) = fifo[1]
      BY <1>4, <3>2
    <3>4. bus.adr[2] \in Blocks /\ bus.adr[1] = mrq /\ mrq \in Reqs
      BY <1>4, <1>5, <1>6, <1>7, <2>1, <3>1, <3>3 DEF Blocks
    <3>5. Head(fifo) = <<mrq, bus.adr[2]>>
      <4>1. 1 \in 1 .. Len(fifo)
        BY <3>3
      <4> QED BY <1>5, <3>1, <3>3, <4>1
    <3>6. mem' = [mem EXCEPT ![mrq][bus.adr[2]] = <<mrq, bus.adr[2]>>]
      BY <1>3, <2>1, <3>2, <3>4, <3>5 DEF InBuffer
    <3>7. \A n \in Blocks :
              mem'[mrq][n] = IF n = bus.adr[2] THEN <<mrq, n>> ELSE mem[mrq][n]
      BY <1>4, <3>4, <3>6
    <3>8. \A n \in 1 .. DmaMoved' : n \in Blocks /\ (n = bus.adr[2] \/ n \in 1 .. DmaMoved)
      BY <1>4, <1>5, <3>4 DEF Blocks
    <3>9. \A n \in 1 .. DmaMoved' : mem'[mrq][n] = <<mrq, n>>
      BY <3>1, <3>7, <3>8
    <3>10. \A k \in 1 .. Len(fifo') : fifo'[k] = <<mrq, DmaMoved' + k>>
      <4> SUFFICES ASSUME NEW k \in 1 .. Len(fifo') PROVE fifo'[k] = <<mrq, DmaMoved' + k>>
        OBVIOUS
      <4>1. k + 1 \in 1 .. Len(fifo) /\ DmaMoved + (k + 1) = DmaMoved' + k
        BY <1>5, <3>3
      <4> QED BY <3>1, <3>3, <4>1
    <3>11. DmaMoved' >= 0 /\ Len(fifo') = Moved' - DmaMoved'
      BY <1>5, <1>6, <1>4, <3>1, <3>3
    <3> QED BY <3>9, <3>10, <3>11
  <2>2. (datm.state = "START_RX" /\ datm.en = "rx") \/ dath.state = "READ" =>
            card.id = mrq /\ card.next = Moved' + 1
    BY <1>2, <1>5 DEF ReadInv
  <2> QED BY <1>1, <1>5, <2>1, <2>2 DEF ReadInv
<1>11. ASSUME mrq # 0, req.kind = "write"
       PROVE  \A n \in Blocks : mem'[mrq][n] = <<mrq, n>>
  <2>1. \A n \in Blocks : mem[mrq][n] = <<mrq, n>>
    BY <1>2, <1>11 DEF WriteInv
  <2>2. CASE bus.burst.dir = "read"
    BY <1>3, <2>1, <2>2
  <2>3. CASE bus.burst.dir = "write"
    <3>1. bus.adr[1] # mrq
      BY <1>2, <1>11, <2>3 DEF WriteInv
    <3>2. mem'[mrq] = mem[mrq]
      <4>1. mrq \in Reqs
        BY <1>2, <1>11, SdcAssumption DEF Reqs
      <4> QED BY <1>3, <1>4, <2>3, <3>1, <4>1
    <3> QED BY <2>1, <3>2
  <2> QED BY <1>3, <2>2, <2>3
<1>12. WriteInv'
  <2>1. ASSUME datm.state # "IDLE", datm.en = "tx", Sound
        PROVE  /\ DmaMoved' >= 0 /\ Len(fifo') = DmaMoved' - Moved'
               /\ \A k \in 1 .. Len(fifo') :
                      fifo'[k] = IF Moved' + k \in Blocks THEN <<mrq, Moved' + k>> ELSE NoBlock
    <3>1. /\ DmaMoved >= 0 /\ Len(fifo) = DmaMoved - Moved
          /\ \A k \in 1 .. Len(fifo) :
                 fifo[k] = IF Moved + k \in Blocks THEN <<mrq, Moved + k>> ELSE NoBlock
      BY <1>2, <2>1 DEF WriteInv
    <3>2. req.kind = "write" /\ mrq \in Reqs /\ mrq # 0 /\ bus.adr[1] = mrq
      BY <1>2, <1>7, <2>1 DEF DirectionInv, Reqs
    <3> DEFINE word == IF bus.adr[2] \in Blocks THEN <<mrq, bus.adr[2]>> ELSE NoBlock
    <3>3. fifo' = Append(fifo, word)
      BY <1>2, <1>3, <2>1, <3>2 DEF InBuffer, WriteInv
    <3>4. word \in BlockNames
      BY <1>2, SdcAssumption DEF BlockNames, NoBlock, Blocks
    <3> HIDE DEF word
    <3>5. /\ Len(fifo') = Len(fifo) + 1 /\ Len(fifo) \in Nat
          /\ \A k \in 1 .. Len(fifo) : fifo'[k] = fifo[k]
          /\ fifo'[Len(fifo) + 1] = word
      BY <1>4, <3>3, <3>4
    <3>6. \A k \in 1 .. Len(fifo') :
              fifo'[k] = IF Moved' + k \in Blocks THEN <<mrq, Moved' + k>> ELSE NoBlock
      <4> SUFFICES ASSUME NEW k \in 1 .. Len(fifo')
                   PROVE  fifo'[k] = IF Moved' + k \in Blocks THEN <<mrq, Moved' + k>>
                                     ELSE NoBlock
        OBVIOUS
      <4>1. k \in 1 .. Len(fifo) \/ k = Len(fifo) + 1
        BY <3>5
      <4>2. CASE k \in 1 .. Len(fifo)
        BY <1>5, <3>1, <3>5, <4>2
      <4>3. CASE k = Len(fifo) + 1
        <5>1. Moved' + k = bus.adr[2]
          BY <1>4, <1>5, <1>6, <3>1, <4>3
        <5> QED BY <3>5, <4>3, <5>1 DEF word
      <4> QED BY <4>1, <4>2, <4>3
    <3>7. DmaMoved' >= 0 /\ Len(fifo') = DmaMoved' - Moved'
      BY <1>4, <1>5, <1>6, <3>1, <3>5
    <3> QED BY <3>6, <3>7
  <2>2. datm.state = "START_TX" \/ (datm.state = "XFER" /\ datm.en = "tx" /\ Sound) =>
            card.stored = FirstBlocks(mrq, Moved')
    BY <1>2, <1>5 DEF WriteInv
  <2>3. bus'.burst.dir # "write"
    BY <1>3 DEF NoBurst
  <2>4. \/ reg.command = "write" /\ cmdh.finish = "good"
        \/ start.prepare /\ "CC" \in cmdm.status
        \/ start.tx
        => card.stored = <<>>
    BY <1>2 DEF WriteInv
  <2> QED BY <1>1, <1>5, <1>11, <2>1, <2>2, <2>3, <2>4 DEF WriteInv, FirstBlocks
<1>13. DoneInv'
  <2>1. ASSUME datm.status = {"CC"}
        PROVE  DataMoved' /\ bus'.burst.dir # "write" /\ (datm.en = "rx" => fifo' = <<>>)
    <3>1. DataMoved /\ mem' = mem /\ datm.en # "rx"
      BY <1>2, <1>3, <2>1 DEF DoneInv
    <3>2. DataMoved'
      BY <1>1, <3>1 DEF DataMoved, FirstBlocks
    <3> QED BY <1>3, <3>1, <3>2 DEF NoBurst
  <2>2. ~ \/ has_data /\ pc \in {"disable", "data_clear", "data_wait"} /\ st = {"CC"}
          \/ has_data /\ pc \in SendPcs \cup {"done"} /\ ~error
    BY <1>2, <1>3 DEF DoneInv
  <2> QED BY <1>1, <2>1, <2>2 DEF DoneInv
<1> QED
  BY <1>8, <1>9, <1>10, <1>12, <1>13 DEF DataInv

LEMMA DataBusAndCard ==
    ASSUME SdcInv, DataInv, BurstResp \/ CardReady \/ CardChange, UNCHANGED drvVars
    PROVE  DataInv'
<1>1. bus \in Buses /\ card \in CardStates
  BY DEF SdcInv, TypeOK, SdcTypeOK
<1>2. /\ bus'.adr = bus.adr /\ bus'.burst = bus.burst
      /\ card'.id = card.id /\ card'.next = card.next /\ card'.stored = card.stored
      /\ bus.resp = <<>> => bus'.resp = <<>>
  BY <1>1 DEF BurstResp, CardReady, CardChange, Buses, CardStates
<1>3. UNCHANGED <<reg, cmdm, cmdh, start, datm, dath, fifo, mem>>
      /\ UNCHANGED <<pc, mrq, req, has_data, error, issued, role, st>>
  BY DEF BurstResp, CardReady, CardChange, drvVars, lockVars, reqVars
<1>4. RegInv' /\ DirectionInv' /\ BurstInv'
  BY <1>2, <1>3 DEF DataInv, RegInv, DirectionInv, BurstInv, HasData
<1>5. ReadInv' /\ WriteInv'
  BY <1>2, <1>3 DEF DataInv, ReadInv, WriteInv, DmaMoved, Moved, Sound
<1>6. DoneInv'
  BY <1>2, <1>3 DEF DataInv, DoneInv, DataMoved
<1> QED
  BY <1>4, <1>5, <1>6 DEF DataInv

-----------------------------------------------------------------------------
(* The driver.                                                             *)

\* What a step of the driver leaves alone unless it begins or ends a request.
TransferFrame ==
    /\ UNCHANGED <<cmdm, cmdh, start, datm, dath, fifo, bus, mem, card>>
    /\ UNCHANGED <<mrq, req, issued>>
    /\ reg'.dma_addr = reg.dma_addr /\ reg'.block_count = reg.block_count
    /\ reg'.command = reg.command \/ cmdh.finish = "no"

LEMMA FrameKeepsData ==
    ASSUME DataInv, TransferFrame
    PROVE  /\ DirectionInv' /\ BurstInv' /\ ReadInv' /\ WriteInv'
           /\ DataMoved' <=> DataMoved
           /\ datm'.status = {"CC"} =>
                  DataMoved' /\ bus'.burst.dir # "write" /\ (datm'.en = "rx" => fifo' = <<>>)
<1>1. /\ UNCHANGED <<cmdm, cmdh, start, datm, dath, fifo, bus, mem, card>>
      /\ UNCHANGED <<mrq, req, issued>>
      /\ reg'.block_count = reg.block_count
      /\ reg'.command = reg.command \/ cmdh.finish = "no"
  BY DEF TransferFrame
<1>2. DirectionInv' /\ BurstInv'
  BY <1>1 DEF DataInv, DirectionInv, BurstInv
<1>3. ReadInv' /\ WriteInv'
  BY <1>1 DEF DataInv, ReadInv, WriteInv, DmaMoved, Moved, Sound
<1>4. DataMoved' <=> DataMoved
  BY <1>1 DEF DataMoved
<1> QED
  BY <1>1, <1>2, <1>3, <1>4 DEF DataInv, DoneInv

\* A request over which nothing is under way can end.
LEMMA DataEnds ==
    ASSUME SdcInv, DataInv, EngineReady, mrq' = 0, ~has_data', pc' = "free",
           UNCHANGED <<sdcVars, req, issued>>
    PROVE  DataInv'
<1>1. /\ datm.state = "IDLE" /\ datm.en = "off" /\ datm.status = {}
      /\ ~start.rx /\ ~start.tx /\ ~start.prepare /\ dath.state = "IDLE"
  BY DEF EngineReady, MasterReady, NoStart, DataInv, BurstInv, SdcInv, EngineInv
<1>2. UNCHANGED <<reg, cmdm, cmdh, start, datm, dath, fifo, bus, mem, card>>
  BY DEF sdcVars
<1>3. RegInv' /\ DirectionInv' /\ BurstInv'
  BY <1>2 DEF DataInv, RegInv, DirectionInv, BurstInv, SendPcs
<1>4. ReadInv' /\ WriteInv'
  BY <1>1, <1>2 DEF DataInv, ReadInv, WriteInv
<1>5. DoneInv'
  BY <1>1, <1>2 DEF DoneInv
<1> QED
  BY <1>3, <1>4, <1>5 DEF DataInv

LEMMA DataRequestEnter ==
    ASSUME SdcInv, DataInv, RequestEnter
    PROVE  DataInv'
<1>1. PICK r \in Requests :
          /\ req' = r
          /\ role' = IF r.sbc THEN "sbc" ELSE "cmd"
          /\ Lock("request", IF r.sbc THEN "send" ELSE SendFirst(r, "cmd"))
          /\ mem' = IF r.kind = "write"
                    THEN [mem EXCEPT ![issued + 1] = [n \in Blocks |-> <<issued + 1, n>>]]
                    ELSE mem
  BY DEF RequestEnter
<1>2. /\ mrq = 0 /\ issued < MaxReq /\ issued' = issued + 1 /\ mrq' = issued + 1
      /\ ~has_data'
      /\ UNCHANGED <<reg, cmdm, cmdh, start, datm, dath, fifo, bus, card, st>>
  BY DEF RequestEnter
<1>3. /\ pc' \in {"setup", "send"}
      /\ pc' = "send" /\ role' = "cmd" => ~HasData(req')
  <2>1. CASE r.sbc
    BY <1>1, <2>1 DEF Lock
  <2>2. CASE ~r.sbc
    BY <1>1, <2>2 DEF Lock, SendFirst
  <2> QED BY <2>1, <2>2
<1>4. /\ issued \in Nat /\ issued + 1 \in Reqs /\ bus.adr[1] \in 0 .. MaxReq
      /\ reg.dma_addr \in 0 .. MaxReq /\ mem \in [Reqs -> [Blocks -> BlockNames]]
  BY <1>2, SdcAssumption
     DEF SdcInv, TypeOK, SdcTypeOK, Reqs, Buses, Addresses, Registers
<1>5. EngineReady
  BY <1>2 DEF SdcInv, TransferInv, TypeOK, CallInv, RequestEnter, Lock, SendPcs
<1>6. /\ datm.state = "IDLE" /\ datm.en = "off" /\ datm.status = {}
      /\ ~start.rx /\ ~start.tx /\ ~start.prepare /\ dath.state = "IDLE"
  BY <1>5 DEF EngineReady, MasterReady, NoStart, DataInv, BurstInv, SdcInv, EngineInv
<1>7. RegInv'
  BY <1>2, <1>3, <1>4 DEF DataInv, RegInv, HasData, SendPcs
<1>8. DirectionInv' /\ BurstInv'
  BY <1>2, <1>6 DEF DataInv, DirectionInv, BurstInv
<1>9. ReadInv'
  BY <1>2, <1>6 DEF DataInv, ReadInv
<1>10. cmdh.finish = "no"
  BY DEF SdcInv, CmdInv, CmdBlocksInv, CmdQuiet, RequestEnter, Lock
<1>11. req'.kind = "write" =>
           /\ \A n \in Blocks : mem'[mrq'][n] = <<mrq', n>>
           /\ bus'.adr[1] # mrq'
  <2>1. bus.adr[1] # issued + 1
    BY <1>4 DEF DataInv, RegInv
  <2> QED BY <1>1, <1>2, <1>4, <2>1
<1>12. WriteInv'
  BY <1>2, <1>6, <1>10, <1>11 DEF DataInv, WriteInv
<1>13. DoneInv'
  BY <1>2, <1>6 DEF DoneInv
<1> QED
  BY <1>7, <1>8, <1>9, <1>12, <1>13 DEF DataInv

\* The steps that send a command.
LEMMA DataSending ==
    ASSUME SdcInv, AnswersHeard, DataInv, Sending
    PROVE  DataInv'
<1>1. /\ SdcTypeOK /\ reg \in Registers
      /\ role \in {"sbc", "cmd", "stop"} /\ op \in {"none", "request", "isr"}
      /\ issued \in 0 .. MaxReq /\ MaxReq \in Nat
  BY SdcAssumption DEF SdcInv, TypeOK, SdcTypeOK
<1>2. /\ RegInv /\ DoneInv
      /\ pc = "free" <=> op = "none"
      /\ op = "request" => (has_data <=> pc = "enable")
      /\ op = "isr" => pc # "setup" /\ (pc \in SendPcs => role = "stop" /\ has_data)
  BY DEF DataInv, SdcInv, CallInv
<1>3. pc = "setup" \/ (pc \in SendPcs /\ role # "stop") => ~has_data
  BY <1>1, <1>2 DEF SendPcs
<1>4. ASSUME TransferFrame, RegInv', DoneInv' PROVE DataInv'
  BY <1>4, FrameKeepsData DEF DataInv
<1> USE DEF Goto, Unlock, WriteReg, reqVars, sdcVars
<1>5. CASE SetupData
  <2>1. /\ mrq = issued /\ HasData(req) /\ ~has_data /\ pc = "setup" /\ pc' = "send"
    <3>1. pc = "setup" /\ mrq # 0 /\ HasData(req)
      BY <1>1, <1>2, <1>5 DEF SetupData, SdcInv, CallInv
    <3> QED BY <1>2, <1>3, <1>5, <3>1 DEF SetupData, RegInv
  <2>2. EngineReady
    BY <2>1 DEF SdcInv, TransferInv
  <2>3. /\ reg'.dma_addr = mrq /\ reg'.block_count = req.blocks
        /\ reg'.argument = reg.argument /\ reg'.command = reg.command
        /\ UNCHANGED <<cmdm, cmdh, start, datm, dath, fifo, bus, mem, card>>
        /\ UNCHANGED <<mrq, req, issued, has_data, error, role, st>>
    BY <1>1, <1>5 DEF SetupData, Registers
  <2>4. /\ datm.state = "IDLE" /\ datm.en = "off" /\ datm.status = {}
        /\ ~start.rx /\ ~start.tx /\ ~start.prepare /\ dath.state = "IDLE"
    BY <2>2 DEF EngineReady, MasterReady, NoStart, DataInv, BurstInv, SdcInv, EngineInv
  <2>5. RegInv'
    BY <1>1, <1>2, <2>1, <2>3 DEF RegInv
  <2>6. DirectionInv' /\ BurstInv'
    BY <2>3, <2>4 DEF DataInv, DirectionInv, BurstInv
  <2>7. ReadInv' /\ WriteInv'
    BY <2>3, <2>4 DEF DataInv, ReadInv, WriteInv
  <2>8. DoneInv'
    BY <2>1, <2>3, <2>4 DEF DoneInv
  <2> QED BY <2>5, <2>6, <2>7, <2>8 DEF DataInv
<1>6. CASE SetupFails \/ CmdFailed \/ CmdOk
  <2>1. /\ mrq' = 0 /\ pc' = "free" /\ UNCHANGED <<sdcVars, req, issued, has_data>>
        /\ pc = "setup" \/ (pc = "wait" /\ role # "stop")
    BY <1>6 DEF SetupFails, CmdFailed, CmdOk
  <2>2. ~has_data
    BY <1>3, <2>1 DEF SendPcs
  <2>3. EngineReady
    <3>1. CASE SetupFails
      BY <2>2, <3>1 DEF SetupFails, SdcInv, TransferInv
    <3>2. CASE CmdFailed
      <4>1. start.prepare => reg.cmd_int_rst
        BY <3>2 DEF CmdFailed, SdcInv, TransferInv
      <4> QED
        BY <2>2, <3>2, <4>1 DEF CmdFailed, Settled, SdcInv, TransferInv, DataCmdInv,
           EngineReady, NoStart
    <3>3. CASE CmdOk
      BY <2>2, <3>3 DEF CmdOk, SdcInv, TransferInv
    <3> QED BY <1>6, <3>1, <3>2, <3>3
  <2> QED BY <2>1, <2>2, <2>3, DataEnds
<1>7. CASE SendCmd
  <2>1. /\ pc = "send" /\ pc' = "poll" /\ UNCHANGED <<cmdm, cmdh, start, datm, dath, fifo>>
        /\ UNCHANGED <<bus, mem, card, mrq, req, issued, has_data, error, role, st>>
    BY <1>7 DEF SendCmd
  <2>2. /\ reg'.dma_addr = reg.dma_addr /\ reg'.block_count = reg.block_count
        /\ reg'.argument[1] = mrq
    BY <1>1, <1>7 DEF SendCmd, Registers
  <2>3. cmdh.finish = "no"
    BY <2>1 DEF SdcInv, CmdInv, CmdBlocksInv, CmdQuiet
  <2>4. TransferFrame
    BY <2>1, <2>2, <2>3 DEF TransferFrame
  <2>5. RegInv'
    BY <1>2, <2>1, <2>2 DEF RegInv, SendPcs
  <2>6. DoneInv'
    BY <1>2, <2>1, <2>4, FrameKeepsData DEF DoneInv, SendPcs
  <2> QED BY <1>4, <2>4, <2>5, <2>6
<1>8. CASE CmdPoll \/ CmdClear
  <2>1. /\ UNCHANGED <<cmdm, cmdh, start, datm, dath, fifo>>
        /\ UNCHANGED <<bus, mem, card, mrq, req, issued, has_data, error, role>>
        /\ pc \in {"poll", "clear"} /\ pc' \in {"clear", "wait"}
    BY <1>8 DEF CmdPoll, CmdClear
  <2>2. /\ reg'.dma_addr = reg.dma_addr /\ reg'.block_count = reg.block_count
        /\ reg'.argument = reg.argument /\ reg'.command = reg.command
    BY <1>1, <1>8 DEF CmdPoll, CmdClear, Registers
  <2>3. TransferFrame
    BY <2>1, <2>2 DEF TransferFrame
  <2>4. RegInv'
    BY <1>2, <2>1, <2>2 DEF RegInv, SendPcs
  <2>5. DoneInv'
    BY <1>2, <2>1, <2>3, FrameKeepsData DEF DoneInv, SendPcs
  <2> QED BY <1>4, <2>3, <2>4, <2>5
<1>9. CASE SbcOk
  <2>1. /\ pc = "wait" /\ role = "sbc" /\ role' = "cmd"
        /\ pc' \in {"setup", "send"} /\ (pc' = "send" => ~HasData(req))
        /\ UNCHANGED <<sdcVars, mrq, req, issued, has_data, error, st>>
    BY <1>9 DEF SbcOk, SendFirst
  <2>2. ~has_data
    BY <1>3, <2>1 DEF SendPcs
  <2>3. TransferFrame
    BY <2>1 DEF TransferFrame
  <2>4. RegInv'
    BY <1>2, <2>1, <2>2 DEF RegInv, HasData
  <2>5. DoneInv'
    BY <1>2, <2>1, <2>2, <2>3, FrameKeepsData DEF DoneInv
  <2> QED BY <1>4, <2>3, <2>4, <2>5
<1>10. CASE CmdOkWithData
  <2>1. /\ pc = "wait" /\ role = "cmd" /\ HasData(req) /\ pc' = "enable"
        /\ UNCHANGED <<sdcVars, mrq, req, issued, role>>
    BY <1>10 DEF CmdOkWithData
  <2>2. TransferFrame
    BY <2>1 DEF TransferFrame
  <2>3. RegInv'
    BY <1>2, <2>1 DEF RegInv, SendPcs
  <2>4. DoneInv'
    BY <1>2, <2>1, <2>2, FrameKeepsData DEF DoneInv, SendPcs
  <2> QED BY <1>4, <2>2, <2>3, <2>4
<1>11. CASE StopDone
  <2>1. /\ pc = "wait" /\ role = "stop" /\ pc' = "done" /\ (~error' => ~error)
        /\ UNCHANGED <<sdcVars, mrq, req, issued, has_data, role, st>>
    BY <1>11 DEF StopDone
  <2>2. TransferFrame
    BY <2>1 DEF TransferFrame
  <2>3. RegInv'
    BY <1>2, <2>1 DEF RegInv, SendPcs
  <2>4. DoneInv'
    BY <1>2, <2>1, <2>2, FrameKeepsData DEF DoneInv, SendPcs
  <2> QED BY <1>4, <2>2, <2>3, <2>4
<1> QED
  BY <1>5, <1>6, <1>7, <1>8, <1>9, <1>10, <1>11 DEF Sending

\* The end of sdc_request and the interrupt handler.
LEMMA DataIsr ==
    ASSUME SdcInv, DataInv, RequestExit \/ IrqDispatch \/ Isr
    PROVE  DataInv'
<1>1. SdcTypeOK /\ reg \in Registers
  BY DEF SdcInv, TypeOK, SdcTypeOK
<1>2. RegInv /\ DoneInv
  BY DEF DataInv
<1>3. ASSUME TransferFrame, RegInv', DoneInv' PROVE DataInv'
  BY <1>3, FrameKeepsData DEF DataInv
<1> USE DEF Goto, Lock, Unlock, WriteReg, lockVars, reqVars, sdcVars
<1>4. CASE IsrDone
  <2>1. EngineReady
    BY <1>4 DEF IsrDone, SdcInv, TransferInv
  <2> QED BY <1>4, <2>1, DataEnds DEF IsrDone
<1>5. CASE ~IsrDone
  <2> DEFINE Moves == \/ RequestExit \/ IrqDispatch \/ IsrEnter \/ IsrReadCard
                      \/ IsrReportCard \/ IsrNoData \/ IsrDropData
  <2>1. /\ UNCHANGED <<cmdm, cmdh, start, datm, dath, fifo, bus, mem, card>>
        /\ UNCHANGED <<mrq, req, issued, has_data>>
        /\ reg'.dma_addr = reg.dma_addr /\ reg'.block_count = reg.block_count
        /\ reg'.argument = reg.argument /\ reg'.command = reg.command
    BY <1>1, <1>5 DEF RequestExit, IrqDispatch, Isr, IsrEnter, IsrReadCard, IsrReportCard,
       IsrNoData, IsrReadData, IsrDisable, IsrClear, IsrDropData, IsrTakeData, Registers
  <2>2. TransferFrame
    BY <2>1 DEF TransferFrame
  <2>3. /\ DataMoved' <=> DataMoved
        /\ datm'.status = {"CC"} =>
               DataMoved' /\ bus'.burst.dir # "write" /\ (datm'.en = "rx" => fifo' = <<>>)
    BY <2>2, FrameKeepsData
  <2>4. CASE Moves
    <3>1. IrqDispatch \/ pc' \in {"free", "card", "card_ie", "data"}
      BY <2>4 DEF RequestExit, IsrEnter, IsrReadCard, IsrReportCard, IsrNoData, IsrDropData
    <3>2. UNCHANGED <<role, st, error>> /\ (IrqDispatch => pc' = pc)
      BY <2>4 DEF RequestExit, IrqDispatch, IsrEnter, IsrReadCard, IsrReportCard, IsrNoData,
         IsrDropData
    <3>3. RegInv'
      BY <1>2, <2>1, <3>1, <3>2 DEF RegInv, SendPcs
    <3>4. DoneInv'
      BY <1>2, <2>1, <2>3, <3>1, <3>2 DEF DoneInv, SendPcs
    <3> QED BY <1>3, <2>2, <3>3, <3>4
  <2>5. CASE IsrReadData
    <3>1. /\ pc' = "disable" /\ st' = DatIntStatus /\ role' = role
      BY <2>5 DEF IsrReadData
    <3>2. st' = {"CC"} =>
              DataMoved /\ bus.burst = NoBurst /\ bus.resp = <<>> /\ datm.en = "off"
      BY <1>2, <3>1 DEF DatIntStatus, DoneInv
    <3>3. RegInv'
      BY <1>2, <2>1, <3>1 DEF RegInv, SendPcs
    <3>4. DoneInv'
      BY <2>1, <2>3, <3>1, <3>2 DEF DoneInv, SendPcs
    <3> QED BY <1>3, <2>2, <3>3, <3>4
  <2>6. CASE IsrDisable \/ IsrClear
    <3>1. /\ UNCHANGED <<role, st>>
          /\ pc \in {"disable", "data_clear"} /\ pc' \in {"data_clear", "data_wait"}
      BY <2>6 DEF IsrDisable, IsrClear
    <3>2. RegInv'
      BY <1>2, <2>1, <3>1 DEF RegInv, SendPcs
    <3>3. DoneInv'
      BY <1>2, <2>1, <2>3, <3>1 DEF DoneInv, SendPcs
    <3> QED BY <1>3, <2>2, <3>2, <3>3
  <2>7. CASE IsrTakeData
    <3>1. /\ has_data /\ pc = "data_wait" /\ pc' \in {"send", "done"}
          /\ ~error' => st = {"CC"}
      BY <2>7 DEF IsrTakeData
    <3>2. RegInv'
      BY <1>2, <2>1, <3>1 DEF RegInv, SendPcs
    <3>3. DoneInv'
      BY <1>2, <2>1, <2>3, <3>1 DEF DoneInv, SendPcs
    <3> QED BY <1>3, <2>2, <3>2, <3>3
  <2> QED
    BY <1>5, <2>4, <2>5, <2>6, <2>7 DEF Isr
<1> QED
  BY <1>4, <1>5

LEMMA DataStep ==
    ASSUME SdcInv, AnswersHeard, DataInv, [Next]_vars
    PROVE  DataInv'
<1>1. CASE Sdc
  BY <1>1, DataTick, DataBurstBegin, DataBurstEnd, DataBusAndCard DEF Sdc, SdcNext
<1>2. CASE RequestEnter
  BY <1>2, DataRequestEnter
<1>3. CASE Sending
  BY <1>3, DataSending
<1>4. CASE RequestExit \/ IrqDispatch \/ Isr
  BY <1>4, DataIsr
<1>5. CASE UNCHANGED vars
  <2>1. /\ UNCHANGED <<reg, cmdm, cmdh, start, datm, dath, fifo, bus, mem, card>>
        /\ UNCHANGED <<pc, mrq, req, has_data, error, issued, role, st>>
    BY <1>5 DEF vars, sdcVars, drvVars, lockVars, reqVars
  <2>2. TransferFrame
    BY <2>1 DEF TransferFrame
  <2>3. RegInv' /\ DoneInv'
    BY <2>1, <2>2, FrameKeepsData DEF DataInv, RegInv, DoneInv
  <2> QED BY <2>2, <2>3, FrameKeepsData DEF DataInv
<1> QED
  BY <1>1, <1>2, <1>3, <1>4, <1>5 DEF Next

-----------------------------------------------------------------------------
(* How far the DMA engine gets ahead of the data lines.                    *)

\* The blocks that have gone over the data lines, at most.
Carried == IF dath.state # "IDLE" THEN reg.block_count - dath.blkcnt
           ELSE IF datm.state \in {"XFER", "IDLE"} THEN reg.block_count ELSE 0

\* A read takes from the FIFO what has come; a write fetches what the FIFO holds
\* beyond what has gone, damaged blocks included.
PaceInv ==
    /\ datm.en = "rx" => DmaMoved + Len(fifo) <= Carried
    /\ datm.en = "tx" => DmaMoved <= Carried + Len(fifo)

LEMMA PaceTick ==
    ASSUME SdcInv, DataInv, PaceInv, NEW answer, NEW block, DataEdge(answer, block)
    PROVE  PaceInv'
<1>1. /\ SdcTypeOK /\ EngineInv /\ TransferInv /\ BurstInv
      /\ answer \in CardAnswers /\ block \in CardBlocks /\ DataMaster /\ DataHost(block)
      /\ DataFifo(block) /\ LoadAddress /\ BusKeepsUp
      /\ reg'.block_count = reg.block_count
  BY EdgeFrame DEF DataEdge, DataInv
<1>2. /\ datm.state = "IDLE" => datm'.en = "off"
      /\ datm.state = "START_RX" =>
             datm'.en = "rx" /\ datm'.state = IF dath.state # "IDLE" THEN "XFER" ELSE "START_RX"
      /\ datm.state = "START_TX" =>
             datm'.en = "tx" /\ (datm'.state # "START_TX" => dath.state # "IDLE")
      /\ datm.state = "XFER" => datm'.en = datm.en /\ datm'.state \in {"XFER", "IDLE"}
      /\ datm.state \in {"IDLE", "START_RX", "START_TX", "XFER"}
  BY <1>1, DataMasterTick
<1>3. /\ block \in {"none", "good", "bad"}
      /\ block # "none" =>
             /\ datm.state = "XFER"
             /\ \/ dath.state = "READ" /\ datm.en = "rx"
                \/ dath.state = "WRITE" /\ datm.en = "tx"
      /\ datm.d # "abort" /\ dath.state = "IDLE" => dath'.blkcnt = reg.block_count
      /\ datm.d # "abort" /\ dath.state # "IDLE" /\ block = "none" => dath' = dath
      /\ block = "good" =>
             IF dath.blkcnt > 1
                 THEN dath'.state = dath.state /\ dath'.blkcnt = dath.blkcnt - 1
                 ELSE dath'.state = "IDLE"
      /\ block = "bad" => dath'.state = "IDLE"
  BY <1>1, DataHostTick
<1>4. /\ datm.en = "off" /\ datm'.en # "off" =>
             /\ datm.state \in {"START_RX", "START_TX"}
             /\ bus'.adr = <<reg.dma_addr, 1>> /\ fifo' = <<>>
      /\ datm.en # "off" => bus' = bus
      /\ datm'.en # "off" /\ block = "none" => fifo' = fifo
      /\ datm'.en # "off" /\ block # "none" /\ dath.state = "READ" /\ Len(fifo) # FifoLen =>
             fifo' = Append(fifo, IF block = "good" THEN <<card.id, card.next>> ELSE NoBlock)
      /\ datm'.en # "off" /\ block # "none" /\ dath.state = "READ" /\ Len(fifo) = FifoLen =>
             fifo' = fifo
      /\ datm'.en # "off" /\ block # "none" /\ dath.state = "WRITE" =>
             fifo' = Tail(fifo) /\ fifo # <<>>
  BY <1>1, FifoTick
<1>5. /\ datm.d = "none" /\ dath.state = "IDLE" => dath'.state = "IDLE"
      /\ datm.state # "IDLE" => datm.d # "abort"
      /\ datm.state = "XFER" /\ datm.d # "none" => dath.state # "IDLE"
      /\ datm.en = "off" /\ datm.state # "IDLE" => datm.d = "none" /\ dath.state = "IDLE"
  BY <1>1, <1>2, DataHostMoves DEF EngineInv, BurstInv
<1>6. /\ reg.block_count \in Nat /\ bus.adr[2] \in Nat
      /\ fifo \in Seq(BlockNames) /\ Len(fifo) \in Nat
      /\ dath.state # "IDLE" => dath.blkcnt \in 1 .. reg.block_count
      /\ datm.en \in {"off", "rx", "tx"}
  BY <1>1, SdcAssumption
     DEF SdcTypeOK, Registers, BurstInv, Buses, Addresses, DataMasters
<1>7. CASE datm'.en = "off"
  BY <1>7 DEF PaceInv
<1>8. CASE datm.en = "off" /\ datm'.en # "off"
  <2>1. dath'.state = "IDLE"
    BY <1>4, <1>5, <1>8
  <2>2. Carried' \in Nat
    BY <1>1, <1>6, <2>1 DEF Carried
  <2>3. DmaMoved' = 0
    BY <1>4, <1>8 DEF DmaMoved
  <2>4. Len(fifo') = 0
    BY <1>4, <1>8
  <2>5. \A c \in Nat, d, l \in Int : d = 0 /\ l = 0 => d + l <= c /\ d <= c + l
    OBVIOUS
  <2>6. DmaMoved' \in Int /\ Len(fifo') \in Int
    BY <2>3, <2>4
  <2>7. DmaMoved' + Len(fifo') <= Carried' /\ DmaMoved' <= Carried' + Len(fifo')
    BY <2>2, <2>3, <2>4, <2>5, <2>6, Zenon
  <2> QED BY <2>7, Zenon DEF PaceInv
<1>9. CASE datm.en # "off" /\ datm'.en # "off"
  <2>1. /\ datm'.en = datm.en /\ datm.state # "IDLE" /\ bus' = bus
        /\ datm'.en \in {"rx", "tx"}
    BY <1>1, <1>2, <1>4, <1>6, <1>9 DEF EngineInv
  <2>2. DmaMoved' = DmaMoved /\ DmaMoved \in Int
    BY <1>6, <2>1 DEF DmaMoved
  <2>3. Carried \in Int
    BY <1>6 DEF Carried
  <2>4. CASE block = "none"
    <3>1. fifo' = fifo
      BY <1>4, <1>9, <2>4
    <3>2. Carried' \in Int /\ Carried' >= Carried
      <4>1. CASE dath.state # "IDLE"
        BY <1>1, <1>3, <1>5, <1>6, <2>1, <2>4, <4>1 DEF Carried
      <4>2. CASE dath.state = "IDLE" /\ datm.d = "none"
        BY <1>1, <1>2, <1>5, <1>6, <2>1, <4>2 DEF Carried
      <4>3. CASE dath.state = "IDLE" /\ datm.d # "none"
        BY <1>1, <1>2, <1>3, <1>5, <1>6, <2>1, <4>3 DEF Carried
      <4> QED BY <4>1, <4>2, <4>3
    <3> HIDE DEF Carried, DmaMoved
    <3> QED BY <1>6, <2>1, <2>2, <2>3, <3>1, <3>2 DEF PaceInv
  <2>5. CASE block # "none"
    <3>1. Carried' \in Int /\ Carried' >= Carried + 1
      BY <1>1, <1>2, <1>3, <1>6, <2>1, <2>5 DEF Carried
    <3>2. datm.en = "rx" => Len(fifo') \in Nat /\ Len(fifo') <= Len(fifo) + 1
      <4>1. CASE dath.state = "READ" /\ Len(fifo) # FifoLen
        BY <1>4, <1>6, <1>9, <2>5, <4>1
      <4>2. CASE dath.state = "READ" /\ Len(fifo) = FifoLen
        BY <1>4, <1>6, <1>9, <2>5, <4>2
      <4> QED BY <1>3, <2>5, <4>1, <4>2
    <3>3. datm.en = "tx" => Len(fifo') = Len(fifo) - 1
      BY <1>3, <1>4, <1>6, <1>9, <2>5
    <3> HIDE DEF Carried, DmaMoved
    <3> QED BY <1>6, <2>1, <2>2, <2>3, <3>1, <3>2, <3>3 DEF PaceInv
  <2> QED BY <2>4, <2>5
<1> QED
  BY <1>7, <1>8, <1>9

LEMMA PaceStep ==
    ASSUME SdcInv, DataInv, PaceInv, [Next]_vars
    PROVE  PaceInv'
<1>1. /\ SdcTypeOK /\ BurstInv /\ reg \in Registers
      /\ bus.adr[2] \in Nat /\ fifo \in Seq(BlockNames) /\ Len(fifo) \in Nat
      /\ reg.block_count \in Nat
      /\ dath.state # "IDLE" => dath.blkcnt \in 1 .. reg.block_count
  BY SdcAssumption DEF SdcInv, TypeOK, SdcTypeOK, DataInv, Buses, Addresses, BurstInv, Registers
<1>2. CASE Sdc
  <2>1. CASE Tick
    <3>1. PICK answer, block : DataEdge(answer, block)
      BY <1>2, <2>1 DEF Tick, DataEdge, Sdc
    <3> QED BY <3>1, PaceTick
  <2>2. CASE BurstEnd
    <3>1. /\ bus'.adr = <<bus.adr[1], bus.adr[2] + 1>>
          /\ datm.en = "rx" => fifo # <<>> /\ fifo' = Tail(fifo)
          /\ datm.en = "tx" =>
                 fifo' = Append(fifo, IF InBuffer(bus.adr)
                                          THEN mem[bus.adr[1]][bus.adr[2]] ELSE NoBlock)
      BY <1>1, <2>2, BurstEndMoves
    <3>2. /\ datm.en = "rx" => Len(fifo') = Len(fifo) - 1
          /\ datm.en = "tx" => Len(fifo') = Len(fifo) + 1
      BY <1>1, <3>1
    <3>3. UNCHANGED <<reg, datm, dath>> /\ Carried \in Int
      BY <1>1, <2>2 DEF BurstEnd, Carried
    <3>4. Carried' = Carried /\ DmaMoved' = DmaMoved + 1 /\ DmaMoved \in Int
      BY <1>1, <3>1, <3>3 DEF Carried, DmaMoved
    <3> HIDE DEF Carried, DmaMoved
    <3> QED BY <1>1, <3>2, <3>3, <3>4 DEF PaceInv
  <2>3. CASE BurstBegin \/ BurstResp \/ CardReady \/ CardChange
    <3>1. UNCHANGED <<reg, datm, dath, fifo>> /\ bus'.adr = bus.adr
      BY <1>1, <2>3 DEF BurstBegin, BurstResp, CardReady, CardChange, SdcTypeOK, Buses
    <3> QED BY <3>1 DEF PaceInv, Carried, DmaMoved
  <2> QED BY <1>2, <2>1, <2>2, <2>3 DEF Sdc, SdcNext
<1>3. CASE ~Sdc
  <2>1. UNCHANGED <<datm, dath, fifo, bus>>
    BY <1>3 DEF Next, RequestEnter, Sending, SetupData, SetupFails, SendCmd, CmdPoll, CmdClear,
       SbcOk, CmdFailed, CmdOk, CmdOkWithData, StopDone, RequestExit, IrqDispatch, Isr,
       IsrEnter, IsrReadCard, IsrReportCard, IsrNoData, IsrReadData, IsrDisable, IsrClear,
       IsrDropData, IsrTakeData, IsrDone, WriteReg, vars, sdcVars
  <2>2. CASE SetupData
    <3>1. pc = "setup" /\ op \in {"none", "request", "isr"}
      BY <2>2 DEF SetupData, Goto, SdcInv, TypeOK
    <3>2. EngineReady
      BY <3>1 DEF SdcInv, CallInv, TransferInv, SendPcs
    <3> QED BY <2>1, <3>2 DEF EngineReady, MasterReady, PaceInv
  <2>3. CASE ~SetupData
    <3>1. reg'.block_count = reg.block_count
      BY <1>1, <1>3, <2>3 DEF Next, RequestEnter, Sending, SetupFails, SendCmd, CmdPoll,
         CmdClear, SbcOk, CmdFailed, CmdOk, CmdOkWithData, StopDone, RequestExit, IrqDispatch,
         Isr, IsrEnter, IsrReadCard, IsrReportCard, IsrNoData, IsrReadData, IsrDisable,
         IsrClear, IsrDropData, IsrTakeData, IsrDone, WriteReg, vars, sdcVars, Registers
    <3> QED BY <2>1, <3>1 DEF PaceInv, Carried, DmaMoved
  <2> QED BY <2>2, <2>3
<1> QED
  BY <1>2, <1>3

-----------------------------------------------------------------------------
(* The theorems.                                                           *)

\* What OkMeansOwnData says of a step.
OwnDataStep ==
    mrq # 0 /\ mrq' = 0 /\ ~error'
      => CASE req.kind = "read" -> \A n \in 1 .. req.blocks : mem[mrq][n] = <<mrq, n>>
           [] req.kind = "write" -> card.stored = [n \in 1 .. req.blocks |-> <<mrq, n>>]
           [] OTHER -> TRUE

\* A request ends without an error only at the end of the handler, with its data
\* moved, or as a command without data.
LEMMA EndsWithOwnData ==
    ASSUME SdcInv, AnswersHeard, DataInv, [Next]_vars
    PROVE  OwnDataStep
<1> SUFFICES ASSUME mrq # 0, mrq' = 0, ~error'
             PROVE  CASE req.kind = "read" -> \A n \in 1 .. req.blocks : mem[mrq][n] = <<mrq, n>>
                      [] req.kind = "write" ->
                             card.stored = [n \in 1 .. req.blocks |-> <<mrq, n>>]
                      [] OTHER -> TRUE
  BY DEF OwnDataStep
<1>1. CmdOk \/ IsrDone
  <2>1. issued + 1 # 0
    BY DEF SdcInv, TypeOK
  <2> USE DEF reqVars
  <2>2. ~(Sdc \/ RequestEnter \/ RequestExit \/ IrqDispatch \/ UNCHANGED vars)
    BY <2>1 DEF Sdc, RequestEnter, RequestExit, IrqDispatch, vars, drvVars
  <2>3. ~(SetupData \/ SetupFails \/ SendCmd \/ CmdPoll \/ CmdClear \/ SbcOk \/ CmdFailed
            \/ CmdOkWithData \/ StopDone)
    BY DEF SetupData, SetupFails, SendCmd, CmdPoll, CmdClear, SbcOk, CmdFailed, CmdOkWithData,
       StopDone
  <2>4. ~(IsrEnter \/ IsrReadCard \/ IsrReportCard \/ IsrNoData \/ IsrReadData \/ IsrDisable
            \/ IsrClear \/ IsrDropData \/ IsrTakeData)
    BY DEF IsrEnter, IsrReadCard, IsrReportCard, IsrNoData, IsrReadData, IsrDisable,
       IsrClear, IsrDropData, IsrTakeData
  <2> QED BY <2>2, <2>3, <2>4 DEF Next, Sending, Isr
<1>2. CASE CmdOk
  <2>1. req.kind = "plain"
    BY <1>2 DEF CmdOk, HasData
  <2> QED BY <2>1
<1>3. CASE IsrDone
  <2>1. pc = "done" /\ op # "none" /\ ~error
    BY <1>3 DEF IsrDone, SdcInv, CallInv
  <2>2. has_data
    BY <2>1 DEF SdcInv, TypeOK, CallInv, SendPcs
  <2>3. DataMoved
    BY <2>1, <2>2 DEF DataInv, DoneInv
  <2> QED BY <2>3 DEF DataMoved, FirstBlocks
<1> QED
  BY <1>1, <1>2, <1>3

\* What DmaKeepsToBuffer says of a step.
KeepsToBuffer ==
    /\ bus.burst = NoBurst /\ bus'.burst # NoBurst =>
           /\ bus.adr[1] \in mapped
           /\ bus.adr[2] <= IF bus'.burst.dir = "write" THEN req.blocks
                            ELSE req.blocks + FifoLen
    /\ \A i \in mapped \ mapped' : BusUses(i) => error'

\* A burst begins within what the pace allows; a buffer is unmapped at the end of a
\* request, where one without an error has waited for the bus.
LEMMA StepKeepsToBuffer ==
    ASSUME SdcInv, DataInv, PaceInv, [Next]_vars
    PROVE  KeepsToBuffer
<1>1. /\ SdcTypeOK /\ BurstInv /\ bus \in Buses
      /\ bus.adr[2] \in Nat /\ fifo \in Seq(BlockNames) /\ Len(fifo) \in Nat
      /\ reg.block_count \in Nat /\ FifoLen \in Nat
      /\ dath.state # "IDLE" => dath.blkcnt \in 1 .. reg.block_count
  BY SdcAssumption DEF SdcInv, TypeOK, SdcTypeOK, DataInv, Buses, Addresses, BurstInv, Registers
<1>2. ASSUME bus.burst = NoBurst, bus'.burst # NoBurst
      PROVE  /\ bus.adr[1] \in mapped
             /\ bus.adr[2] <= IF bus'.burst.dir = "write" THEN req.blocks
                              ELSE req.blocks + FifoLen
  <2>1. BurstBegin
    <3>1. SdcNext \/ bus' = bus
      BY HardwareStep DEF sdcVars
    <3>2. Tick => bus'.burst = bus.burst
      BY <1>1 DEF Tick, LoadAddress, Buses
    <3>3. BurstResp => bus'.burst = bus.burst
      BY <1>1 DEF BurstResp, Buses
    <3>4. ~BurstEnd /\ (CardReady \/ CardChange => bus' = bus)
      BY <1>2 DEF BurstEnd, CardReady, CardChange
    <3> QED BY <1>2, <3>1, <3>2, <3>3, <3>4 DEF SdcNext
  <2>2. /\ bus'.burst.dir = IF datm.en = "rx" THEN "write" ELSE "read"
        /\ \/ datm.en = "tx" /\ Len(fifo) < FifoLen
           \/ datm.en = "rx" /\ fifo # <<>>
    BY <1>1, <2>1 DEF BurstBegin, TxStb, RxStb, Buses
  <2>3. bus.adr[1] \in mapped /\ reg.block_count = req.blocks
    BY <2>2, EngineRequest DEF EngineReady, MasterReady
  <2>4. Carried \in Int /\ Carried <= reg.block_count
    BY <1>1 DEF Carried
  <2> HIDE DEF Carried
  <2>5. CASE datm.en = "tx"
    BY <1>1, <2>2, <2>3, <2>4, <2>5 DEF PaceInv, DmaMoved
  <2>6. CASE datm.en = "rx"
    <3>1. Len(fifo) >= 1
      BY <1>1, <2>2, <2>6
    <3> QED BY <1>1, <2>2, <2>3, <2>4, <2>6, <3>1 DEF PaceInv, DmaMoved
  <2> QED BY <2>2, <2>5, <2>6
<1>3. ASSUME NEW i \in mapped \ mapped', BusUses(i), ~error'
      PROVE  FALSE
  <2>1. CmdFailed \/ IsrDone
    <3>1. ~(\/ Sdc \/ RequestEnter \/ RequestExit \/ IrqDispatch \/ UNCHANGED vars)
      BY <1>3 DEF Sdc, RequestEnter, RequestExit, IrqDispatch, vars, drvVars, reqVars
    <3>2. ~(SetupData \/ SetupFails \/ SendCmd \/ CmdPoll \/ CmdClear \/ SbcOk \/ CmdOk
              \/ CmdOkWithData \/ StopDone)
      BY <1>3 DEF SetupData, SetupFails, SendCmd, CmdPoll, CmdClear, SbcOk, CmdOk,
         CmdOkWithData, StopDone, reqVars
    <3>3. ~(IsrEnter \/ IsrReadCard \/ IsrReportCard \/ IsrNoData \/ IsrReadData
              \/ IsrDisable \/ IsrClear \/ IsrDropData \/ IsrTakeData)
      BY <1>3 DEF IsrEnter, IsrReadCard, IsrReportCard, IsrNoData, IsrReadData, IsrDisable,
         IsrClear, IsrDropData, IsrTakeData, reqVars
    <3> QED BY <3>1, <3>2, <3>3 DEF Next, Sending, Isr
  <2>2. ~CmdFailed
    BY <1>3 DEF CmdFailed
  <2>3. pc = "done" /\ op # "none" /\ ~error
    BY <1>3, <2>1, <2>2 DEF IsrDone, SdcInv, CallInv
  <2>4. has_data
    BY <2>3 DEF SdcInv, TypeOK, CallInv, SendPcs
  <2>5. bus.burst = NoBurst /\ bus.resp = <<>>
    BY <2>3, <2>4 DEF DataInv, DoneInv
  <2> QED BY <1>3, <2>5 DEF BusUses
<1> QED
  BY <1>2, <1>3 DEF KeepsToBuffer

LEMMA DataCorrect ==
    ASSUME AnswersHeard
    PROVE  Spec => [](TypeOK /\ CallInv /\ EngineInv /\ CmdInv /\ DataCmdInv
                        /\ TransferInv /\ DataInv /\ PaceInv)
<1>1. Init => CmdInv /\ DataCmdInv /\ TransferInv /\ DataInv /\ PaceInv
  <2> SUFFICES ASSUME Init
               PROVE  CmdInv /\ DataCmdInv /\ TransferInv /\ DataInv /\ PaceInv
    OBVIOUS
  <2>1. PICK in \in BOOLEAN : SdcReset(in, IF in THEN {"remove"} ELSE {"insert"})
    BY DEF Init, SdcInit
  <2>2. CmdInv
    BY <2>1 DEF Init, DriverIdle, SdcReset, CmdInv, CmdBlocksInv, CmdQuiet
  <2>3. DataCmdInv
    BY <2>1 DEF Init, DriverIdle, SdcReset, DataCmdInv
  <2>4. TransferInv
    BY <2>1 DEF Init, DriverIdle, SdcReset, TransferInv, EngineReady, MasterReady, NoStart,
                SendPcs
  <2>5. RegInv
    BY <2>1 DEF Init, DriverIdle, SdcReset, RegInv, SendPcs
  <2>6. DirectionInv /\ BurstInv
    BY <2>1 DEF Init, DriverIdle, SdcReset, DirectionInv, BurstInv
  <2>7. ReadInv /\ WriteInv /\ DoneInv
    BY <2>1 DEF Init, DriverIdle, SdcReset, ReadInv, WriteInv, DoneInv
  <2>8. PaceInv
    BY <2>1 DEF SdcReset, PaceInv
  <2> QED BY <2>2, <2>3, <2>4, <2>5, <2>6, <2>7, <2>8 DEF DataInv
<1>2. /\ TypeOK /\ CallInv /\ EngineInv /\ CmdInv /\ DataCmdInv /\ TransferInv /\ DataInv
      /\ PaceInv /\ [Next]_vars
      => (CmdInv /\ DataCmdInv /\ TransferInv /\ DataInv /\ PaceInv)'
  BY AnswersHeard, CmdInvStep, DataCmdStep, TransferStep, DataStep, PaceStep DEF SdcInv
<1>3. Spec => [](TypeOK /\ CallInv /\ EngineInv)
  BY SdcTypeCorrect
<1> QED
  BY <1>1, <1>2, <1>3, PTL DEF Spec

\* A read or write that ends without an error has moved its own data, whatever of its
\* blocks is damaged or late and whatever a request before it left behind, as long as the
\* answer to a read command and a damaged answer to a write command are not lost.
THEOREM RequestMovesOwnData ==
    ASSUME AnswersHeard
    PROVE  Spec => OkMeansOwnData
<1>1. /\ TypeOK /\ CallInv /\ EngineInv /\ CmdInv /\ DataCmdInv /\ TransferInv /\ DataInv
      /\ [Next]_vars
      => [OwnDataStep]_vars
  BY AnswersHeard, EndsWithOwnData DEF SdcInv
<1>2. OkMeansOwnData <=> [][OwnDataStep]_vars
  BY DEF OkMeansOwnData, OwnDataStep
<1> QED
  BY <1>1, <1>2, DataCorrect, PTL DEF Spec

\* Under the same assumption the DMA engine begins no burst outside the buffer that is
\* mapped, but for what a write fetches in advance, no more than the FIFO holds; and a
\* request that ends without an error leaves nothing of its buffer on the bus.
THEOREM DmaStaysInBuffer ==
    ASSUME AnswersHeard
    PROVE  Spec => DmaKeepsToBuffer
<1>1. /\ TypeOK /\ CallInv /\ EngineInv /\ CmdInv /\ DataCmdInv /\ TransferInv /\ DataInv
      /\ PaceInv /\ [Next]_vars
      => [KeepsToBuffer]_vars
  BY StepKeepsToBuffer DEF SdcInv
<1>2. DmaKeepsToBuffer <=> [][KeepsToBuffer]_vars
  BY DEF DmaKeepsToBuffer, KeepsToBuffer
<1> QED
  BY <1>1, <1>2, DataCorrect, PTL DEF Spec
=============================================================================

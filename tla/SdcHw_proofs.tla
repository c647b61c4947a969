---------------------------- MODULE SdcHw_proofs ----------------------------
(***************************************************************************)
(* Lemmas about the SD card controller, for every size of its FIFO, every  *)
(* timeout and every behaviour of the card, that the proofs about its      *)
(* drivers rest on.                                                        *)
(***************************************************************************)
EXTENDS SdcHw, TLAPS

-----------------------------------------------------------------------------
(* Types of the controller, block by block.                                *)

\* The blocks of the command.
LEMMA CmdMasterTypes ==
    ASSUME SdcTypeOK, CmdMaster
    PROVE  cmdm' \in CmdMasters
<1> USE DEF SdcTypeOK, Registers, CmdMasters, CmdHosts, CmdStep, Statuses, CmdExpired
<1> USE SdcAssumption
<1>1. CASE CmdIdle
  BY <1>1 DEF CmdIdle
<1>2. CASE CmdStart
  BY <1>2 DEF CmdStart
<1>3. CASE CmdTimedOut
  BY <1>3 DEF CmdTimedOut
<1>4. CASE CmdAnswered
  BY <1>4 DEF CmdAnswered
<1>5. CASE CmdWaits
  BY <1>5 DEF CmdWaits
<1>6. CASE CmdBusyCheck
  BY <1>6 DEF CmdBusyCheck
<1> QED
  BY <1>1, <1>2, <1>3, <1>4, <1>5, <1>6 DEF CmdMaster

LEMMA CmdHostTypes ==
    ASSUME SdcTypeOK, NEW answer \in CardAnswers, CmdHost(answer)
    PROVE  cmdh' \in CmdHosts
<1> USE DEF SdcTypeOK, CmdHosts
<1> USE SdcAssumption
<1>1. CASE CmdHostInit
  BY <1>1 DEF CmdHostInit
<1>2. CASE CmdHostWarmUp
  <2>1. CASE cmdh.counter < InitDelay
    <3>1. cmdh.counter + 1 \in 0 .. InitDelay
      BY <2>1
    <3> QED BY <1>2, <2>1, <3>1 DEF CmdHostWarmUp
  <2>2. CASE ~(cmdh.counter < InitDelay)
    <3>1. 0 \in 0 .. InitDelay
      OBVIOUS
    <3> QED BY <1>2, <2>2, <3>1 DEF CmdHostWarmUp
  <2> QED BY <2>1, <2>2
<1>3. CASE CmdHostIdle
  BY <1>3 DEF CmdHostIdle
<1>4. CASE CmdHostSend(answer)
  <2>1. answer \in {"none", "good", "bad", "lost"}
    BY DEF CardAnswers
  <2>2. \/ cmdh' = cmdh
        \/ cmdh' = [cmdh EXCEPT !.state = "WAIT"]
        \/ /\ answer \in {"good", "bad"}
           /\ cmdh' = [cmdh EXCEPT !.state = "IDLE", !.finish = answer]
    BY <1>4, <2>1 DEF CmdHostSend
  <2> QED BY <2>1, <2>2
<1> QED
  BY <1>1, <1>2, <1>3, <1>4 DEF CmdHost

\* The blocks of the data.
LEMMA DataMasterTypes ==
    ASSUME SdcTypeOK, DataMaster
    PROVE  datm' \in DataMasters
<1> USE DEF SdcTypeOK, Registers, DataMasters, DatStep, Statuses, DatExpired
<1> USE SdcAssumption
<1>1. CASE DatIdle
  BY <1>1 DEF DatIdle
<1>2. CASE DatStartRx
  BY <1>2 DEF DatStartRx
<1>3. CASE DatStartTx
  BY <1>3 DEF DatStartTx
<1>4. CASE DatFails
  BY <1>4 DEF DatFails
<1>5. CASE DatTimesOut
  BY <1>5 DEF DatTimesOut
<1>6. CASE DatCompletes
  BY <1>6 DEF DatCompletes
<1>7. CASE DatRuns
  BY <1>7 DEF DatRuns
<1> QED
  BY <1>1, <1>2, <1>3, <1>4, <1>5, <1>6, <1>7 DEF DataMaster

LEMMA DataHostTypes ==
    ASSUME SdcTypeOK, NEW block \in CardBlocks, DataHost(block)
    PROVE  dath' \in DataHosts
<1> USE DEF SdcTypeOK, DataHosts, Registers
<1> USE SdcAssumption
<1>1. CASE DataHostIdle
  BY <1>1 DEF DataHostIdle
<1>2. CASE DataHostBlock(block)
  <2>1. block \in {"none", "good", "bad"}
    BY DEF CardBlocks
  <2>2. \/ dath' = dath
        \/ /\ dath.blkcnt > 1
           /\ dath' = [dath EXCEPT !.crc_ok = TRUE, !.blkcnt = @ - 1]
        \/ dath' = [dath EXCEPT !.crc_ok = (block = "good"), !.state = "IDLE"]
    <3>1. CASE block = "none"
      BY <1>2, <3>1 DEF DataHostBlock
    <3>2. CASE block = "good" /\ dath.blkcnt > 1
      BY <1>2, <3>2 DEF DataHostBlock
    <3>3. CASE block # "none" /\ ~(block = "good" /\ dath.blkcnt > 1)
      BY <1>2, <3>3 DEF DataHostBlock
    <3> QED BY <3>1, <3>2, <3>3
  <2>3. dath.blkcnt > 1 => dath.blkcnt - 1 \in 0 .. MaxBlocks
    BY DEF DataHosts
  <2>4. (block = "good") \in BOOLEAN
    OBVIOUS
  <2> QED BY <2>2, <2>3, <2>4, ZenonT(30)
<1>3. CASE DataHostAbort
  BY <1>3 DEF DataHostAbort
<1> QED
  BY <1>1, <1>2, <1>3 DEF DataHost

LEMMA FifoTypes ==
    ASSUME SdcTypeOK, EngineInv, NEW block \in CardBlocks, DataFifo(block)
    PROVE  fifo' \in Seq(BlockNames) /\ Len(fifo') <= FifoLen
<1> USE DEF SdcTypeOK
<1>1. <<card.id, card.next>> \in BlockNames /\ NoBlock \in BlockNames
  BY SdcAssumption DEF BlockNames, NoBlock, CardStates, Blocks
<1>2. FifoLen \in Nat
  BY SdcAssumption
<1>3. CASE datm'.en = "off"
  BY <1>2, <1>3 DEF DataFifo
<1>4. CASE datm'.en # "off" /\ block # "none" /\ datm.en = "rx"
  <2>1. CASE Len(fifo) = FifoLen
    BY <1>4, <2>1 DEF DataFifo
  <2>2. CASE Len(fifo) # FifoLen
    <3>1. PICK b \in BlockNames : fifo' = Append(fifo, b)
      BY <1>1, <1>4, <2>2 DEF DataFifo
    <3> QED BY <1>2, <2>2, <3>1
  <2> QED BY <2>1, <2>2
<1>5. CASE datm'.en # "off" /\ block # "none" /\ datm.en = "tx"
  <2>1. fifo # <<>>
    BY <1>5 DEF CardBlocks, EngineInv
  <2>2. fifo' = Tail(fifo)
    BY <1>5 DEF DataFifo
  <2> QED BY <1>2, <2>1, <2>2
<1>6. CASE datm'.en # "off" /\ (block = "none" \/ datm.en \notin {"rx", "tx"})
  BY <1>6 DEF DataFifo
<1> QED
  BY <1>3, <1>4, <1>5, <1>6

\* The start of a transfer, and the card.
LEMMA StartTypes ==
    ASSUME SdcTypeOK, DataStart
    PROVE  start' \in Starts
  BY DEF SdcTypeOK, Registers, Starts, DataStart

LEMMA ObeysTypes ==
    ASSUME SdcTypeOK, NEW c \in CardStates
    PROVE  CardObeys(c) \in CardStates
<1> USE DEF SdcTypeOK, CardStates
<1> DEFINE done == [c EXCEPT !.done = reg.argument]
           multi == reg.block_count > 1
<1>1. reg.argument \in Arguments /\ reg.argument[1] \in 0 .. MaxReq
  BY DEF Registers, Arguments
<1>2. 1 \in Blocks
  BY SdcAssumption DEF Blocks
<1>3. done \in CardStates
  BY <1>1
<1>4. reg.command \in Kinds /\ multi \in BOOLEAN
  BY DEF Registers
<1> HIDE DEF done, multi
<1>5. CASE reg.command = "plain"
  BY <1>3, <1>5 DEF CardObeys, done
<1>6. CASE reg.command = "stop"
  <2>1. CardObeys(c) = [done EXCEPT !.op = "none", !.busy = TRUE]
    BY <1>6 DEF CardObeys, done
  <2> QED BY <1>3, <2>1
<1>7. CASE reg.command = "read"
  <2>1. CardObeys(c) = [done EXCEPT !.op = "read", !.id = reg.argument[1], !.next = 1,
                                    !.multi = multi]
    BY <1>7 DEF CardObeys, done, multi
  <2> QED BY <1>1, <1>2, <1>3, <1>4, <2>1
<1>8. CASE reg.command = "write"
  <2>1. CardObeys(c) = [done EXCEPT !.op = "write", !.id = reg.argument[1],
                                    !.stored = <<>>, !.multi = multi]
    BY <1>8 DEF CardObeys, done, multi
  <2>2. <<>> \in Seq(BlockNames)
    OBVIOUS
  <2> QED BY <1>1, <1>3, <1>4, <2>1, <2>2
<1> QED
  BY <1>4, <1>5, <1>6, <1>7, <1>8 DEF Kinds

LEMMA MovesTypes ==
    ASSUME SdcTypeOK, NEW block \in CardBlocks, block # "none"
    PROVE  CardMoves(card, block) \in CardStates
<1> USE DEF SdcTypeOK, CardStates
<1> DEFINE next == IF card.op = "read" /\ card.next < MaxBlocks THEN card.next + 1
                   ELSE card.next
           stored == IF card.op = "write" /\ block = "good" /\ Len(card.stored) < MaxBlocks
                     THEN Append(card.stored, Head(fifo)) ELSE card.stored
           kind == IF card.multi THEN card.op ELSE "none"
<1>1. next \in Blocks
  BY SdcAssumption DEF Blocks
<1>2. stored \in Seq(BlockNames)
  <2>1. card.op = "write" => fifo # <<>>
    BY DEF CardBlocks
  <2> QED BY <2>1
<1>3. kind \in {"none", "read", "write"}
  OBVIOUS
<1>4. CardMoves(card, block) = [card EXCEPT !.op = kind, !.next = next, !.stored = stored]
  BY DEF CardMoves
<1> HIDE DEF next, stored, kind
<1> QED
  BY <1>1, <1>2, <1>3, <1>4

LEMMA CardTypes ==
    ASSUME SdcTypeOK, NEW answer, NEW block \in CardBlocks, CardStep(answer, block)
    PROVE  card' \in CardStates
<1> DEFINE given_up == IF datm'.d = "abort" THEN [card EXCEPT !.op = "none"] ELSE card
           moved == IF block = "none" THEN given_up ELSE CardMoves(card, block)
<1>1. given_up \in CardStates
  BY DEF SdcTypeOK, CardStates
<1>2. moved \in CardStates
  BY <1>1, MovesTypes
<1>3. card' = IF answer = "none" THEN moved ELSE CardObeys(moved)
  BY DEF CardStep
<1> HIDE DEF moved
<1>4. CardObeys(moved) \in CardStates
  BY <1>2, ObeysTypes
<1> QED
  BY <1>2, <1>3, <1>4

\* A clock edge.
LEMMA TickTypes ==
    ASSUME SdcTypeOK, EngineInv, Tick
    PROVE  SdcTypeOK'
<1>1. PICK answer \in CardAnswers, block \in CardBlocks :
          /\ CmdMaster /\ CmdHost(answer) /\ DataStart
          /\ DataMaster /\ DataHost(block) /\ DataFifo(block)
          /\ CardStep(answer, block) /\ LoadAddress
          /\ reg' = [reg EXCEPT !.cmd_start = FALSE, !.cmd_int_rst = FALSE,
                                !.dat_int_rst = FALSE]
          /\ UNCHANGED mem
  BY DEF Tick
<1>2. reg' \in Registers
  BY <1>1 DEF SdcTypeOK, Registers
<1>3. cmdm' \in CmdMasters /\ cmdh' \in CmdHosts /\ start' \in Starts
  BY <1>1, CmdMasterTypes, CmdHostTypes, StartTypes
<1>4. datm' \in DataMasters /\ dath' \in DataHosts
  BY <1>1, DataMasterTypes, DataHostTypes
<1>5. fifo' \in Seq(BlockNames) /\ Len(fifo') <= FifoLen
  BY <1>1, FifoTypes
<1>6. card' \in CardStates
  BY <1>1, CardTypes
<1>7. bus' \in Buses
  <2>1. <<reg.dma_addr, 1>> \in Addresses
    BY DEF SdcTypeOK, Registers, Addresses
  <2> QED BY <1>1, <2>1 DEF LoadAddress, SdcTypeOK, Buses
<1>8. mem' \in [Reqs -> [Blocks -> BlockNames]]
  BY <1>1 DEF SdcTypeOK
<1> QED
  BY <1>2, <1>3, <1>4, <1>5, <1>6, <1>7, <1>8 DEF SdcTypeOK

\* The bus and the card on their own.
LEMMA BusTypes ==
    ASSUME SdcTypeOK, BurstBegin \/ BurstEnd \/ BurstResp
    PROVE  SdcTypeOK'
<1> USE DEF SdcTypeOK, Buses
<1>1. CASE BurstBegin
  BY <1>1 DEF BurstBegin, Bursts
<1>2. CASE BurstEnd
  <2> DEFINE burst == bus.burst
             word == IF datm.en = "rx" /\ fifo # <<>> THEN Head(fifo) ELSE NoBlock
             read == IF InBuffer(burst.adr)
                     THEN mem[burst.adr[1]][burst.adr[2]] ELSE NoBlock
  <2>1. NoBlock \in BlockNames
    BY SdcAssumption DEF NoBlock, BlockNames
  <2>2. word \in BlockNames /\ read \in BlockNames
    BY <2>1 DEF InBuffer
  <2>3. bus' \in Buses
    <3>1. <<bus.adr[1], bus.adr[2] + 1>> \in Addresses
      BY DEF Addresses
    <3>2. NoBurst \in Bursts
      BY SdcAssumption DEF NoBurst, Bursts, Addresses
    <3>3. burst.adr[1] \in 0 .. MaxReq
      BY DEF Bursts, Addresses
    <3>4. Append(bus.resp, burst.adr[1]) \in Seq(0 .. MaxReq)
      BY <3>3
    <3>5. PICK r \in Seq(0 .. MaxReq) :
              bus' = [adr |-> <<bus.adr[1], bus.adr[2] + 1>>, burst |-> NoBurst,
                      resp |-> r]
      BY <1>2, <3>4 DEF BurstEnd
    <3> QED BY <3>1, <3>2, <3>5
  <2>4. mem' \in [Reqs -> [Blocks -> BlockNames]]
    <3>1. \/ mem' = mem
          \/ /\ InBuffer(burst.adr)
             /\ mem' = [mem EXCEPT ![burst.adr[1]][burst.adr[2]] = word]
      BY <1>2 DEF BurstEnd
    <3> HIDE DEF word
    <3> QED BY <2>2, <3>1 DEF InBuffer
  <2>5. fifo' \in Seq(BlockNames) /\ Len(fifo') <= FifoLen
    <3>1. \/ fifo' = fifo
          \/ fifo # <<>> /\ fifo' = Tail(fifo)
          \/ Len(fifo) < FifoLen /\ fifo' = Append(fifo, read)
      BY <1>2 DEF BurstEnd
    <3>2. FifoLen \in Nat
      BY SdcAssumption
    <3> HIDE DEF read
    <3>3. CASE fifo # <<>> /\ fifo' = Tail(fifo)
      BY <3>2, <3>3
    <3>4. CASE Len(fifo) < FifoLen /\ fifo' = Append(fifo, read)
      BY <2>2, <3>2, <3>4
    <3> QED BY <3>1, <3>3, <3>4
  <2> HIDE DEF burst, word, read
  <2> QED BY <1>2, <2>3, <2>4, <2>5 DEF BurstEnd
<1>3. CASE BurstResp
  <2>1. Tail(bus.resp) \in Seq(0 .. MaxReq)
    BY <1>3 DEF BurstResp
  <2> QED BY <1>3, <2>1 DEF BurstResp
<1> QED
  BY <1>1, <1>2, <1>3

LEMMA SdcTypes ==
    ASSUME SdcTypeOK, EngineInv, SdcNext
    PROVE  SdcTypeOK'
<1>1. CASE CardReady \/ CardChange
  BY <1>1 DEF SdcTypeOK, CardStates, CardReady, CardChange
<1> QED
  BY <1>1, TickTypes, BusTypes DEF SdcNext

-----------------------------------------------------------------------------
(* Data master and data host.                                              *)

\* Where the data host goes in a clock edge.
LEMMA DataHostMoves ==
    ASSUME SdcTypeOK, NEW block \in CardBlocks, DataHost(block)
    PROVE  /\ dath'.state = "READ" =>
                  datm.d # "abort" /\ (dath.state = "READ" \/ datm.d = "read")
           /\ dath'.state = "WRITE" =>
                  datm.d # "abort" /\ (dath.state = "WRITE" \/ datm.d = "write")
           /\ dath'.state \in {"IDLE", "READ", "WRITE"}
           /\ datm.d \notin {"none", "abort"} => dath'.state # "IDLE"
           /\ datm.d = "none" /\ dath.state = "IDLE" => dath'.state = "IDLE"
<1>1. dath'.state \in {"IDLE", "READ", "WRITE"}
  BY DataHostTypes DEF DataHosts
<1> USE DEF SdcTypeOK, DataHosts, DataMasters
<1>2. CASE DataHostIdle
  <2>1. dath'.state = CASE datm.d = "read" -> "READ"
                        [] datm.d = "write" -> "WRITE"
                        [] OTHER -> "IDLE"
    BY <1>2 DEF DataHostIdle
  <2>2. CASE datm.d = "read"
    BY <1>2, <2>1, <2>2 DEF DataHostIdle
  <2>3. CASE datm.d = "write"
    BY <1>2, <2>1, <2>3 DEF DataHostIdle
  <2>4. CASE datm.d \notin {"read", "write"}
    BY <2>1, <2>4
  <2> QED BY <2>2, <2>3, <2>4
<1>3. CASE DataHostBlock(block)
  <2>1. block \in {"none", "good", "bad"}
    BY DEF CardBlocks
  <2>2. /\ dath'.state \in {dath.state, "IDLE"}
        /\ datm.d # "none" => dath' = dath
    <3>1. CASE block = "none"
      BY <1>3, <3>1 DEF DataHostBlock
    <3>2. CASE block = "good" /\ dath.blkcnt > 1
      BY <1>3, <3>2 DEF DataHostBlock, CardBlocks
    <3>3. CASE block # "none" /\ ~(block = "good" /\ dath.blkcnt > 1)
      BY <1>3, <3>3 DEF DataHostBlock, CardBlocks
    <3> QED BY <3>1, <3>2, <3>3
  <2> QED BY <1>3, <2>2 DEF DataHostBlock
<1>4. CASE DataHostAbort
  BY <1>4 DEF DataHostAbort
<1> QED
  BY <1>1, <1>2, <1>3, <1>4 DEF DataHost

\* A clock edge keeps them in step.
LEMMA EngineTick ==
    ASSUME SdcTypeOK, EngineInv, Tick
    PROVE  EngineInv'
<1>1. PICK block \in CardBlocks : DataMaster /\ DataHost(block)
  BY DEF Tick
<1>2. /\ dath'.state = "READ" =>
                datm.d # "abort" /\ (dath.state = "READ" \/ datm.d = "read")
      /\ dath'.state = "WRITE" =>
                datm.d # "abort" /\ (dath.state = "WRITE" \/ datm.d = "write")
      /\ dath'.state \in {"IDLE", "READ", "WRITE"}
      /\ datm.d \notin {"none", "abort"} => dath'.state # "IDLE"
      /\ datm.d = "none" /\ dath.state = "IDLE" => dath'.state = "IDLE"
  BY <1>1, DataHostMoves
<1>3. datm \in DataMasters /\ dath.state \in {"IDLE", "READ", "WRITE"}
  BY DEF SdcTypeOK, DataHosts
<1> USE DEF EngineInv, DatStep, DataMasters
<1>4. CASE DatIdle
  BY <1>2, <1>3, <1>4 DEF DatIdle
<1>5. CASE DatStartRx
  BY <1>2, <1>3, <1>5 DEF DatStartRx, DataHostBusy
<1>6. CASE DatStartTx
  BY <1>2, <1>3, <1>6 DEF DatStartTx, DataHostBusy
<1>7. CASE DatFails
  BY <1>2, <1>3, <1>7 DEF DatFails
<1>8. CASE DatTimesOut
  BY <1>2, <1>3, <1>8 DEF DatTimesOut
<1>9. CASE DatCompletes
  BY <1>2, <1>3, <1>9 DEF DatCompletes, DatComplete, DataHostBusy
<1>10. CASE DatRuns
  BY <1>2, <1>3, <1>10 DEF DatRuns
<1> QED
  BY <1>1, <1>4, <1>5, <1>6, <1>7, <1>8, <1>9, <1>10 DEF DataMaster

-----------------------------------------------------------------------------
(* The command.                                                            *)

\* What the card has done last, after a clock edge.
LEMMA CardDone ==
    ASSUME SdcTypeOK, NEW answer, NEW block \in CardBlocks, CardStep(answer, block)
    PROVE  card'.done = IF answer = "none" THEN card.done ELSE reg.argument
<1> DEFINE given_up == IF datm'.d = "abort" THEN [card EXCEPT !.op = "none"] ELSE card
           moved == IF block = "none" THEN given_up ELSE CardMoves(card, block)
<1>1. given_up.done = card.done
  BY DEF SdcTypeOK, CardStates
<1>2. CardMoves(card, block).done = card.done
  BY DEF SdcTypeOK, CardStates, CardMoves
<1>3. moved.done = card.done
  BY <1>1, <1>2
<1>4. moved \in CardStates
  <2>1. given_up \in CardStates
    BY DEF SdcTypeOK, CardStates
  <2> QED BY <2>1, MovesTypes
<1>5. card' = IF answer = "none" THEN moved ELSE CardObeys(moved)
  BY DEF CardStep
<1> HIDE DEF moved
<1>6. CardObeys(moved).done = reg.argument
  <2>1. reg.command \in {"plain", "stop", "read", "write"}
    BY DEF SdcTypeOK, Registers, Kinds
  <2>2. CASE reg.command = "plain"
    BY <1>4, <2>2 DEF CardObeys, CardStates
  <2>3. CASE reg.command = "stop"
    BY <1>4, <2>3 DEF CardObeys, CardStates
  <2>4. CASE reg.command = "read"
    BY <1>4, <2>4 DEF CardObeys, CardStates
  <2>5. CASE reg.command = "write"
    BY <1>4, <2>5 DEF CardObeys, CardStates
  <2> QED BY <2>1, <2>2, <2>3, <2>4, <2>5
<1> QED
  BY <1>3, <1>5, <1>6

\* Where the command host goes in a clock edge.
LEMMA CmdHostMoves ==
    ASSUME SdcTypeOK, CmdBlocksInv, NEW answer \in CardAnswers, CmdHost(answer)
    PROVE  /\ cmdh'.state \in {"INIT", "IDLE", "SEND", "WAIT"}
           /\ answer # "none" => cmdh.state = "SEND" /\ ~cmdm.go_idle
           /\ cmdh'.finish # "no" => cmdh'.state = "IDLE" /\ answer # "none"
           /\ cmdm.go_idle => cmdh'.state = "INIT"
           /\ cmdh'.state \in {"SEND", "WAIT"} =>
                  cmdh.state \in {"SEND", "WAIT"} \/ cmdm.start_xfr
<1>1. cmdh \in CmdHosts /\ cmdh'.state \in {"INIT", "IDLE", "SEND", "WAIT"}
  BY CmdHostTypes DEF SdcTypeOK, CmdHosts
<1>2. answer # "none" => cmdh.state = "SEND" /\ ~cmdm.go_idle
  BY DEF CardAnswers
<1>3. answer \in {"none", "lost", "good", "bad"}
  BY DEF CardAnswers
<1> USE DEF CmdBlocksInv, CmdHosts
<1>4. CASE CmdHostInit
  BY <1>1, <1>2, <1>4 DEF CmdHostInit
<1>5. CASE CmdHostWarmUp
  BY <1>1, <1>2, <1>5 DEF CmdHostWarmUp
<1>6. CASE CmdHostIdle
  BY <1>1, <1>2, <1>6 DEF CmdHostIdle
<1>7. CASE CmdHostSend(answer)
  <2>1. CASE answer = "none"
    BY <1>1, <1>7, <2>1 DEF CmdHostSend
  <2>2. CASE answer = "lost"
    BY <1>1, <1>2, <1>7, <2>2 DEF CmdHostSend
  <2>3. CASE answer \in {"good", "bad"}
    BY <1>1, <1>2, <1>7, <2>3 DEF CmdHostSend
  <2> QED BY <1>3, <2>1, <2>2, <2>3
<1> QED
  BY <1>4, <1>5, <1>6, <1>7 DEF CmdHost

\* A clock edge keeps the blocks of the command in step.
LEMMA CmdBlocksTick ==
    ASSUME SdcTypeOK, CmdBlocksInv, Tick
    PROVE  CmdBlocksInv'
<1>1. PICK answer \in CardAnswers : CmdMaster /\ CmdHost(answer)
  BY DEF Tick
<1>2. /\ cmdh'.state \in {"INIT", "IDLE", "SEND", "WAIT"}
      /\ answer # "none" => cmdh.state = "SEND" /\ ~cmdm.go_idle
      /\ cmdh'.finish # "no" => cmdh'.state = "IDLE" /\ answer # "none"
      /\ cmdm.go_idle => cmdh'.state = "INIT"
      /\ cmdh'.state \in {"SEND", "WAIT"} =>
             cmdh.state \in {"SEND", "WAIT"} \/ cmdm.start_xfr
  BY <1>1, CmdHostMoves
<1>3. cmdm \in CmdMasters /\ cmdh.state \in {"INIT", "IDLE", "SEND", "WAIT"}
  BY DEF SdcTypeOK, CmdHosts
<1> USE DEF CmdBlocksInv, CmdStep, CmdMasters
<1>4. CASE CmdIdle
  BY <1>2, <1>3, <1>4 DEF CmdIdle
<1>5. CASE CmdStart
  BY <1>2, <1>3, <1>5 DEF CmdStart
<1>6. CASE CmdTimedOut
  BY <1>2, <1>3, <1>6 DEF CmdTimedOut
<1>7. CASE CmdAnswered
  BY <1>2, <1>3, <1>7 DEF CmdAnswered
<1>8. CASE CmdWaits
  BY <1>2, <1>3, <1>8 DEF CmdWaits
<1>9. CASE CmdBusyCheck
  BY <1>2, <1>3, <1>9 DEF CmdBusyCheck
<1> QED
  BY <1>1, <1>4, <1>5, <1>6, <1>7, <1>8, <1>9 DEF CmdMaster

\* A command that is over stays over, with its status until that is cleared, and the
\* clear leaves nothing of it.
LEMMA CmdOverTick ==
    ASSUME SdcTypeOK, CmdBlocksInv, Tick, cmdm.state = "IDLE", ~reg.cmd_start
    PROVE  /\ cmdm'.state = "IDLE"
           /\ cmdm'.status = IF reg.cmd_int_rst THEN {} ELSE cmdm.status
           /\ reg.cmd_int_rst \/ cmdm.status = {} => CmdQuiet'
<1>1. PICK answer \in CardAnswers : CmdMaster /\ CmdHost(answer)
  BY DEF Tick
<1>2. /\ answer # "none" => cmdh.state = "SEND" /\ ~cmdm.go_idle
      /\ cmdh'.state \in {"INIT", "IDLE", "SEND", "WAIT"}
      /\ cmdh'.finish # "no" => cmdh'.state = "IDLE" /\ answer # "none"
      /\ cmdm.go_idle => cmdh'.state = "INIT"
      /\ cmdh'.state \in {"SEND", "WAIT"} =>
             cmdh.state \in {"SEND", "WAIT"} \/ cmdm.start_xfr
  BY <1>1, CmdHostMoves
<1>3. CmdIdle
  BY <1>1 DEF CmdMaster, CmdIdle, CmdStart, CmdTimedOut, CmdAnswered, CmdWaits, CmdBusyCheck
<1> QED
  BY <1>2, <1>3 DEF CmdIdle, CmdStep, CmdBlocksInv, CmdQuiet, SdcTypeOK, CmdMasters

\* A status names how the command ended.
LEMMA CmdStatusTick ==
    ASSUME SdcTypeOK, CmdBlocksInv, Tick, cmdm.status # {} => cmdm.status \cap {"CC", "EI"} # {}
    PROVE  cmdm'.status # {} => cmdm'.status \cap {"CC", "EI"} # {}
<1>1. CmdMaster
  BY DEF Tick
<1> USE DEF CmdStep
<1>2. CASE CmdAnswered
  BY <1>2 DEF CmdAnswered
<1>3. CASE CmdTimedOut
  BY <1>3 DEF CmdTimedOut
<1>4. CASE CmdIdle \/ CmdStart \/ CmdWaits \/ CmdBusyCheck
  BY <1>4 DEF CmdIdle, CmdStart, CmdWaits, CmdBusyCheck
<1> QED
  BY <1>1, <1>2, <1>3, <1>4 DEF CmdMaster

-----------------------------------------------------------------------------
(* The start of a data transfer.                                           *)

\* What starts one.
LEMMA DataStartMoves ==
    ASSUME DataStart
    PROVE  /\ start'.rx => reg.cmd_start /\ reg.command = "read"
           /\ start'.tx => ~reg.cmd_start /\ start.prepare /\ "CC" \in CmdIntStatus
           /\ start'.prepare => \/ reg.cmd_start /\ reg.command = "write"
                                \/ ~reg.cmd_start /\ start.prepare
                                     /\ CmdIntStatus \cap {"CC", "EI"} = {}
  BY DEF DataStart

\* What the data master does with it.
LEMMA MasterMoves ==
    ASSUME SdcTypeOK, EngineInv, DataMaster
    PROVE  /\ MasterReady /\ ~start.rx /\ ~start.tx => MasterReady'
           /\ datm.state = "IDLE" => datm'.en = "off"
           /\ datm.state = "IDLE" /\ ~start.rx /\ ~start.tx => datm'.state = "IDLE"
           /\ datm.state = "IDLE" =>
                  datm'.status = IF reg.dat_int_rst THEN {} ELSE datm.status
           /\ datm.state # "IDLE" /\ datm.status = {} /\ datm'.status # {} =>
                  datm'.state = "IDLE"
           /\ datm'.en # "off" => datm.en # "off" \/ datm.state \in {"START_RX", "START_TX"}
<1>1. datm.state \in {"IDLE", "START_RX", "START_TX", "XFER"}
  BY DEF SdcTypeOK, DataMasters
<1> USE DEF MasterReady, DatStep, EngineInv
<1>2. CASE DatIdle
  BY <1>1, <1>2 DEF DatIdle
<1>3. CASE DatStartRx
  BY <1>1, <1>3 DEF DatStartRx
<1>4. CASE DatStartTx
  BY <1>1, <1>4 DEF DatStartTx
<1>5. CASE DatFails
  BY <1>1, <1>5 DEF DatFails
<1>6. CASE DatTimesOut
  BY <1>1, <1>6 DEF DatTimesOut
<1>7. CASE DatCompletes
  BY <1>1, <1>7 DEF DatCompletes
<1>8. CASE DatRuns
  BY <1>1, <1>8 DEF DatRuns
<1> QED
  BY <1>2, <1>3, <1>4, <1>5, <1>6, <1>7, <1>8 DEF DataMaster

\* An idle engine stays idle unless a data command is being sent.
LEMMA EngineReadyTick ==
    ASSUME SdcTypeOK, EngineInv, EngineReady, Tick,
           ~(reg.cmd_start /\ reg.command \in {"read", "write"})
    PROVE  EngineReady'
<1>1. DataStart /\ DataMaster
  BY DEF Tick
<1> QED
  BY <1>1, DataStartMoves, MasterMoves DEF EngineReady, NoStart
=============================================================================

------------------------- MODULE UartDriver_proofs -------------------------
(***************************************************************************)
(* Proofs about UartDriver, for every size of the FIFOs, every number of   *)
(* characters and every MAX_CHARS_PER_INTERRUPT.                           *)
(***************************************************************************)
EXTENDS UartProps, TLAPS

-----------------------------------------------------------------------------
(* Types and calls.                                                        *)

\* Positions computed from slots are slots.
LEMMA RingTypes ==
    /\ 0 \in Slots
    /\ \A i \in Slots : i \in Int /\ RingNext(i) \in Slots
    /\ \A i, j \in Slots : RingDist(i, j) \in Slots
  BY RingMaskAssumption DEF Slots, RingNext, RingDist

\* Every step keeps the types.
LEMMA TypeStep ==
    ASSUME TypeOK, CallInv, [Next]_vars
    PROVE  TypeOK'
<1> USE DriverAssumption, UartAssumption, RingTypes
<1> USE DEF TypeOK, UartTypeOK, CallInv, Control, Quiet, Goto, Lock, Unlock, SetControl,
           WriteTx, WriteFlowChar, PopTx, PopRx, StoreRx, uartVars, rxSide, rxFifo, txSide, txFifo,
           uartDrvVars, lockVars, txLocal, rxLocal,
           tty
<1>1. CASE Uart
  <2>1. CASE SendFlowChar /\ UNCHANGED uartDrvVars
    BY <2>1 DEF SendFlowChar
  <2>2. CASE SendChar /\ UNCHANGED uartDrvVars
    BY <2>2 DEF SendChar
  <2>3. CASE PeerSends /\ UNCHANGED uartDrvVars
    BY <2>3 DEF PeerSends
  <2>4. CASE ReceiveChar /\ UNCHANGED uartDrvVars
    <3>1. rx_line' \in BOOLEAN
      BY <2>4 DEF ReceiveChar
    <3>2. arrived < MaxRx /\ arrived' = arrived + 1
      BY <2>4 DEF ReceiveChar
    <3>3. arrived' \in 0 .. MaxRx
      BY <3>2
    <3>4. rx_buf' \in [Slots -> 0 .. MaxRx]
      BY <2>4, <3>3 DEF ReceiveChar
    <3> QED BY <2>4, <3>1, <3>3, <3>4 DEF ReceiveChar
  <2> QED
    BY <1>1, <2>1, <2>2, <2>3, <2>4 DEF Uart, UartNext
<1>2. CASE Transmit
  <2>1. CASE TransmitBegin
    <3>1. ctl' \in Control
      BY <2>1 DEF TransmitBegin
    <3>2. tx_cnt' \in 0 .. MaxChars
      BY <2>1 DEF TransmitBegin
    <3> QED BY <2>1, <3>1, <3>2 DEF TransmitBegin
  <2>2. CASE TransmitIeOff
    BY <2>2 DEF TransmitIeOff
  <2>3. CASE TransmitXChar
    BY <2>3 DEF TransmitXChar
  <2>4. CASE TransmitStopped
    BY <2>4 DEF TransmitStopped
  <2>5. CASE TransmitRunning
    BY <2>5, ZenonT(30) DEF TransmitRunning
  <2>6. CASE TransmitRoom
    BY <2>6 DEF TransmitRoom
  <2>7. CASE TransmitIeOn
    BY <2>7, ZenonT(30) DEF TransmitIeOn
  <2>8. CASE TransmitPut
    BY <2>8 DEF TransmitPut
  <2>9. CASE TransmitLimit
    BY <2>9 DEF TransmitLimit
  <2>10. CASE TransmitReturn
    <3>1. ctl' = ctl \/ ctl' = Quiet
      BY <2>10 DEF TransmitReturn
    <3>2. ctl' \in Control
      <4>1. CASE ctl' = ctl
        BY <4>1
      <4>2. CASE ctl' = Quiet
        BY <4>2
      <4> QED BY <3>1, <4>1, <4>2
    <3> QED BY <2>10, <3>2 DEF TransmitReturn
  <2> QED
    BY <1>2, <2>1, <2>2, <2>3, <2>4, <2>5, <2>6, <2>7, <2>8, <2>9, <2>10 DEF Transmit
<1>3. CASE Isr
  <2>1. CASE IrqDispatch
    BY <2>1 DEF IrqDispatch
  <2>2. CASE IsrEnter
    BY <2>2 DEF IsrEnter
  <2>3. CASE ReceiveTake
    BY <2>3 DEF ReceiveTake
  <2>4. CASE IsrExit
    <3>1. ctl' \in Control
      BY <2>4 DEF IsrExit
    <3>2. irq_wait' \in BOOLEAN
      BY <2>4 DEF IsrExit
    <3>3. rx_cnt' \in 0 .. MaxChars
      BY <2>4 DEF IsrExit
    <3> QED BY <2>4, <3>1, <3>2, <3>3 DEF IsrExit
  <2> QED
    BY <1>3, <2>1, <2>2, <2>3, <2>4 DEF Isr
<1>4. CASE SerialCore
  <2>1. CASE UserWrites
    BY <2>1 DEF UserWrites
  <2>2. CASE SendXChar
    BY <2>2 DEF SendXChar
  <2>3. CASE SetStopped
    BY <2>3 DEF SetStopped
  <2>4. CASE StopOrStartTx
    <3>1. flow_call' \in BOOLEAN
      BY <2>4 DEF StopOrStartTx
    <3> QED BY <2>4, <3>1 DEF StopOrStartTx
  <2> QED
    BY <1>4, <2>1, <2>2, <2>3, <2>4 DEF SerialCore
<1>5. CASE Startup
  <2>1. CASE StartupIrq
    BY <2>1 DEF StartupIrq
  <2>2. CASE StartupEnable
    <3>1. control' \in Control
      BY <2>2 DEF StartupEnable
    <3> QED BY <2>2, <3>1 DEF StartupEnable
  <2> QED
    BY <1>5, <2>1, <2>2 DEF Startup
<1>6. CASE Shutdown
  <2>1. CASE CloseBegin
    BY <2>1 DEF CloseBegin
  <2>2. CASE StopRxEnter
    BY <2>2 DEF StopRxEnter
  <2>3. CASE StopRx
    BY <2>3 DEF StopRx
  <2>4. CASE ShutdownOff
    BY <2>4 DEF ShutdownOff
  <2>5. CASE ShutdownIrq
    <3>1. stopped' \in BOOLEAN
      BY <2>5 DEF ShutdownIrq
    <3> QED BY <2>5, <3>1 DEF ShutdownIrq
  <2> QED
    BY <1>6, <2>1, <2>2, <2>3, <2>4, <2>5 DEF Shutdown
<1>7. CASE Console
  <2>1. CASE ConsoleEnter
    BY <2>1 DEF ConsoleEnter
  <2>2. CASE ConsoleStart
    <3>1. control' \in Control
      BY <2>2 DEF ConsoleStart
    <3> QED BY <2>2, <3>1 DEF ConsoleStart
  <2>3. CASE ConsolePut
    BY <2>3 DEF ConsolePut
  <2>4. CASE ConsoleEnd
    <3>1. ctl' = ctl \/ ctl' = Quiet
      BY <2>4 DEF ConsoleEnd
    <3>2. ctl' \in Control
      <4>1. CASE ctl' = ctl
        BY <4>1
      <4>2. CASE ctl' = Quiet
        BY <4>2
      <4> QED BY <3>1, <4>1, <4>2
    <3> QED BY <2>4, <3>2 DEF ConsoleEnd
  <2>5. CASE ConsoleRestore
    BY <2>5 DEF ConsoleRestore
  <2> QED
    BY <1>7, <2>1, <2>2, <2>3, <2>4, <2>5 DEF Console
<1>8. CASE UNCHANGED vars
  BY <1>8 DEF vars
<1> QED
  BY <1>1, <1>2, <1>3, <1>4, <1>5, <1>6, <1>7, <1>8 DEF Next

\* Every step keeps the order of calls.
LEMMA CallStep ==
    ASSUME TypeOK, CallInv, [Next]_vars
    PROVE  CallInv'
<1> USE DEF TypeOK, UartTypeOK, CallInv, TxFull, Goto, Lock, Unlock, SetControl,
           WriteTx, WriteFlowChar, PopTx, PopRx, StoreRx, uartVars, rxSide, rxFifo, txSide, txFifo,
           uartDrvVars, lockVars, txLocal, rxLocal,
           tty
<1>1. CASE Uart
  <2>1. CASE SendFlowChar /\ UNCHANGED uartDrvVars
    BY <2>1 DEF SendFlowChar
  <2>2. CASE SendChar /\ UNCHANGED uartDrvVars
    <3>1. ~TxEmpty => (~TxFull => RingNext(tx_inp_pos) # RingNext(tx_out_pos))
      BY RingMaskAssumption DEF TxEmpty, RingNext, Slots
    <3> QED BY <2>2, <3>1 DEF SendChar
  <2>3. CASE PeerSends /\ UNCHANGED uartDrvVars
    BY <2>3 DEF PeerSends
  <2>4. CASE ReceiveChar /\ UNCHANGED uartDrvVars
    BY <2>4 DEF ReceiveChar
  <2> QED
    BY <1>1, <2>1, <2>2, <2>3, <2>4 DEF Uart, UartNext
<1>2. CASE Transmit
  <2>1. CASE TransmitBegin
    BY <2>1 DEF TransmitBegin
  <2>2. CASE TransmitIeOff
    BY <2>2 DEF TransmitIeOff
  <2>3. CASE TransmitXChar
    BY <2>3 DEF TransmitXChar
  <2>4. CASE TransmitStopped
    BY <2>4 DEF TransmitStopped
  <2>5. CASE TransmitRunning
    BY <2>5 DEF TransmitRunning
  <2>6. CASE TransmitRoom
    BY <2>6 DEF TransmitRoom
  <2>7. CASE TransmitIeOn
    BY <2>7 DEF TransmitIeOn
  <2>8. CASE TransmitPut
    BY <2>8 DEF TransmitPut
  <2>9. CASE TransmitLimit
    BY <2>9 DEF TransmitLimit
  <2>10. CASE TransmitReturn
    BY <2>10 DEF TransmitReturn
  <2> QED
    BY <1>2, <2>1, <2>2, <2>3, <2>4, <2>5, <2>6, <2>7, <2>8, <2>9, <2>10 DEF Transmit
<1>3. CASE Isr
  <2>1. CASE IrqDispatch
    BY <2>1 DEF IrqDispatch
  <2>2. CASE IsrEnter
    BY <2>2 DEF IsrEnter
  <2>3. CASE ReceiveTake
    BY <2>3 DEF ReceiveTake
  <2>4. CASE IsrExit
    BY <2>4 DEF IsrExit
  <2> QED
    BY <1>3, <2>1, <2>2, <2>3, <2>4 DEF Isr
<1>4. CASE SerialCore
  <2>1. CASE UserWrites
    BY <2>1 DEF UserWrites
  <2>2. CASE SendXChar
    BY <2>2 DEF SendXChar
  <2>3. CASE SetStopped
    BY <2>3 DEF SetStopped
  <2>4. CASE StopOrStartTx
    BY <2>4 DEF StopOrStartTx
  <2> QED
    BY <1>4, <2>1, <2>2, <2>3, <2>4 DEF SerialCore
<1>5. CASE Startup
  <2>1. CASE StartupIrq
    BY <2>1 DEF StartupIrq
  <2>2. CASE StartupEnable
    BY <2>2 DEF StartupEnable
  <2> QED
    BY <1>5, <2>1, <2>2 DEF Startup
<1>6. CASE Shutdown
  <2>1. CASE CloseBegin
    BY <2>1 DEF CloseBegin
  <2>2. CASE StopRxEnter
    BY <2>2 DEF StopRxEnter
  <2>3. CASE StopRx
    BY <2>3 DEF StopRx
  <2>4. CASE ShutdownOff
    BY <2>4 DEF ShutdownOff
  <2>5. CASE ShutdownIrq
    BY <2>5 DEF ShutdownIrq
  <2> QED
    BY <1>6, <2>1, <2>2, <2>3, <2>4, <2>5 DEF Shutdown
<1>7. CASE Console
  <2>1. CASE ConsoleEnter
    BY <2>1 DEF ConsoleEnter
  <2>2. CASE ConsoleStart
    BY <2>2 DEF ConsoleStart
  <2>3. CASE ConsolePut
    BY <2>3 DEF ConsolePut
  <2>4. CASE ConsoleEnd
    BY <2>4 DEF ConsoleEnd
  <2>5. CASE ConsoleRestore
    BY <2>5 DEF ConsoleRestore
  <2> QED
    BY <1>7, <2>1, <2>2, <2>3, <2>4, <2>5 DEF Console
<1>8. CASE UNCHANGED vars
  BY <1>8 DEF vars
<1> QED
  BY <1>1, <1>2, <1>3, <1>4, <1>5, <1>6, <1>7, <1>8 DEF Next
\* Types and the order of calls, in every reachable state: positions stay inside
\* the FIFOs, no call moves more than MAX_CHARS_PER_INTERRUPT characters, and
\* nothing of the driver but its handler runs on a closed port.
THEOREM UartTypeCorrect == Spec => [](TypeOK /\ CallInv)
<1>1. Init => TypeOK /\ CallInv
  <2> SUFFICES ASSUME Init PROVE TypeOK /\ CallInv
    OBVIOUS
  <2>0. 0 \in 0 .. MaxRx /\ 0 \in 0 .. MaxTty /\ 0 \in 0 .. MaxChars /\ 0 \in 0 .. MaxCon
    BY UartAssumption, DriverAssumption
  <2>1. UartTypeOK
    <3>1. rx_buf \in [Slots -> 0 .. MaxRx] /\ tx_buf \in [Slots -> 0 .. MaxTty]
      BY <2>0 DEF Init, UartInit
    <3>2. rx_line \in BOOLEAN
      BY DEF Init, UartInit
    <3>3. control \in Control
      BY DEF Init, UartInit, Control, Quiet
    <3> QED BY <2>0, <3>1, <3>2, <3>3, RingTypes DEF Init, UartInit, UartTypeOK
  <2>2. ctl \in Control
    BY DEF Init, Control, Quiet
  <2>3. stopped \in BOOLEAN /\ flow_call \in BOOLEAN /\ irq_wait \in BOOLEAN
    BY DEF Init
  <2>4. TypeOK
    BY <2>0, <2>1, <2>2, <2>3 DEF Init, TypeOK
  <2>5. CallInv
    BY DEF Init, UartInit, CallInv
  <2> QED BY <2>4, <2>5
<1>2. TypeOK /\ CallInv /\ [Next]_vars => (TypeOK /\ CallInv)'
  BY TypeStep, CallStep
<1> QED
  BY <1>1, <1>2, PTL DEF Spec

-----------------------------------------------------------------------------
(* A FIFO and what it holds.                                               *)

\* The positions of a FIFO that is not full, when one more comes in.
LEMMA FifoPut ==
    ASSUME NEW out \in Slots, NEW inp \in Slots, RingNext(inp) # out
    PROVE  /\ RingDist(out, inp) \in Nat
           /\ RingDist(out, RingNext(inp)) = RingDist(out, inp) + 1
           /\ RingAdvance(out, RingDist(out, inp)) = inp
           /\ \A n \in 1 .. RingDist(out, inp) :
                 RingAdvance(out, n - 1) \in Slots \ {inp}
  BY RingMaskAssumption DEF RingDist, RingNext, RingAdvance, Slots

\* The positions of a FIFO that is not empty, when the oldest is taken.
LEMMA FifoTake ==
    ASSUME NEW out \in Slots, NEW inp \in Slots, inp # out
    PROVE  /\ RingDist(out, inp) \in Nat \ {0}
           /\ RingDist(RingNext(out), inp) = RingDist(out, inp) - 1
           /\ RingAdvance(out, 0) = out
           /\ \A n \in 1 .. RingDist(out, inp) - 1 :
                 RingAdvance(RingNext(out), n - 1) = RingAdvance(out, n)
  BY RingMaskAssumption DEF RingDist, RingNext, RingAdvance, Slots

\* Taking from a FIFO leaves room in it.
LEMMA FifoRoom ==
    ASSUME NEW out \in Slots, NEW inp \in Slots, inp # out
    PROVE  RingNext(inp) # RingNext(out)
  BY RingMaskAssumption DEF RingNext, Slots

\* A write to a transmit FIFO that has room adds one more at the end.
LEMMA TxPut ==
    ASSUME TypeOK, ~TxFull, NEW c, WriteTx(c)
    PROVE  LET d == RingDist(tx_out_pos, tx_inp_pos)
               q == TxInFifo
               r == TxInFifo'
           IN  /\ d \in Nat /\ DOMAIN q = 1 .. d /\ DOMAIN r = 1 .. d + 1
               /\ \A i \in 1 .. d : r[i] = q[i]
               /\ r[d + 1] = c
<1> DEFINE d == RingDist(tx_out_pos, tx_inp_pos)
           q == TxInFifo
           r == TxInFifo'
<1>1. /\ tx_buf' = [tx_buf EXCEPT ![tx_inp_pos] = c]
      /\ tx_inp_pos' = RingNext(tx_inp_pos) /\ tx_out_pos' = tx_out_pos
      /\ RingNext(tx_inp_pos) # tx_out_pos
  BY DEF TxFull, WriteTx
<1>2. tx_out_pos \in Slots /\ tx_inp_pos \in Slots /\ DOMAIN tx_buf = Slots
  BY DEF TypeOK, UartTypeOK
<1>3. /\ d \in Nat /\ RingDist(tx_out_pos, RingNext(tx_inp_pos)) = d + 1
      /\ RingAdvance(tx_out_pos, d) = tx_inp_pos
      /\ \A n \in 1 .. d : RingAdvance(tx_out_pos, n - 1) \in Slots \ {tx_inp_pos}
  BY <1>1, <1>2, FifoPut
<1>4. tx_buf'[tx_inp_pos] = c /\ \A s \in Slots \ {tx_inp_pos} : tx_buf'[s] = tx_buf[s]
  BY <1>1, <1>2
<1>5. /\ q = [n \in 1 .. d |-> tx_buf[RingAdvance(tx_out_pos, n - 1)]]
      /\ r = [n \in 1 .. d + 1 |-> tx_buf'[RingAdvance(tx_out_pos, n - 1)]]
  BY <1>1, <1>3 DEF TxInFifo, RingSeq
<1> HIDE DEF d, q, r
<1>6. /\ DOMAIN q = 1 .. d /\ DOMAIN r = 1 .. d + 1
      /\ \A i \in 1 .. d : q[i] = tx_buf[RingAdvance(tx_out_pos, i - 1)]
      /\ \A i \in 1 .. d + 1 : r[i] = tx_buf'[RingAdvance(tx_out_pos, i - 1)]
  BY <1>5
<1>7. \A i \in 1 .. d : i \in 1 .. d + 1
  BY <1>3
<1>8. \A i \in 1 .. d : r[i] = q[i]
  BY <1>3, <1>4, <1>6, <1>7
<1>9. d + 1 \in 1 .. d + 1 /\ (d + 1) - 1 = d
  BY <1>3
<1>10. r[d + 1] = c
  BY <1>3, <1>4, <1>6, <1>9
<1> QED
  BY <1>3, <1>6, <1>8, <1>10 DEF d, q, r

\* The first one taken.
LEMMA SeqTake ==
    ASSUME NEW out \in Slots, NEW inp \in Slots, inp # out, NEW f
    PROVE  LET d == RingDist(out, inp)
               q == RingSeq(f, out, inp)
               r == RingSeq(f, RingNext(out), inp)
           IN  /\ d \in Nat \ {0} /\ DOMAIN q = 1 .. d /\ DOMAIN r = 1 .. d - 1
               /\ \A i \in 1 .. d - 1 : r[i] = q[i + 1]
               /\ q[1] = f[out]
<1> DEFINE d == RingDist(out, inp)
           q == RingSeq(f, out, inp)
           r == RingSeq(f, RingNext(out), inp)
<1>1. /\ d \in Nat \ {0} /\ RingDist(RingNext(out), inp) = d - 1
      /\ RingAdvance(out, 0) = out
      /\ \A n \in 1 .. d - 1 : RingAdvance(RingNext(out), n - 1) = RingAdvance(out, n)
  BY FifoTake
<1>2. /\ q = [n \in 1 .. d |-> f[RingAdvance(out, n - 1)]]
      /\ r = [n \in 1 .. d - 1 |-> f[RingAdvance(RingNext(out), n - 1)]]
  BY <1>1 DEF RingSeq
<1> HIDE DEF d, q, r
<1>3. /\ DOMAIN q = 1 .. d /\ DOMAIN r = 1 .. d - 1
      /\ \A i \in 1 .. d : q[i] = f[RingAdvance(out, i - 1)]
      /\ \A i \in 1 .. d - 1 : r[i] = f[RingAdvance(RingNext(out), i - 1)]
  BY <1>2
<1>4. \A i \in 1 .. d - 1 : i + 1 \in 1 .. d /\ (i + 1) - 1 = i
  BY <1>1
<1>5. \A i \in 1 .. d - 1 : r[i] = q[i + 1]
  BY <1>1, <1>3, <1>4
<1>6. 1 \in 1 .. d /\ 1 - 1 = 0
  BY <1>1
<1>7. q[1] = f[out]
  BY <1>1, <1>3, <1>6
<1> QED
  BY <1>1, <1>3, <1>5, <1>7 DEF d, q, r
-----------------------------------------------------------------------------
(* Receiving.                                                              *)

\* A step that touches nothing of the receive FIFO.
LEMMA RxKept ==
    ASSUME RxFifoInv, UNCHANGED <<rxSide, delivered>>
    PROVE  RxFifoInv'
  BY DEF RxFifoInv, RxFull, rxSide, rxFifo

\* Every step keeps the receive FIFO.
LEMMA RxFifoStep ==
    ASSUME TypeOK, CallInv, RxFifoInv, [Next]_vars
    PROVE  RxFifoInv'
<1>0. /\ rx_out_pos \in Slots /\ rx_inp_pos \in Slots /\ DOMAIN rx_buf = Slots
      /\ arrived \in Nat /\ delivered \in Nat
  BY UartAssumption DEF TypeOK, UartTypeOK
<1> DEFINE d == RingDist(rx_out_pos, rx_inp_pos)
<1>1. CASE ReceiveChar /\ UNCHANGED uartDrvVars
  <2>1. /\ RingNext(rx_inp_pos) # rx_out_pos
        /\ rx_buf' = [rx_buf EXCEPT ![rx_inp_pos] = arrived + 1]
        /\ rx_inp_pos' = RingNext(rx_inp_pos) /\ rx_out_pos' = rx_out_pos
        /\ arrived' = arrived + 1 /\ delivered' = delivered /\ ~rx_line'
    BY <1>1 DEF ReceiveChar, StoreRx, RxFifoInv, RxFull, uartDrvVars, rxLocal
  <2>2. /\ d \in Nat /\ RingDist(rx_out_pos, RingNext(rx_inp_pos)) = d + 1
        /\ RingAdvance(rx_out_pos, d) = rx_inp_pos
        /\ \A n \in 1 .. d : RingAdvance(rx_out_pos, n - 1) \in Slots \ {rx_inp_pos}
    BY <1>0, <2>1, FifoPut
  <2>3. arrived = delivered + d
    BY <1>0, <2>2 DEF RxFifoInv
  <2>4. \A n \in 1 .. d : rx_buf[RingAdvance(rx_out_pos, n - 1)] = delivered + n
    BY DEF RxFifoInv
  <2>5. rx_buf'[rx_inp_pos] = arrived + 1
          /\ \A s \in Slots \ {rx_inp_pos} : rx_buf'[s] = rx_buf[s]
    BY <1>0, <2>1
  <2> HIDE DEF d
  <2>6. \A n \in 1 .. d + 1 : rx_buf'[RingAdvance(rx_out_pos, n - 1)] = delivered + n
    <3> SUFFICES ASSUME NEW n \in 1 .. d + 1
                 PROVE  rx_buf'[RingAdvance(rx_out_pos, n - 1)] = delivered + n
      OBVIOUS
    <3>1. CASE n \in 1 .. d
      BY <2>2, <2>4, <2>5, <3>1
    <3>2. CASE n = d + 1
      <4>1. n - 1 = d /\ arrived + 1 = delivered + n
        BY <1>0, <2>2, <2>3, <3>2
      <4> QED BY <2>2, <2>5, <4>1
    <3> QED BY <2>2, <3>1, <3>2
  <2>7. arrived' - delivered' = d + 1
    BY <1>0, <2>1, <2>2, <2>3
  <2> QED
    BY <2>1, <2>2, <2>6, <2>7 DEF RxFifoInv
<1>2. CASE PeerSends /\ UNCHANGED uartDrvVars
  BY <1>2 DEF PeerSends, RxFifoInv, RxFull, rxFifo, uartDrvVars, rxLocal
<1>3. CASE ReceiveTake
  <2>1. /\ rx_inp_pos # rx_out_pos
        /\ rx_out_pos' = RingNext(rx_out_pos) /\ delivered' = rx_buf[rx_out_pos]
        /\ UNCHANGED <<rx_buf, rx_inp_pos, rx_line, arrived>>
    BY <1>3 DEF ReceiveTake, PopRx, RxEmpty
  <2>2. /\ d \in Nat \ {0} /\ RingDist(RingNext(rx_out_pos), rx_inp_pos) = d - 1
        /\ RingAdvance(rx_out_pos, 0) = rx_out_pos
        /\ \A n \in 1 .. d - 1 : RingAdvance(RingNext(rx_out_pos), n - 1)
                                     = RingAdvance(rx_out_pos, n)
    BY <1>0, <2>1, FifoTake
  <2>3. arrived - delivered = d
    BY DEF RxFifoInv
  <2>4. \A n \in 1 .. d : rx_buf[RingAdvance(rx_out_pos, n - 1)] = delivered + n
    BY DEF RxFifoInv
  <2> HIDE DEF d
  <2>5. 1 \in 1 .. d /\ 1 - 1 = 0
    BY <2>2
  <2>6. delivered' = delivered + 1
    BY <2>1, <2>2, <2>4, <2>5
  <2>7. \A n \in 1 .. d - 1 :
            rx_buf'[RingAdvance(rx_out_pos', n - 1)] = delivered' + n
    <3> SUFFICES ASSUME NEW n \in 1 .. d - 1
                 PROVE  rx_buf'[RingAdvance(rx_out_pos', n - 1)] = delivered' + n
      OBVIOUS
    <3>1. n + 1 \in 1 .. d /\ (n + 1) - 1 = n
             /\ delivered + (n + 1) = (delivered + 1) + n
      BY <1>0, <2>2
    <3>2. rx_buf[RingAdvance(rx_out_pos, n)] = delivered + (n + 1)
      BY <2>4, <3>1
    <3> QED BY <2>1, <2>2, <2>6, <3>1, <3>2
  <2>8. arrived' - delivered' = d - 1
    BY <1>0, <2>1, <2>2, <2>3, <2>6
  <2>9. rx_line' => RingNext(rx_inp_pos') # rx_out_pos'
    BY <1>0, <2>1, FifoRoom
  <2> QED
    BY <2>1, <2>2, <2>7, <2>8, <2>9 DEF RxFifoInv, RxFull
<1>4. CASE UNCHANGED <<rxSide, delivered>>
  BY <1>4, RxKept
<1>5. CASE Transmit
  <2>1. UNCHANGED <<rxSide, delivered>>
    BY <1>5 DEF Transmit, TransmitBegin, TransmitIeOff, TransmitXChar, TransmitStopped,
                TransmitRunning, TransmitRoom, TransmitIeOn, TransmitPut, TransmitLimit,
                TransmitReturn, uartVars, rxLocal
  <2> QED BY <2>1, <1>4
<1>6. CASE SerialCore \/ Startup
  <2>1. UNCHANGED <<rxSide, delivered>>
    BY <1>6 DEF SerialCore, UserWrites, SendXChar, SetStopped, StopOrStartTx, Startup,
                StartupIrq, StartupEnable, uartVars, rxLocal
  <2> QED BY <2>1, <1>4
<1>7. CASE Shutdown
  <2>1. UNCHANGED <<rxSide, delivered>>
    BY <1>7 DEF Shutdown, CloseBegin, StopRxEnter, StopRx, ShutdownOff, ShutdownIrq,
                uartVars, rxLocal
  <2> QED BY <2>1, <1>4
<1>8. CASE Console
  <2>1. UNCHANGED <<rxSide, delivered>>
    BY <1>8 DEF Console, ConsoleEnter, ConsoleStart, ConsolePut, ConsoleEnd,
                ConsoleRestore, uartVars, rxLocal
  <2> QED BY <2>1, <1>4
<1>9. CASE IrqDispatch \/ IsrEnter \/ IsrExit
  BY <1>9, <1>4 DEF IrqDispatch, IsrEnter, IsrExit, uartVars, rxLocal
<1>10. CASE (SendFlowChar \/ SendChar) /\ UNCHANGED uartDrvVars
  BY <1>10, <1>4 DEF SendFlowChar, SendChar, uartDrvVars, rxLocal
<1>11. CASE UNCHANGED vars
  BY <1>11, <1>4 DEF vars, uartVars, uartDrvVars, rxLocal
<1> QED
  BY <1>1, <1>2, <1>3, <1>5, <1>6, <1>7, <1>8, <1>9, <1>10, <1>11
     DEF Next, Uart, UartNext, Isr
\* What arrives is read completely, once and in order, as long as the peer keeps
\* to RTS: the FIFO that stores a character whether it is full or not never does
\* so when it is full, whatever its size.
THEOREM RxCharsKept == Spec => []RxCharsInOrder
<1>1. Init => RxFifoInv
  <2> SUFFICES ASSUME Init PROVE RxFifoInv
    OBVIOUS
  <2>1. rx_inp_pos = 0 /\ rx_out_pos = 0 /\ ~rx_line /\ arrived = 0 /\ delivered = 0
    BY DEF Init, UartInit
  <2>2. RingDist(rx_out_pos, rx_inp_pos) = 0
    BY <2>1 DEF RingDist
  <2> QED BY <2>1, <2>2 DEF RxFifoInv
<1>2. TypeOK /\ CallInv /\ RxFifoInv /\ [Next]_vars => RxFifoInv'
  BY RxFifoStep
<1>3. TypeOK /\ RxFifoInv => RxCharsInOrder
  <2> SUFFICES ASSUME TypeOK, RxFifoInv PROVE RxCharsInOrder
    OBVIOUS
  <2> DEFINE d == RingDist(rx_out_pos, rx_inp_pos)
  <2>1. d = arrived - delivered
    BY DEF RxFifoInv
  <2>2. \A n \in 1 .. d : rx_buf[RingAdvance(rx_out_pos, n - 1)] = delivered + n
    BY DEF RxFifoInv
  <2>3. RxInFifo = [n \in 1 .. d |-> rx_buf[RingAdvance(rx_out_pos, n - 1)]]
    BY DEF RxInFifo, RingSeq
  <2> HIDE DEF d
  <2>4. RxInFifo = [n \in 1 .. d |-> delivered + n]
    BY <2>2, <2>3
  <2> QED BY <2>1, <2>4 DEF RxCharsInOrder
<1> QED
  BY <1>1, <1>2, <1>3, UartTypeCorrect, PTL DEF Spec

-----------------------------------------------------------------------------
(* Wakeups.                                                                *)

\* Every step keeps WakeInv.
LEMMA WakeStep ==
    ASSUME TypeOK, CallInv, WakeInv, [Next]_vars
    PROVE  WakeInv'
<1> USE DEF TypeOK, UartTypeOK, CallInv, WakeInv, Wake, Control, Quiet, Goto, Lock, Unlock,
           SetControl, uartVars, rxSide, txSide, uartDrvVars, lockVars, txLocal, rxLocal, tty
<1>1. CASE Uart
  <2>1. UNCHANGED <<control, uartDrvVars>>
    BY <1>1 DEF Uart, UartNext, SendFlowChar, SendChar, PeerSends, ReceiveChar
  <2> QED BY <2>1
<1>2. CASE Transmit
  <2>1. CASE TransmitBegin
    BY <2>1 DEF TransmitBegin
  <2>2. CASE TransmitIeOff
    BY <2>2 DEF TransmitIeOff
  <2>3. CASE TransmitXChar
    BY <2>3 DEF TransmitXChar
  <2>4. CASE TransmitStopped
    BY <2>4 DEF TransmitStopped
  <2>5. CASE TransmitRunning
    BY <2>5 DEF TransmitRunning
  <2>6. CASE TransmitRoom
    BY <2>6 DEF TransmitRoom
  <2>7. CASE TransmitIeOn
    BY <2>7 DEF TransmitIeOn
  <2>8. CASE TransmitPut
    BY <2>8 DEF TransmitPut
  <2>9. CASE TransmitLimit
    BY <2>9 DEF TransmitLimit
  <2>10. CASE TransmitReturn
    BY <2>10 DEF TransmitReturn
  <2> QED
    BY <1>2, <2>1, <2>2, <2>3, <2>4, <2>5, <2>6, <2>7, <2>8, <2>9, <2>10 DEF Transmit
<1>3. CASE Isr
  <2>1. CASE IrqDispatch
    BY <2>1 DEF IrqDispatch
  <2>2. CASE IsrEnter
    BY <2>2 DEF IsrEnter
  <2>3. CASE ReceiveTake
    BY <2>3 DEF ReceiveTake, PopRx
  <2>4. CASE IsrExit
    BY <2>4 DEF IsrExit
  <2> QED BY <1>3, <2>1, <2>2, <2>3, <2>4 DEF Isr
<1>4. CASE SerialCore
  <2>1. CASE UserWrites
    BY <2>1 DEF UserWrites
  <2>2. CASE SendXChar
    BY <2>2 DEF SendXChar
  <2>3. CASE SetStopped
    BY <2>3 DEF SetStopped
  <2>4. CASE StopOrStartTx
    BY <2>4 DEF StopOrStartTx
  <2> QED BY <1>4, <2>1, <2>2, <2>3, <2>4 DEF SerialCore
<1>5. CASE Startup
  BY <1>5 DEF Startup, StartupIrq, StartupEnable
<1>6. CASE Shutdown
  BY <1>6 DEF Shutdown, CloseBegin, StopRxEnter, StopRx, ShutdownOff, ShutdownIrq
<1>7. CASE Console
  <2>1. CASE ConsoleEnter
    BY <2>1 DEF ConsoleEnter
  <2>2. CASE ConsoleStart
    BY <2>2 DEF ConsoleStart
  <2>3. CASE ConsolePut
    BY <2>3 DEF ConsolePut
  <2>4. CASE ConsoleEnd
    BY <2>4 DEF ConsoleEnd
  <2>5. CASE ConsoleRestore
    BY <2>5 DEF ConsoleRestore
  <2> QED BY <1>7, <2>1, <2>2, <2>3, <2>4, <2>5 DEF Console
<1>8. CASE UNCHANGED vars
  BY <1>8 DEF vars
<1> QED
  BY <1>1, <1>2, <1>3, <1>4, <1>5, <1>6, <1>7, <1>8 DEF Next

\* The interrupt that continues output is never forgotten: when no routine runs
\* and the terminal has characters left on an open port, it is enabled, or output
\* is stopped, or the last call ended at MAX_CHARS_PER_INTERRUPT.
THEOREM WakeupNeverLost == Spec => []PendingCharsHaveWakeup
<1>1. Init => WakeInv
  BY DEF Init, WakeInv
<1>2. TypeOK /\ CallInv /\ WakeInv /\ [Next]_vars => WakeInv'
  BY WakeStep
<1>3. WakeInv => PendingCharsHaveWakeup
  BY DEF WakeInv, Wake, PendingCharsHaveWakeup
<1> QED
  BY <1>1, <1>2, <1>3, UartTypeCorrect, PTL DEF Spec
-----------------------------------------------------------------------------
(* Output stopped.                                                         *)

\* Every step keeps StopInv.
LEMMA StopStep ==
    ASSUME TypeOK, CallInv, StopInv, [Next]_vars
    PROVE  StopInv'
<1> USE DEF TypeOK, UartTypeOK, CallInv, StopInv, Control, Quiet, Goto, Lock, Unlock,
           SetControl, uartVars, rxSide, txSide, uartDrvVars, lockVars, txLocal, rxLocal, tty
<1>1. CASE Uart
  <2>1. UNCHANGED <<control, uartDrvVars>>
    BY <1>1 DEF Uart, UartNext, SendFlowChar, SendChar, PeerSends, ReceiveChar
  <2> QED BY <2>1
<1>2. CASE Transmit
  <2>1. CASE TransmitBegin
    BY <2>1 DEF TransmitBegin
  <2>2. CASE TransmitIeOff
    <3>1. /\ pc = "ie_off" /\ pc' = "loop" /\ op' = op
          /\ control' = ctl /\ ctl' = ctl
          /\ UNCHANGED <<tx_cnt, stopped, flow_call, port>>
      BY <2>2 DEF TransmitIeOff
    <3>2. tx_cnt' = 0
      BY <3>1
    <3> QED BY <3>1, <3>2
  <2>3. CASE TransmitXChar
    BY <2>3 DEF TransmitXChar
  <2>4. CASE TransmitStopped
    BY <2>4 DEF TransmitStopped
  <2>5. CASE TransmitRunning
    BY <2>5 DEF TransmitRunning
  <2>6. CASE TransmitRoom
    BY <2>6 DEF TransmitRoom
  <2>7. CASE TransmitIeOn
    BY <2>7 DEF TransmitIeOn
  <2>8. CASE TransmitPut
    BY <2>8 DEF TransmitPut
  <2>9. CASE TransmitLimit
    <3>1. tx_cnt > 0
      BY <2>9, DriverAssumption DEF TransmitLimit
    <3>2. stopped => flow_call
      BY <2>9, <3>1 DEF TransmitLimit
    <3> QED BY <2>9, <3>2 DEF TransmitLimit
  <2>10. CASE TransmitReturn
    BY <2>10 DEF TransmitReturn
  <2> QED
    BY <1>2, <2>1, <2>2, <2>3, <2>4, <2>5, <2>6, <2>7, <2>8, <2>9, <2>10 DEF Transmit
<1>3. CASE Isr
  <2>1. CASE IrqDispatch
    BY <2>1 DEF IrqDispatch
  <2>2. CASE IsrEnter
    BY <2>2 DEF IsrEnter
  <2>3. CASE ReceiveTake
    BY <2>3 DEF ReceiveTake, PopRx
  <2>4. CASE IsrExit
    BY <2>4 DEF IsrExit
  <2> QED BY <1>3, <2>1, <2>2, <2>3, <2>4 DEF Isr
<1>4. CASE SerialCore
  <2>1. CASE UserWrites
    BY <2>1 DEF UserWrites
  <2>2. CASE SendXChar
    BY <2>2 DEF SendXChar
  <2>3. CASE SetStopped
    BY <2>3 DEF SetStopped
  <2>4. CASE StopOrStartTx
    BY <2>4 DEF StopOrStartTx
  <2> QED BY <1>4, <2>1, <2>2, <2>3, <2>4 DEF SerialCore
<1>5. CASE Startup
  BY <1>5 DEF Startup, StartupIrq, StartupEnable
<1>6. CASE Shutdown
  BY <1>6 DEF Shutdown, CloseBegin, StopRxEnter, StopRx, ShutdownOff, ShutdownIrq
<1>7. CASE Console
  <2>1. CASE ConsoleEnter
    BY <2>1 DEF ConsoleEnter
  <2>2. CASE ConsoleStart
    BY <2>2 DEF ConsoleStart
  <2>3. CASE ConsolePut
    BY <2>3 DEF ConsolePut
  <2>4. CASE ConsoleEnd
    BY <2>4 DEF ConsoleEnd
  <2>5. CASE ConsoleRestore
    BY <2>5 DEF ConsoleRestore
  <2> QED BY <1>7, <2>1, <2>2, <2>3, <2>4, <2>5 DEF Console
<1>8. CASE UNCHANGED vars
  BY <1>8 DEF vars
<1> QED
  BY <1>1, <1>2, <1>3, <1>4, <1>5, <1>6, <1>7, <1>8 DEF Next

\* While the terminal is stopped, and neither the call that follows the flag nor
\* a kernel message is under way, no character goes out.
THEOREM StopIsKept == Spec => StoppedIsQuiet
<1>1. Init => StopInv
  BY DEF Init, StopInv
<1>2. TypeOK /\ CallInv /\ StopInv /\ [Next]_vars => StopInv'
  BY StopStep
<1>3. TypeOK /\ CallInv /\ StopInv /\ [Next]_vars =>
        [port = "open" /\ stopped /\ ~flow_call /\ op \notin {"start_tx", "console"}
           => UNCHANGED sent]_vars
  <2> SUFFICES ASSUME CallInv, StopInv, [Next]_vars, port = "open", stopped, ~flow_call,
                      op \notin {"start_tx", "console"}
               PROVE  sent' = sent
    OBVIOUS
  <2>1. control.tx_stop
    BY DEF StopInv
  <2>2. CASE Uart
    <3>1. ~SendChar
      BY <2>1 DEF SendChar, PopTx
    <3> QED
      BY <2>2, <3>1 DEF Uart, UartNext, SendFlowChar, PeerSends, ReceiveChar, txSide
  <2>3. CASE Transmit
    BY <2>3 DEF Transmit, TransmitBegin, TransmitIeOff, TransmitXChar, TransmitStopped,
                TransmitRunning, TransmitRoom, TransmitIeOn, TransmitPut, TransmitLimit,
                TransmitReturn, WriteTx, WriteFlowChar, uartVars, txSide
  <2>4. CASE Isr
    BY <2>4 DEF Isr, IrqDispatch, IsrEnter, ReceiveTake, IsrExit, uartVars, txSide
  <2>5. CASE SerialCore \/ Startup
    BY <2>5 DEF SerialCore, UserWrites, SendXChar, SetStopped, StopOrStartTx, Startup,
                StartupIrq, StartupEnable, uartVars, txSide
  <2>6. CASE Shutdown
    BY <2>6 DEF Shutdown, CloseBegin, StopRxEnter, StopRx, ShutdownOff, ShutdownIrq,
                uartVars, txSide
  <2>7. CASE Console
    BY <2>7 DEF Console, ConsoleEnter, ConsoleStart, ConsolePut, ConsoleEnd,
                ConsoleRestore, WriteTx, uartVars, txSide
  <2>8. CASE UNCHANGED vars
    BY <2>8 DEF vars, uartVars, txSide
  <2> QED
    BY <2>2, <2>3, <2>4, <2>5, <2>6, <2>7, <2>8 DEF Next
<1> QED
  BY <1>1, <1>2, <1>3, UartTypeCorrect, PTL DEF Spec, StoppedIsQuiet

-----------------------------------------------------------------------------
(* Transmission: what the FIFO holds for the terminal.                     *)

\* One more at the end: the next character of the terminal, or the console's.
LEMMA HoldPut ==
    ASSUME NEW d \in Nat, NEW q, NEW r, NEW first \in Nat, NEW last \in Nat,
           first <= last,
           DOMAIN q = 1 .. d, DOMAIN r = 1 .. d + 1,
           \A i \in 1 .. d : r[i] = q[i],
           HoldsInOrder(q, first, last)
    PROVE  /\ r[d + 1] = last + 1 => HoldsInOrder(r, first, last + 1)
           /\ r[d + 1] = 0 => HoldsInOrder(r, first, last)
<1>1. \A i \in 1 .. d + 1 : i \in 1 .. d \/ i = d + 1
  OBVIOUS
<1>2. \A i \in 1 .. d : i \in 1 .. d + 1
  OBVIOUS
<1>3. \A i \in 1 .. d : q[i] = 0 \/ q[i] \in first + 1 .. last
  BY DEF HoldsInOrder
<1>4. \A i, j \in 1 .. d : i < j /\ r[i] # 0 /\ r[j] # 0 => r[i] < r[j]
  BY DEF HoldsInOrder
<1>5. ASSUME r[d + 1] = last + 1
      PROVE  HoldsInOrder(r, first, last + 1)
  <2>1. \A n \in first + 1 .. last + 1 : \E i \in DOMAIN r : r[i] = n
    <3>1. d + 1 \in DOMAIN r
      OBVIOUS
    <3>2. \A n \in first + 1 .. last + 1 : n = last + 1 \/ n \in first + 1 .. last
      OBVIOUS
    <3>3. \A n \in first + 1 .. last : \E i \in 1 .. d : q[i] = n
      BY DEF HoldsInOrder
    <3> QED BY <1>2, <1>5, <3>1, <3>2, <3>3
  <2>2. \A i \in DOMAIN r : r[i] \in {0} \cup (first + 1 .. last + 1)
    BY <1>1, <1>3, <1>5
  <2>3. \A i, j \in DOMAIN r : i < j /\ r[i] # 0 /\ r[j] # 0 => r[i] < r[j]
    <3> SUFFICES ASSUME NEW i \in 1 .. d + 1, NEW j \in 1 .. d + 1,
                        i < j, r[i] # 0, r[j] # 0
                 PROVE  r[i] < r[j]
      OBVIOUS
    <3>1. i \in 1 .. d
      OBVIOUS
    <3>2. CASE j \in 1 .. d
      BY <1>4, <3>1, <3>2
    <3>3. CASE j = d + 1
      <4>1. r[i] \in first + 1 .. last
        BY <1>3, <3>1
      <4> QED BY <1>5, <3>3, <4>1
    <3> QED BY <1>1, <3>2, <3>3
  <2> QED BY <2>1, <2>2, <2>3 DEF HoldsInOrder
<1>6. ASSUME r[d + 1] = 0
      PROVE  HoldsInOrder(r, first, last)
  <2>1. \A n \in first + 1 .. last : \E i \in DOMAIN r : r[i] = n
    <3>1. \A n \in first + 1 .. last : \E i \in 1 .. d : q[i] = n
      BY DEF HoldsInOrder
    <3> QED BY <1>2, <3>1
  <2>2. \A i \in DOMAIN r : r[i] \in {0} \cup (first + 1 .. last)
    BY <1>1, <1>3, <1>6
  <2>3. \A i, j \in DOMAIN r : i < j /\ r[i] # 0 /\ r[j] # 0 => r[i] < r[j]
    BY <1>1, <1>4, <1>6
  <2> QED BY <2>1, <2>2, <2>3 DEF HoldsInOrder
<1> QED
  BY <1>5, <1>6

\* The first one taken.
LEMMA HoldTake ==
    ASSUME NEW d \in Nat \ {0}, NEW q, NEW r, NEW first \in Nat, NEW last \in Nat,
           DOMAIN q = 1 .. d, DOMAIN r = 1 .. d - 1,
           \A i \in 1 .. d - 1 : r[i] = q[i + 1],
           HoldsInOrder(q, first, last)
    PROVE  /\ q[1] = 0 => HoldsInOrder(r, first, last)
           /\ q[1] # 0 => q[1] \in first + 1 .. last /\ HoldsInOrder(r, q[1], last)
<1>1. 1 \in 1 .. d /\ \A i \in 1 .. d - 1 : i + 1 \in 1 .. d /\ 1 < i + 1
  OBVIOUS
<1>2. \A i \in 1 .. d : i = 1 \/ (i - 1 \in 1 .. d - 1 /\ (i - 1) + 1 = i)
  OBVIOUS
<1>3. \A i \in 1 .. d : q[i] = 0 \/ q[i] \in first + 1 .. last
  BY DEF HoldsInOrder
<1>4. \A n \in first + 1 .. last : \E i \in 1 .. d : q[i] = n
  BY DEF HoldsInOrder
<1>5. \A i, j \in 1 .. d : i < j /\ q[i] # 0 /\ q[j] # 0 => q[i] < q[j]
  BY DEF HoldsInOrder
<1>6. \A i, j \in 1 .. d - 1 : i < j /\ r[i] # 0 /\ r[j] # 0 => r[i] < r[j]
  <2> SUFFICES ASSUME NEW i \in 1 .. d - 1, NEW j \in 1 .. d - 1,
                      i < j, r[i] # 0, r[j] # 0
               PROVE  r[i] < r[j]
    OBVIOUS
  <2>1. i + 1 < j + 1
    OBVIOUS
  <2> QED BY <1>1, <1>5, <2>1
<1>7. ASSUME q[1] = 0
      PROVE  HoldsInOrder(r, first, last)
  <2>1. \A n \in first + 1 .. last : \E i \in DOMAIN r : r[i] = n
    <3> SUFFICES ASSUME NEW n \in first + 1 .. last
                 PROVE  \E i \in 1 .. d - 1 : r[i] = n
      OBVIOUS
    <3>1. PICK i \in 1 .. d : q[i] = n
      BY <1>4
    <3>2. i # 1
      BY <1>7, <3>1
    <3>3. i - 1 \in 1 .. d - 1 /\ (i - 1) + 1 = i
      BY <1>2, <3>2
    <3> QED BY <3>1, <3>3
  <2>2. \A i \in DOMAIN r : r[i] \in {0} \cup (first + 1 .. last)
    BY <1>1, <1>3
  <2> QED BY <1>6, <2>1, <2>2 DEF HoldsInOrder
<1>8. ASSUME q[1] # 0
      PROVE  q[1] \in first + 1 .. last /\ HoldsInOrder(r, q[1], last)
  <2>1. q[1] \in first + 1 .. last
    BY <1>1, <1>3, <1>8
  <2>2. \A n \in q[1] + 1 .. last : \E i \in DOMAIN r : r[i] = n
    <3> SUFFICES ASSUME NEW n \in q[1] + 1 .. last
                 PROVE  \E i \in 1 .. d - 1 : r[i] = n
      OBVIOUS
    <3>1. n \in first + 1 .. last /\ n # q[1]
      BY <2>1
    <3>2. PICK i \in 1 .. d : q[i] = n
      BY <1>4, <3>1
    <3>3. i # 1
      BY <3>1, <3>2
    <3>4. i - 1 \in 1 .. d - 1 /\ (i - 1) + 1 = i
      BY <1>2, <3>3
    <3> QED BY <3>2, <3>4
  <2>3. \A i \in DOMAIN r : r[i] \in {0} \cup (q[1] + 1 .. last)
    <3> SUFFICES ASSUME NEW i \in 1 .. d - 1, r[i] # 0
                 PROVE  r[i] \in q[1] + 1 .. last
      OBVIOUS
    <3>1. i + 1 \in 1 .. d /\ 1 < i + 1 /\ q[i + 1] # 0
      BY <1>1
    <3>2. q[1] < q[i + 1] /\ q[i + 1] \in first + 1 .. last
      BY <1>1, <1>3, <1>5, <1>8, <3>1
    <3> QED BY <2>1, <3>2
  <2> QED BY <1>6, <2>1, <2>2, <2>3 DEF HoldsInOrder
<1> QED
  BY <1>7, <1>8

\* Every step keeps TtyInv.  Only three steps touch the FIFO: the driver's and the
\* console's write, each of which has seen room, and the core that takes.
LEMMA TtyStep ==
    ASSUME TypeOK, CallInv, TtyInv, [Next]_vars
    PROVE  TtyInv'
<1>1. ASSUME UNCHANGED <<txFifo, sent, taken>>
      PROVE  TtyInv'
  BY <1>1 DEF TtyInv, TtyCharsInOrder, TxInFifo, txFifo
<1> DEFINE d == RingDist(tx_out_pos, tx_inp_pos)
           q == TxInFifo
           r == TxInFifo'
<1>2. /\ sent \in Nat /\ taken \in Nat /\ sent <= taken
      /\ DOMAIN tx_buf = Slots /\ tx_out_pos \in Slots /\ tx_inp_pos \in Slots
      /\ HoldsInOrder(q, sent, taken)
  BY DEF TypeOK, UartTypeOK, TtyInv, TtyCharsInOrder
<1>3. ASSUME NEW c, ~TxFull, WriteTx(c)
      PROVE  /\ d \in Nat /\ DOMAIN q = 1 .. d /\ DOMAIN r = 1 .. d + 1
             /\ \A i \in 1 .. d : r[i] = q[i]
             /\ r[d + 1] = c /\ sent' = sent
  <2>1. sent' = sent
    BY <1>3 DEF WriteTx
  <2> QED
    BY <1>3, <2>1, TxPut
<1>4. ASSUME PopTx, UNCHANGED <<tx_buf, tx_inp_pos, taken>>
      PROVE  TtyInv'
  <2>1. /\ tx_inp_pos # tx_out_pos /\ tx_out_pos' = RingNext(tx_out_pos)
        /\ sent' = IF tx_buf[tx_out_pos] = 0 THEN sent ELSE tx_buf[tx_out_pos]
        /\ tx_buf' = tx_buf /\ tx_inp_pos' = tx_inp_pos /\ taken' = taken
    BY <1>4 DEF PopTx, TxEmpty
  <2>2. r = RingSeq(tx_buf, RingNext(tx_out_pos), tx_inp_pos)
    BY <2>1 DEF TxInFifo
  <2>3. /\ d \in Nat \ {0} /\ DOMAIN q = 1 .. d /\ DOMAIN r = 1 .. d - 1
        /\ \A i \in 1 .. d - 1 : r[i] = q[i + 1]
        /\ q[1] = tx_buf[tx_out_pos]
    <3> DEFINE r2 == RingSeq(tx_buf, RingNext(tx_out_pos), tx_inp_pos)
               q2 == RingSeq(tx_buf, tx_out_pos, tx_inp_pos)
    <3>1. /\ d \in Nat \ {0} /\ DOMAIN q2 = 1 .. d /\ DOMAIN r2 = 1 .. d - 1
          /\ \A i \in 1 .. d - 1 : r2[i] = q2[i + 1]
          /\ q2[1] = tx_buf[tx_out_pos]
      BY <1>2, <2>1, SeqTake
    <3>2. q = q2 /\ r = r2
      BY <2>2 DEF TxInFifo
    <3> HIDE DEF d, q, r, q2, r2
    <3> QED
      BY <3>1, <3>2
  <2> HIDE DEF d, q, r
  <2>4. /\ q[1] = 0 => HoldsInOrder(r, sent, taken)
        /\ q[1] # 0 => q[1] \in sent + 1 .. taken /\ HoldsInOrder(r, q[1], taken)
    BY <1>2, <2>3, HoldTake
  <2>5. sent' <= taken' /\ HoldsInOrder(r, sent', taken')
    BY <1>2, <2>1, <2>3, <2>4
  <2> QED
    BY <2>5 DEF r, TtyInv, TtyCharsInOrder, HoldsInOrder
<1> HIDE DEF d, q, r
<1>5. CASE TransmitPut
  <2>1. ~TxFull /\ WriteTx(taken + 1) /\ taken' = taken + 1
    BY <1>5 DEF TransmitPut, Goto, CallInv
  <2>2. /\ d \in Nat /\ DOMAIN q = 1 .. d /\ DOMAIN r = 1 .. d + 1
        /\ \A i \in 1 .. d : r[i] = q[i]
        /\ r[d + 1] = taken + 1 /\ sent' = sent
    BY <1>3, <2>1
  <2>3. HoldsInOrder(r, sent, taken + 1)
    BY <1>2, <2>2, HoldPut
  <2>4. sent' <= taken' /\ HoldsInOrder(r, sent', taken')
    BY <1>2, <2>1, <2>2, <2>3
  <2> QED
    BY <2>4 DEF r, TtyInv, TtyCharsInOrder, HoldsInOrder
<1>6. CASE ConsolePut
  <2>1. ~TxFull /\ WriteTx(0) /\ taken' = taken
    BY <1>6 DEF ConsolePut, txLocal
  <2>2. /\ d \in Nat /\ DOMAIN q = 1 .. d /\ DOMAIN r = 1 .. d + 1
        /\ \A i \in 1 .. d : r[i] = q[i]
        /\ r[d + 1] = 0 /\ sent' = sent
    BY <1>3, <2>1
  <2>3. HoldsInOrder(r, sent, taken)
    BY <1>2, <2>2, HoldPut
  <2>4. sent' <= taken' /\ HoldsInOrder(r, sent', taken')
    BY <1>2, <2>1, <2>2, <2>3
  <2> QED
    BY <2>4 DEF r, TtyInv, TtyCharsInOrder, HoldsInOrder
<1>7. CASE Uart
  <2>1. CASE SendChar
    BY <1>4, <1>7, <2>1 DEF Uart, SendChar, uartDrvVars, txLocal
  <2>2. CASE SendFlowChar \/ PeerSends \/ ReceiveChar
    BY <1>1, <1>7, <2>2 DEF Uart, SendFlowChar, PeerSends, ReceiveChar, uartDrvVars,
                            txLocal, txSide
  <2> QED BY <1>7, <2>1, <2>2 DEF Uart, UartNext
<1>8. CASE Transmit /\ ~TransmitPut
  <2>1. UNCHANGED <<txFifo, sent, taken>>
    BY <1>8 DEF Transmit, TransmitBegin, TransmitIeOff, TransmitXChar, TransmitStopped,
                TransmitRunning, TransmitRoom, TransmitIeOn, TransmitLimit,
                TransmitReturn, WriteFlowChar, uartVars, txSide, txLocal
  <2> QED BY <1>1, <2>1
<1>9. CASE Isr \/ SerialCore \/ Startup
  <2>1. UNCHANGED <<txFifo, sent, taken>>
    BY <1>9 DEF Isr, IrqDispatch, IsrEnter, ReceiveTake, IsrExit, SerialCore,
                UserWrites, SendXChar, SetStopped, StopOrStartTx, Startup, StartupIrq,
                StartupEnable, uartVars, txSide, txLocal
  <2> QED BY <1>1, <2>1
<1>10. CASE Shutdown
  <2>1. UNCHANGED <<txFifo, sent, taken>>
    BY <1>10 DEF Shutdown, CloseBegin, StopRxEnter, StopRx, ShutdownOff, ShutdownIrq,
                 uartVars, txSide, txLocal
  <2> QED BY <1>1, <2>1
<1>11. CASE Console /\ ~ConsolePut
  <2>1. UNCHANGED <<txFifo, sent, taken>>
    BY <1>11 DEF Console, ConsoleEnter, ConsoleStart, ConsoleEnd, ConsoleRestore,
                 uartVars, txSide, txLocal
  <2> QED BY <1>1, <2>1
<1>12. CASE UNCHANGED vars
  BY <1>1, <1>12 DEF vars, uartVars, uartDrvVars, txSide, txLocal
<1> QED
  BY <1>5, <1>6, <1>7, <1>8, <1>9, <1>10, <1>11, <1>12 DEF Next

\* No character of the terminal is lost, doubled or put out of order between the
\* transmit buffer and the line.
THEOREM TtyCharsKept == Spec => []TtyCharsInOrder
<1>1. Init => TtyInv
  BY RingMaskAssumption DEF Init, UartInit, TtyInv, TtyCharsInOrder, TxInFifo, RingSeq, RingDist,
     HoldsInOrder
<1>2. TypeOK /\ CallInv /\ TtyInv /\ [Next]_vars => TtyInv'
  BY TtyStep
<1>3. TtyInv => TtyCharsInOrder
  BY DEF TtyInv
<1> QED
  BY <1>1, <1>2, <1>3, UartTypeCorrect, PTL DEF Spec
=============================================================================

-------------------------- MODULE EthDriver_proofs --------------------------
(***************************************************************************)
(* Proofs about EthDriver, for every ring size, set of buffers and set of  *)
(* MTU values; in the second half, that both rings of the driver and its   *)
(* NIC implement DmaRing.                                                  *)
(***************************************************************************)
EXTENDS EthDriverProps, SequenceTheorems, TLAPS

-----------------------------------------------------------------------------
(* Facts about ring positions.                                             *)

\* Positions computed from slots are slots.
LEMMA RingTypes ==
    /\ 0 \in Slots
    /\ \A i \in Slots : i \in Int /\ RingNext(i) \in Slots
    /\ \A i, j \in Slots : RingDist(i, j) \in Slots
  BY RingMaskAssumption DEF Slots, RingNext, RingDist

-----------------------------------------------------------------------------
(* Type correctness.                                                       *)

\* netif_wake_queue leaves the stopped flag a flag.
LEMMA WakeQueueType ==
    ASSUME NEW stopped, NEW free, WakeQueue(stopped, free)
    PROVE  queue_stopped' \in BOOLEAN
  BY DEF WakeQueue

\* Taking a sent packet from the transmit ring keeps the types of the ring.
LEMMA ReapTxType ==
    ASSUME TypeOK, ReapTx
    PROVE  tx_inp' \in Slots /\ tx_out' \in Slots
             /\ tx_ring' \in [Slots -> TxBufs \cup {NoBuf}]
<1>1. RingNext(tx_out) \in Slots
  BY RingTypes DEF TypeOK
<1> QED
  BY <1>1 DEF TypeOK, ReapTx

\* Every variable keeps its type, in every reachable state: each pointer stays
\* inside its ring and each ring item is a buffer of that ring or none.
THEOREM TypeCorrect == Spec => []TypeOK
<1>1. Init => TypeOK
  BY RingTypes DEF Init, NicInit, TypeOK, NicTypeOK, Steps
<1>2. TypeOK /\ [Next]_vars => TypeOK'
  <2> SUFFICES ASSUME TypeOK, [Next]_vars PROVE TypeOK'
    OBVIOUS
  <2>0. /\ RingNext(rx_inp) \in Slots /\ RingNext(rx_out) \in Slots
        /\ RingNext(tx_inp) \in Slots /\ RingNext(tx_out) \in Slots
        /\ RingNext(rx_pkt_out) \in Slots /\ RingNext(tx_pkt_out) \in Slots
    BY RingTypes DEF TypeOK, NicTypeOK
  <2> USE <2>0 DEF TypeOK, NicTypeOK, Steps, Goto, Lock, Unlock
  <2>1. CASE Nic
    <3> USE DEF nicRx, nicTx, nicInt, drvVars, drvRx, drvTx, control, net
    <3>1. CASE RxBegin
      BY <2>1, <3>1 DEF Nic, RxBegin
    <3>2. CASE RxFinish
      <4>1. rx_start' \in BOOLEAN /\ rx_int' \in BOOLEAN
        BY <2>1, <3>2 DEF Nic, RxFinish
      <4> QED BY <2>1, <3>2, <4>1 DEF Nic, RxFinish
    <3>3. CASE TxBegin
      BY <2>1, <3>3 DEF Nic, TxBegin
    <3>4. CASE TxFinish
      <4>1. tx_start' \in BOOLEAN /\ tx_int' \in BOOLEAN
        BY <2>1, <3>4 DEF Nic, TxFinish
      <4> QED BY <2>1, <3>4, <4>1 DEF Nic, TxFinish
    <3> QED BY <2>1, <3>1, <3>2, <3>3, <3>4 DEF Nic, NicNext
  <2>2. CASE IrqDispatch
    BY <2>2 DEF IrqDispatch, nicVars, nicRx, nicTx, nicInt, drvRx, drvTx, net
  <2>3. CASE Xmit
    <3> USE DEF nicVars, nicRx, nicTx, nicInt, drvRx, drvTx, net
    <3>1. CASE XmitEnter
      BY <3>1 DEF XmitEnter, FreeTxBufs
    <3>2. CASE XmitSpin
      BY <3>2, ReapTxType DEF XmitSpin
    <3>3. CASE XmitPost
      <4>1. /\ tx_ring' \in [Slots -> TxBufs \cup {NoBuf}]
            /\ tx_addr' \in [Slots -> TxBufs \cup {NoBuf}]
        BY <3>3 DEF XmitPost
      <4> QED BY <3>3, <4>1 DEF XmitPost
    <3>4. CASE XmitDoorbell
      <4>1. queue_stopped' \in BOOLEAN
        BY <3>4, WakeQueueType DEF XmitDoorbell
      <4> QED BY <3>4, <4>1 DEF XmitDoorbell
    <3> QED BY <2>3, <3>1, <3>2, <3>3, <3>4 DEF Xmit
  <2>4. CASE AddRxBuffers
    <3> USE DEF nicVars, nicRx, nicTx, nicInt, drvRx, drvTx, net
    <3>1. CASE AddRxBuffer
      BY <3>1 DEF AddRxBuffer, FreeRxBufs
    <3>2. CASE AddRxDoorbell
      BY <3>2 DEF AddRxDoorbell
    <3>3. CASE AddRxReturn
      BY <3>3 DEF AddRxReturn, AddRxReturnTo
    <3> QED BY <2>4, <3>1, <3>2, <3>3 DEF AddRxBuffers
  <2>5. CASE Isr
    <3> USE DEF nicVars, nicRx, nicTx, nicInt, drvRx, drvTx, net
    <3>1. CASE IsrEnter
      BY <3>1 DEF IsrEnter
    <3>2. CASE IsrAck
      <4>1. rx_int' \in BOOLEAN /\ tx_int' \in BOOLEAN /\ cont' \in BOOLEAN
        BY <3>2 DEF IsrAck, ClearIntStatus
      <4> QED BY <3>2, <4>1 DEF IsrAck, ClearIntStatus
    <3>3. CASE IsrRx
      <4>1. CASE rx_out # rx_pkt_out
        BY <3>3, <4>1 DEF IsrRx
      <4>2. CASE rx_out = rx_pkt_out
        BY <3>3, <4>2 DEF IsrRx
      <4> QED BY <4>1, <4>2
    <3>4. CASE IsrTx
      <4>1. CASE ReapTx
        BY <3>4, <4>1, ReapTxType DEF IsrTx
      <4>2. CASE UNCHANGED drvTx
        BY <3>4, <4>2 DEF IsrTx
      <4> QED BY <3>4, <4>1, <4>2 DEF IsrTx
    <3>5. CASE IsrExit
      <4>1. queue_stopped' \in BOOLEAN /\ irq_wait' \in BOOLEAN
        BY <3>5, WakeQueueType DEF IsrExit
      <4> QED BY <3>5, <4>1 DEF IsrExit
    <3> QED BY <2>5, <3>1, <3>2, <3>3, <3>4, <3>5 DEF Isr
  <2>6. CASE Open
    <3> USE DEF nicVars, nicRx, nicTx, nicInt, drvRx, drvTx, net
    <3>1. CASE OpenEnter
      BY <3>1 DEF OpenEnter
    <3>2. CASE OpenIntEnable
      BY <3>2 DEF OpenIntEnable
    <3>3. CASE OpenNicEnable
      BY <3>3 DEF OpenNicEnable
    <3> QED BY <2>6, <3>1, <3>2, <3>3 DEF Open
  <2>7. CASE Close
    <3> USE DEF nicVars, nicRx, nicTx, nicInt, drvRx, drvTx, net
    <3>1. CASE CloseBegin
      <4>1. up' \in BOOLEAN
        BY <3>1 DEF CloseBegin, control
      <4> QED BY <3>1, <4>1 DEF CloseBegin, control
    <3>2. CASE CloseEnter
      BY <3>2 DEF CloseEnter
    <3>3. CASE CloseIntDisable
      <4>1. int_enable' \in BOOLEAN
        BY <3>3 DEF CloseIntDisable
      <4> QED BY <3>3, <4>1 DEF CloseIntDisable
    <3>4. CASE CloseNicDisable
      <4>1. rx_enable' \in BOOLEAN /\ tx_enable' \in BOOLEAN
        BY <3>4 DEF CloseNicDisable
      <4> QED BY <3>4, <4>1 DEF CloseNicDisable
    <3>5. CASE CloseWaitIdle
      BY <3>5 DEF CloseWaitIdle, DisposeRxBuffers, WriteRxPktOut
    <3>6. CASE CloseDrainTx
      BY <3>6, ReapTxType DEF CloseDrainTx
    <3>7. CASE CloseExit
      BY <3>7 DEF CloseExit, WriteTxPktOut
    <3> QED BY <2>7, <3>1, <3>2, <3>3, <3>4, <3>5, <3>6, <3>7 DEF Close
  <2>8. CASE ChangeMtu
    <3> USE DEF nicVars, nicRx, nicTx, nicInt, drvRx, drvTx, net
    <3>1. CASE MtuBegin
      BY <3>1 DEF MtuBegin, control
    <3>2. CASE MtuEnter
      BY <3>2 DEF MtuEnter
    <3>3. CASE MtuRxDisable
      <4>1. rx_enable' \in BOOLEAN
        BY <3>3 DEF MtuRxDisable
      <4> QED BY <3>3, <4>1 DEF MtuRxDisable
    <3>4. CASE MtuWaitIdle
      BY <3>4 DEF MtuWaitIdle, DisposeRxBuffers, WriteRxPktOut
    <3>5. CASE MtuRxEnable
      BY <3>5 DEF MtuRxEnable
    <3> QED BY <2>8, <3>1, <3>2, <3>3, <3>4, <3>5 DEF ChangeMtu
  <2>9. CASE UNCHANGED vars
    BY <2>9 DEF vars, nicVars, nicRx, nicTx, nicInt, drvVars, drvRx, drvTx,
                control, net
  <2> QED
    BY <2>1, <2>2, <2>3, <2>4, <2>5, <2>6, <2>7, <2>8, <2>9 DEF Next
<1> QED
  BY <1>1, <1>2, PTL DEF Spec
-----------------------------------------------------------------------------
(* A ring, whatever it holds: each of the five things that happen to one   *)
(* keeps RingInv.                                                          *)

\* Filling the producer's slot of a ring that is not full, with a buffer that
\* is not in the ring, establishes the state before the doorbell.
LEMMA RingFill ==
    ASSUME NEW ring, NEW addr, NEW p \in Slots, NEW q \in Slots,
           NEW n \in Slots, NEW b, DOMAIN ring = Slots, DOMAIN addr = Slots,
           RingInv(ring, addr, p, q, n, FALSE),
           RingNext(n) # p, b # NoBuf, \A s \in Slots : ring[s] # b
    PROVE  RingInv([ring EXCEPT ![n] = b], [addr EXCEPT ![n] = b],
                   p, q, n, TRUE)
  BY RingMaskAssumption DEF RingInv, RingDist, RingNext, Slots

\* The doorbell posts that slot.
LEMMA RingPost ==
    ASSUME NEW ring, NEW addr, NEW p \in Slots, NEW q \in Slots,
           NEW n \in Slots, RingInv(ring, addr, p, q, n, TRUE)
    PROVE  RingInv(ring, addr, p, q, RingNext(n), FALSE)
  BY RingMaskAssumption DEF RingInv, RingDist, RingNext, Slots

\* The NIC finishes the oldest posted slot.
LEMMA RingComplete ==
    ASSUME NEW ring, NEW addr, NEW p \in Slots, NEW q \in Slots,
           NEW n \in Slots, NEW bell, RingInv(ring, addr, p, q, n, bell), q # n
    PROVE  RingInv(ring, addr, p, RingNext(q), n, bell)
  BY RingMaskAssumption, SMTT(30) DEF RingInv, RingDist, RingNext, Slots

\* The driver takes back the oldest finished slot.
LEMMA RingReap ==
    ASSUME NEW ring, NEW addr, NEW p \in Slots, NEW q \in Slots,
           NEW n \in Slots, NEW bell, DOMAIN ring = Slots,
           RingInv(ring, addr, p, q, n, bell), p # q
    PROVE  RingInv([ring EXCEPT ![p] = NoBuf], addr, RingNext(p), q, n, bell)
  BY RingMaskAssumption DEF RingInv, RingDist, RingNext, Slots

\* The driver takes back every slot at once.
LEMMA RingDispose ==
    ASSUME NEW ring, NEW addr, NEW p \in Slots, NEW q \in Slots,
           NEW n \in Slots, RingInv(ring, addr, p, q, n, FALSE), NEW left,
           \A s \in Slots : left[s] = IF s \in RingWindow(p, n)
                                      THEN NoBuf ELSE ring[s]
    PROVE  RingInv(left, addr, n, n, n, FALSE)
  BY RingMaskAssumption DEF RingInv, RingDist, RingWindow, Slots

\* A ring has two slots at least.
LEMMA RingNextDiffers == \A i \in Slots : RingNext(i) # i
  BY RingMaskAssumption DEF RingNext, Slots

\* In an empty ring the NIC's pointer is where the driver's are.
LEMMA RingEmpty ==
    ASSUME NEW p \in Slots, NEW q \in Slots, RingDist(p, q) <= RingDist(p, p)
    PROVE  q = p
  BY RingMaskAssumption DEF RingDist, Slots

-----------------------------------------------------------------------------
(* The receive ring.                                                       *)

\* A step that touches nothing of the receive ring keeps its invariant.
LEMMA RxKept ==
    ASSUME RxRingInv, UNCHANGED <<nicRx, drvRx>>,
           pc = "rx_bell" <=> pc' = "rx_bell",
           pc' \in {"wait", "tx_drain", "rx_wait"} =>
               pc \in {"wait", "tx_drain", "rx_wait"}
    PROVE  RxRingInv'
<1>1. (pc = "rx_bell") = (pc' = "rx_bell")
  OBVIOUS
<1>2. RingInv(rx_ring, rx_addr, rx_out, rx_pkt_out, rx_inp, pc = "rx_bell")'
  BY <1>1 DEF RxRingInv, RingInv, nicRx, drvRx
<1> QED
  BY <1>2 DEF RxRingInv, nicRx, drvRx

\* Every step of the system keeps the invariant of the receive ring.
LEMMA RxRingStep ==
    ASSUME TypeOK, RxRingInv, [Next]_vars
    PROVE  RxRingInv'
<1> USE DEF Goto, Lock, Unlock
<1>0. /\ rx_out \in Slots /\ rx_inp \in Slots /\ rx_pkt_out \in Slots
      /\ DOMAIN rx_ring = Slots /\ DOMAIN rx_addr = Slots
  BY DEF TypeOK, NicTypeOK
<1>1. CASE Nic
  <2> USE DEF nicRx, nicTx, nicInt, drvVars, drvRx, control
  <2>1. CASE RxBegin
    <3>1. RingInv(rx_ring, rx_addr, rx_out, rx_pkt_out, rx_inp,
                  pc = "rx_bell")'
      BY <1>1, <2>1 DEF Nic, RxBegin, RxRingInv
    <3> QED
      BY <1>1, <2>1, <3>1 DEF Nic, RxBegin, RxRingInv
  <2>2. CASE RxFinish
    <3>1. RingInv(rx_ring, rx_addr, rx_out, RingNext(rx_pkt_out), rx_inp,
                  pc = "rx_bell")
      BY <1>0, <2>2, RingComplete DEF RxFinish, RxRingInv
    <3>2. RingInv(rx_ring, rx_addr, rx_out, rx_pkt_out, rx_inp,
                  pc = "rx_bell")'
      BY <1>1, <2>2, <3>1 DEF Nic, RxFinish
    <3> QED
      BY <1>1, <2>2, <3>2 DEF Nic, RxFinish, RxRingInv
  <2>3. CASE TxBegin \/ TxFinish
    BY <1>1, <2>3, RxKept DEF Nic, TxBegin, TxFinish
  <2> QED
    BY <1>1, <2>1, <2>2, <2>3 DEF Nic, NicNext
<1>2. CASE IrqDispatch
  BY <1>2, RxKept DEF IrqDispatch, nicVars
<1>3. CASE Xmit
  <2>1. CASE XmitEnter \/ XmitSpin \/ XmitDoorbell
    BY <2>1, RxKept DEF XmitEnter, XmitSpin, XmitDoorbell, nicVars
  <2>2. CASE XmitPost
    BY <2>2, RxKept DEF XmitPost
  <2> QED
    BY <1>3, <2>1, <2>2 DEF Xmit
<1>4. CASE AddRxBuffers
  <2>1. CASE AddRxBuffer
    <3>1. PICK b \in FreeRxBufs :
            /\ rx_ring' = [rx_ring EXCEPT ![rx_inp] = b]
            /\ rx_addr' = [rx_addr EXCEPT ![rx_inp] = b]
      BY <2>1 DEF AddRxBuffer
    <3>2. b # NoBuf /\ \A s \in Slots : rx_ring[s] # b
      BY <3>1, BufAssumption DEF FreeRxBufs, BufAssumption
    <3>3. RingInv(rx_ring, rx_addr, rx_out, rx_pkt_out, rx_inp, FALSE)
      BY <2>1 DEF AddRxBuffer, RxRingInv, RingInv
    <3>4. RingInv(rx_ring', rx_addr', rx_out, rx_pkt_out, rx_inp, TRUE)
      BY <1>0, <2>1, <3>1, <3>2, <3>3, RingFill DEF AddRxBuffer
    <3>5. RingInv(rx_ring, rx_addr, rx_out, rx_pkt_out, rx_inp,
                  pc = "rx_bell")'
      BY <2>1, <3>4 DEF AddRxBuffer, RingInv
    <3> QED
      BY <2>1, <3>5 DEF AddRxBuffer, RxRingInv
  <2>2. CASE AddRxDoorbell
    <3>1. RingInv(rx_ring, rx_addr, rx_out, rx_pkt_out, rx_inp, TRUE)
      BY <2>2 DEF AddRxDoorbell, RxRingInv, RingInv
    <3>2. RingInv(rx_ring, rx_addr, rx_out, rx_pkt_out, RingNext(rx_inp),
                  FALSE)
      BY <1>0, <3>1, RingPost
    <3>3. RingInv(rx_ring, rx_addr, rx_out, rx_pkt_out, rx_inp,
                  pc = "rx_bell")'
      BY <2>2, <3>2 DEF AddRxDoorbell, RingInv
    <3>4. rx_start => rx_pkt_out # RingNext(rx_inp)
      BY <1>0, <2>2, <3>1, RingMaskAssumption
         DEF RingInv, RingDist, RingNext, Slots, RxRingInv
    <3> QED
      BY <2>2, <3>3, <3>4 DEF AddRxDoorbell, RxRingInv
  <2>3. CASE AddRxReturn
    BY <2>3, RxKept DEF AddRxReturn, AddRxReturnTo, nicVars
  <2> QED
    BY <1>4, <2>1, <2>2, <2>3 DEF AddRxBuffers
<1>5. CASE Isr
  <2>1. CASE IsrEnter \/ IsrAck \/ IsrTx \/ IsrExit
    BY <2>1, RxKept DEF IsrEnter, IsrAck, IsrTx, IsrExit, nicVars
  <2>2. CASE IsrRx /\ rx_out # rx_pkt_out
    <3>1. RingInv(rx_ring', rx_addr, rx_out', rx_pkt_out, rx_inp,
                  pc = "rx_bell")
      BY <1>0, <2>2, RingReap DEF IsrRx, RxRingInv
    <3>2. RingInv(rx_ring, rx_addr, rx_out, rx_pkt_out, rx_inp,
                  pc = "rx_bell")'
      BY <2>2, <3>1 DEF IsrRx, RingInv, nicVars, nicRx
    <3> QED
      BY <2>2, <3>2 DEF IsrRx, RxRingInv, nicVars, nicRx
  <2>3. CASE IsrRx /\ rx_out = rx_pkt_out
    BY <2>3, RxKept DEF IsrRx, nicVars, drvRx
  <2> QED
    BY <1>5, <2>1, <2>2, <2>3 DEF Isr
<1>6. CASE Open
  <2>1. CASE OpenEnter \/ OpenIntEnable
    BY <2>1, RxKept DEF OpenEnter, OpenIntEnable, nicVars
  <2>2. CASE OpenNicEnable
    BY <2>2 DEF OpenNicEnable, RxRingInv, RingInv, drvRx
  <2> QED
    BY <1>6, <2>1, <2>2 DEF Open
<1>7. CASE Close
  <2>1. CASE CloseBegin \/ CloseEnter \/ CloseIntDisable \/ CloseDrainTx
    BY <2>1, RxKept
       DEF CloseBegin, CloseEnter, CloseIntDisable, CloseDrainTx, nicVars,
           control
  <2>2. CASE CloseNicDisable
    BY <2>2 DEF CloseNicDisable, RxRingInv, RingInv, drvRx
  <2>3. CASE CloseWaitIdle
    <3>1. RingInv(rx_ring, rx_addr, rx_out, rx_pkt_out, rx_inp, FALSE)
      BY <2>3 DEF CloseWaitIdle, RxRingInv, RingInv
    <3>a. \A s \in Slots :
            rx_ring'[s] = IF s \in RingWindow(rx_out, rx_inp)
                          THEN NoBuf ELSE rx_ring[s]
      BY <2>3 DEF CloseWaitIdle, DisposeRxBuffers
    <3>2. RingInv(rx_ring', rx_addr, rx_inp, rx_inp, rx_inp, FALSE)
      BY <1>0, <3>1, <3>a, RingDispose
    <3>3. rx_pkt_out' = rx_inp
      BY <2>3 DEF CloseWaitIdle, DisposeRxBuffers, WriteRxPktOut, RxRingInv
    <3>4. RingInv(rx_ring, rx_addr, rx_out, rx_pkt_out, rx_inp,
                  pc = "rx_bell")'
      BY <2>3, <3>2, <3>3 DEF CloseWaitIdle, DisposeRxBuffers, RingInv
    <3> QED
      BY <2>3, <3>4 DEF CloseWaitIdle, DisposeRxBuffers, RxRingInv
  <2>4. CASE CloseExit
    BY <2>4, RxKept DEF CloseExit
  <2> QED
    BY <1>7, <2>1, <2>2, <2>3, <2>4 DEF Close
<1>8. CASE ChangeMtu
  <2>1. CASE MtuBegin \/ MtuEnter
    BY <2>1, RxKept DEF MtuBegin, MtuEnter, nicVars, control
  <2>2. CASE MtuRxDisable
    BY <2>2 DEF MtuRxDisable, RxRingInv, RingInv, drvRx
  <2>3. CASE MtuWaitIdle
    <3>1. RingInv(rx_ring, rx_addr, rx_out, rx_pkt_out, rx_inp, FALSE)
      BY <2>3 DEF MtuWaitIdle, RxRingInv, RingInv
    <3>a. \A s \in Slots :
            rx_ring'[s] = IF s \in RingWindow(rx_out, rx_inp)
                          THEN NoBuf ELSE rx_ring[s]
      BY <2>3 DEF MtuWaitIdle, DisposeRxBuffers
    <3>2. RingInv(rx_ring', rx_addr, rx_inp, rx_inp, rx_inp, FALSE)
      BY <1>0, <3>1, <3>a, RingDispose
    <3>3. rx_pkt_out' = rx_inp
      BY <2>3 DEF MtuWaitIdle, DisposeRxBuffers, WriteRxPktOut, RxRingInv
    <3>4. RingInv(rx_ring, rx_addr, rx_out, rx_pkt_out, rx_inp,
                  pc = "rx_bell")'
      BY <2>3, <3>2, <3>3 DEF MtuWaitIdle, DisposeRxBuffers, RingInv
    <3> QED
      BY <2>3, <3>4 DEF MtuWaitIdle, DisposeRxBuffers, RxRingInv
  <2>4. CASE MtuRxEnable
    BY <2>4 DEF MtuRxEnable, RxRingInv, RingInv, drvRx
  <2> QED
    BY <1>8, <2>1, <2>2, <2>3, <2>4 DEF ChangeMtu
<1>9. CASE UNCHANGED vars
  BY <1>9, RxKept DEF vars, nicVars, drvVars, control
<1> QED
  BY <1>1, <1>2, <1>3, <1>4, <1>5, <1>6, <1>7, <1>8, <1>9 DEF Next

-----------------------------------------------------------------------------
(* The transmit ring.                                                      *)

\* A step that touches nothing of the transmit ring keeps its invariant.
LEMMA TxKept ==
    ASSUME TxRingInv, UNCHANGED <<nicTx, drvTx, skb>>,
           pc \notin {"spin", "post", "tx_bell"},
           pc' \notin {"spin", "post", "tx_bell"}
    PROVE  TxRingInv'
<1>1. RingInv(tx_ring, tx_addr, tx_out, tx_pkt_out, tx_inp, pc = "tx_bell")'
  BY DEF TxRingInv, RingInv, nicTx, drvTx
<1> QED
  BY <1>1 DEF TxRingInv, nicTx, drvTx

\* The same for a step that leaves the lock holder where it is.
LEMMA TxKeptInPlace ==
    ASSUME TxRingInv, UNCHANGED <<nicTx, drvTx, skb, pc>>
    PROVE  TxRingInv'
<1>1. RingInv(tx_ring, tx_addr, tx_out, tx_pkt_out, tx_inp, pc = "tx_bell")'
  BY DEF TxRingInv, RingInv, nicTx, drvTx
<1> QED
  BY <1>1 DEF TxRingInv, nicTx, drvTx

\* ReapTx outside of axi_eth_xmit.
LEMMA TxReaped ==
    ASSUME TypeOK, TxRingInv, ReapTx, UNCHANGED <<nicTx, skb>>,
           pc \notin {"spin", "post", "tx_bell"},
           pc' \notin {"spin", "post", "tx_bell"}
    PROVE  TxRingInv'
<1>1. /\ tx_out \in Slots /\ tx_inp \in Slots /\ tx_pkt_out \in Slots
      /\ DOMAIN tx_ring = Slots
  BY DEF TypeOK, NicTypeOK
<1>2. RingInv(tx_ring', tx_addr, tx_out', tx_pkt_out, tx_inp, pc = "tx_bell")
  BY <1>1, RingReap DEF ReapTx, TxRingInv
<1>3. RingInv(tx_ring, tx_addr, tx_out, tx_pkt_out, tx_inp, pc = "tx_bell")'
  BY <1>2 DEF ReapTx, RingInv, nicTx
<1> QED
  BY <1>3 DEF ReapTx, TxRingInv, nicTx

\* Every step of the system keeps the invariant of the transmit ring.
LEMMA TxRingStep ==
    ASSUME TypeOK, TxRingInv, [Next]_vars
    PROVE  TxRingInv'
<1> USE DEF Goto, Lock, Unlock
<1>0. /\ tx_out \in Slots /\ tx_inp \in Slots /\ tx_pkt_out \in Slots
      /\ DOMAIN tx_ring = Slots /\ DOMAIN tx_addr = Slots
  BY DEF TypeOK, NicTypeOK
<1>1. CASE Nic
  <2> USE DEF nicRx, nicTx, nicInt, drvVars, drvTx, control
  <2>1. CASE TxBegin
    <3>1. RingInv(tx_ring, tx_addr, tx_out, tx_pkt_out, tx_inp,
                  pc = "tx_bell")'
      BY <1>1, <2>1 DEF Nic, TxBegin, TxRingInv
    <3> QED
      BY <1>1, <2>1, <3>1 DEF Nic, TxBegin, TxRingInv
  <2>2. CASE TxFinish
    <3>1. RingInv(tx_ring, tx_addr, tx_out, RingNext(tx_pkt_out), tx_inp,
                  pc = "tx_bell")
      BY <1>0, <2>2, RingComplete DEF TxFinish, TxRingInv
    <3>2. RingInv(tx_ring, tx_addr, tx_out, tx_pkt_out, tx_inp,
                  pc = "tx_bell")'
      BY <1>1, <2>2, <3>1 DEF Nic, TxFinish
    <3> QED
      BY <1>1, <2>2, <3>2 DEF Nic, TxFinish, TxRingInv
  <2>3. CASE RxBegin \/ RxFinish
    BY <1>1, <2>3, TxKeptInPlace DEF Nic, RxBegin, RxFinish
  <2> QED
    BY <1>1, <2>1, <2>2, <2>3 DEF Nic, NicNext
<1>2. CASE IrqDispatch
  BY <1>2, TxKeptInPlace DEF IrqDispatch, nicVars
<1>3. CASE Xmit
  <2>1. CASE XmitEnter
    <3>1. skb' # NoBuf /\ \A s \in Slots : tx_ring[s] # skb'
      BY <2>1, BufAssumption DEF XmitEnter, FreeTxBufs, BufAssumption
    <3>2. RingInv(tx_ring, tx_addr, tx_out, tx_pkt_out, tx_inp,
                  pc = "tx_bell")'
      BY <2>1 DEF XmitEnter, TxRingInv, RingInv, nicVars, nicTx, drvTx
    <3> QED
      BY <2>1, <3>1, <3>2 DEF XmitEnter, TxRingInv, nicVars, nicTx, drvTx
  <2>2. CASE XmitSpin
    <3>1. RingInv(tx_ring', tx_addr, tx_out', tx_pkt_out, tx_inp,
                  pc = "tx_bell")
      BY <1>0, <2>2, RingReap DEF XmitSpin, ReapTx, TxRingInv
    <3>2. RingInv(tx_ring, tx_addr, tx_out, tx_pkt_out, tx_inp,
                  pc = "tx_bell")'
      BY <2>2, <3>1 DEF XmitSpin, ReapTx, RingInv, nicVars, nicTx
    <3>3. RingNext(tx_inp) # RingNext(tx_out)
      BY <1>0, <2>2, RingNextDiffers DEF XmitSpin, TxRingInv
    <3>4. skb # NoBuf /\ \A s \in Slots : tx_ring'[s] # skb
      BY <1>0, <2>2 DEF XmitSpin, ReapTx, TxRingInv
    <3> QED
      BY <2>2, <3>2, <3>3, <3>4
         DEF XmitSpin, ReapTx, TxRingInv, nicVars, nicTx
  <2>3. CASE XmitPost
    <3>1. RingInv(tx_ring, tx_addr, tx_out, tx_pkt_out, tx_inp, FALSE)
      BY <2>3 DEF XmitPost, TxRingInv, RingInv
    <3>2. RingInv(tx_ring', tx_addr', tx_out, tx_pkt_out, tx_inp, TRUE)
      BY <1>0, <2>3, <3>1, RingFill DEF XmitPost, TxRingInv
    <3>3. RingInv(tx_ring, tx_addr, tx_out, tx_pkt_out, tx_inp,
                  pc = "tx_bell")'
      BY <2>3, <3>2 DEF XmitPost, RingInv
    <3> QED
      BY <2>3, <3>3 DEF XmitPost, TxRingInv
  <2>4. CASE XmitDoorbell
    <3>1. RingInv(tx_ring, tx_addr, tx_out, tx_pkt_out, tx_inp, TRUE)
      BY <2>4 DEF XmitDoorbell, TxRingInv, RingInv
    <3>2. RingInv(tx_ring, tx_addr, tx_out, tx_pkt_out, RingNext(tx_inp),
                  FALSE)
      BY <1>0, <3>1, RingPost
    <3>3. RingInv(tx_ring, tx_addr, tx_out, tx_pkt_out, tx_inp,
                  pc = "tx_bell")'
      BY <2>4, <3>2 DEF XmitDoorbell, RingInv
    <3>4. tx_start => tx_pkt_out # RingNext(tx_inp)
      BY <1>0, <2>4, <3>1, RingMaskAssumption
         DEF RingInv, RingDist, RingNext, Slots, TxRingInv
    <3> QED
      BY <2>4, <3>3, <3>4 DEF XmitDoorbell, TxRingInv
  <2> QED
    BY <1>3, <2>1, <2>2, <2>3, <2>4 DEF Xmit
<1>4. CASE AddRxBuffers
  BY <1>4, TxKept DEF AddRxBuffers, AddRxBuffer, AddRxDoorbell, AddRxReturn,
                      AddRxReturnTo, nicVars
<1>5. CASE Isr
  <2>1. CASE IsrEnter \/ IsrAck \/ IsrRx \/ IsrExit
    BY <2>1, TxKept DEF IsrEnter, IsrAck, IsrRx, IsrExit, nicVars
  <2>2. CASE IsrTx /\ ReapTx
    BY <2>2, TxReaped DEF IsrTx, nicVars
  <2>3. CASE IsrTx /\ UNCHANGED drvTx
    BY <2>3, TxKept DEF IsrTx, nicVars
  <2> QED
    BY <1>5, <2>1, <2>2, <2>3 DEF Isr, IsrTx
<1>6. CASE Open
  <2>1. CASE OpenEnter \/ OpenIntEnable
    BY <2>1, TxKept DEF OpenEnter, OpenIntEnable, nicVars
  <2>2. CASE OpenNicEnable
    BY <2>2 DEF OpenNicEnable, TxRingInv, RingInv, drvTx
  <2> QED
    BY <1>6, <2>1, <2>2 DEF Open
<1>7. CASE Close
  <2>1. CASE CloseBegin
    BY <2>1, TxKeptInPlace DEF CloseBegin, nicVars, control
  <2>2. CASE CloseEnter \/ CloseIntDisable \/ CloseWaitIdle
    BY <2>2, TxKept DEF CloseEnter, CloseIntDisable, CloseWaitIdle, nicVars
  <2>3. CASE CloseNicDisable
    BY <2>3 DEF CloseNicDisable, TxRingInv, RingInv, drvTx
  <2>4. CASE CloseDrainTx
    BY <2>4, TxReaped DEF CloseDrainTx, nicVars
  <2>5. CASE CloseExit
    <3>1. tx_pkt_out = tx_out
      BY <1>0, <2>5, RingEmpty DEF CloseExit, TxRingInv, RingInv
    <3>2. UNCHANGED <<nicTx, drvTx, skb>>
      BY <2>5, <3>1 DEF CloseExit, WriteTxPktOut, nicTx
    <3> QED
      BY <2>5, <3>2, TxKept DEF CloseExit
  <2> QED
    BY <1>7, <2>1, <2>2, <2>3, <2>4, <2>5 DEF Close
<1>8. CASE ChangeMtu
  <2>1. CASE MtuBegin
    BY <2>1, TxKeptInPlace DEF MtuBegin, nicVars, control
  <2>2. CASE MtuEnter \/ MtuRxDisable \/ MtuWaitIdle \/ MtuRxEnable
    BY <2>2, TxKept DEF MtuEnter, MtuRxDisable, MtuWaitIdle, MtuRxEnable,
                        nicVars
  <2> QED
    BY <1>8, <2>1, <2>2 DEF ChangeMtu
<1>9. CASE UNCHANGED vars
  BY <1>9, TxKeptInPlace DEF vars, nicVars, drvVars, control
<1> QED
  BY <1>1, <1>2, <1>3, <1>4, <1>5, <1>6, <1>7, <1>8, <1>9 DEF Next

-----------------------------------------------------------------------------
(* What follows for every reachable state.                                 *)

\* Both rings stay well formed whatever order the NIC, the handler, the stack
\* and the configuration calls move in: the strengthening the next theorems use.
LEMMA RingsKept == Spec => [](TypeOK /\ RxRingInv /\ TxRingInv)
<1>1. Init => RxRingInv /\ TxRingInv
  BY RingMaskAssumption
     DEF Init, NicInit, RxRingInv, TxRingInv, RingInv, RingDist, Slots
<1>2. TypeOK /\ RxRingInv /\ TxRingInv /\ [Next]_vars
        => RxRingInv' /\ TxRingInv'
  BY RxRingStep, TxRingStep
<1> QED
  BY <1>1, <1>2, TypeCorrect, PTL DEF Spec

\* The same as the property that is checked.
THEOREM RingsWellFormed == Spec => []RingsAreWellFormed
<1>1. TypeOK /\ RxRingInv /\ TxRingInv => RingsAreWellFormed
  BY DEF RingsAreWellFormed
<1> QED
  BY <1>1, RingsKept, PTL

\* The driver's and the NIC's pointers never overtake each other.
THEOREM PointersOrdered == Spec => []PointerOrder
<1>1. RxRingInv /\ TxRingInv => PointerOrder
  BY DEF RxRingInv, TxRingInv, RingInv, PointerOrder
<1> QED
  BY <1>1, RingsKept, PTL

\* The NIC never touches memory the driver does not keep mapped for it, also
\* not while the interface is closed or its MTU changed under traffic.
THEOREM DmaIsSafe == Spec => []DmaIntoOwnedBuffer
<1>1. TypeOK /\ RxRingInv => (rx_start => /\ rx_ring[rx_pkt_out] # NoBuf
                                          /\ rx_addr[rx_pkt_out]
                                               = rx_ring[rx_pkt_out])
  BY RingMaskAssumption
     DEF TypeOK, NicTypeOK, RxRingInv, RingInv, RingDist, Slots
<1>2. TypeOK /\ TxRingInv => (tx_start => /\ tx_ring[tx_pkt_out] # NoBuf
                                          /\ tx_addr[tx_pkt_out]
                                               = tx_ring[tx_pkt_out])
  BY RingMaskAssumption
     DEF TypeOK, NicTypeOK, TxRingInv, RingInv, RingDist, Slots
<1>3. TypeOK /\ RxRingInv /\ TxRingInv => DmaIntoOwnedBuffer
  BY <1>1, <1>2 DEF DmaIntoOwnedBuffer
<1> QED
  BY <1>3, RingsKept, PTL

\* No buffer is in two slots, and none is left behind where neither a completion
\* nor a close will find it.
THEOREM BuffersAccounted == Spec => []NoBufferLostOrShared
<1>1. RxRingInv /\ TxRingInv => NoBufferLostOrShared
  BY DEF RxRingInv, TxRingInv, RingInv, RingWindow, NoBufferLostOrShared
<1> QED
  BY <1>1, RingsKept, PTL

-----------------------------------------------------------------------------
(* Interrupts and the transmit queue.                                      *)

\* Routines keep to their steps and to the calls they belong to.
LEMMA CallStep ==
    ASSUME CallInv, [Next]_vars
    PROVE  CallInv'
<1> USE DEF CallInv, Goto, Lock, Unlock, net, control, drvVars
<1>1. CASE Nic \/ IrqDispatch
  BY <1>1 DEF Nic, IrqDispatch
<1>2. CASE Xmit
  BY <1>2 DEF Xmit, XmitEnter, XmitSpin, XmitPost, XmitDoorbell
<1>3. CASE AddRxBuffers
  BY <1>3 DEF AddRxBuffers, AddRxBuffer, AddRxDoorbell, AddRxReturn, AddRxReturnTo
<1>4. CASE Isr
  BY <1>4 DEF Isr, IsrEnter, IsrAck, IsrRx, IsrTx, IsrExit
<1>5. CASE Open
  BY <1>5 DEF Open, OpenEnter, OpenIntEnable, OpenNicEnable
<1>6. CASE Close
  BY <1>6 DEF Close, CloseBegin, CloseEnter, CloseIntDisable, CloseNicDisable,
              CloseWaitIdle, CloseDrainTx, CloseExit
<1>7. CASE ChangeMtu
  BY <1>7 DEF ChangeMtu, MtuBegin, MtuEnter, MtuRxDisable, MtuWaitIdle, MtuRxEnable
<1>8. CASE UNCHANGED vars
  BY <1>8 DEF vars
<1> QED
  BY <1>1, <1>2, <1>3, <1>4, <1>5, <1>6, <1>7, <1>8 DEF Next

\* A flag is cleared only where the handler looks at both rings afterwards.
LEMMA InterruptStep ==
    ASSUME TypeOK, CallInv, RxRingInv, InterruptInv, [Next]_vars
    PROVE  InterruptInv'
<1> USE DEF InterruptInv, CallInv, Goto, Lock, Unlock, net, control, drvVars, drvRx, drvTx,
           nicVars, nicRx, nicTx, nicInt, ReapTx
<1>1. CASE Nic
  BY <1>1 DEF Nic, NicNext, RxBegin, RxFinish, TxBegin, TxFinish
<1>2. CASE IrqDispatch
  BY <1>2 DEF IrqDispatch
<1>3. CASE Xmit
  BY <1>3 DEF Xmit, XmitEnter, XmitSpin, XmitPost, XmitDoorbell
<1>4. CASE AddRxBuffers
  BY <1>4 DEF AddRxBuffers, AddRxBuffer, AddRxDoorbell, AddRxReturn, AddRxReturnTo
<1>5. CASE Isr
  <2>1. CASE IsrEnter \/ IsrAck \/ IsrTx \/ IsrExit
    BY <2>1 DEF IsrEnter, IsrAck, IsrTx, IsrExit, ClearIntStatus
  <2>2. CASE IsrRx
    BY <2>2 DEF IsrRx
  <2> QED BY <1>5, <2>1, <2>2 DEF Isr
<1>6. CASE Open
  BY <1>6 DEF Open, OpenEnter, OpenIntEnable, OpenNicEnable
<1>7. CASE Close
  <2>1. CASE CloseBegin \/ CloseEnter \/ CloseIntDisable \/ CloseNicDisable
    BY <2>1 DEF CloseBegin, CloseEnter, CloseIntDisable, CloseNicDisable
  <2>2. CASE CloseWaitIdle
    BY <2>2 DEF CloseWaitIdle, DisposeRxBuffers, WriteRxPktOut, RxRingInv
  <2>3. CASE CloseDrainTx
    BY <2>3 DEF CloseDrainTx
  <2>4. CASE CloseExit
    BY <2>4 DEF CloseExit, WriteTxPktOut
  <2> QED BY <1>7, <2>1, <2>2, <2>3, <2>4 DEF Close
<1>8. CASE ChangeMtu
  <2>1. CASE MtuBegin \/ MtuEnter \/ MtuRxDisable \/ MtuRxEnable
    BY <2>1 DEF MtuBegin, MtuEnter, MtuRxDisable, MtuRxEnable
  <2>2. CASE MtuWaitIdle
    BY <2>2 DEF MtuWaitIdle, DisposeRxBuffers, WriteRxPktOut, RxRingInv
  <2> QED BY <1>8, <2>1, <2>2 DEF ChangeMtu
<1>9. CASE UNCHANGED vars
  BY <1>9 DEF vars
<1> QED
  BY <1>1, <1>2, <1>3, <1>4, <1>5, <1>6, <1>7, <1>8, <1>9 DEF Next

\* How much room a ring has, empty and after a packet more.
LEMMA RingRoom ==
    ASSUME NEW i \in Slots, NEW j \in Slots
    PROVE  /\ i = j => ~(RingDist(RingNext(i), j) < RingMask \div 2)
           /\ RingDist(RingNext(i), j) = 0 <=> RingNext(i) = j
           /\ RingMask >= 3 /\ RingNext(i) = j =>
                  RingDist(RingNext(i), j) < RingMask \div 2
           /\ RingNext(i) = RingNext(j) => i = j
  BY RingMaskAssumption DEF RingDist, RingNext, Slots

\* The queue is woken whenever the handler leaves the ring empty.
LEMMA QueueStep ==
    ASSUME TypeOK, CallInv, TxRingInv, QueueInv, [Next]_vars
    PROVE  QueueInv'
<1>1. tx_inp \in Slots /\ tx_out \in Slots
  BY DEF TypeOK
<1> USE DEF QueueInv, CallInv, Goto, Lock, Unlock, net, control, drvVars, drvTx
<1>2. CASE Nic \/ IrqDispatch
  BY <1>2 DEF Nic, IrqDispatch
<1>3. CASE Xmit
  <2>1. CASE XmitEnter \/ XmitSpin \/ XmitPost
    BY <2>1 DEF XmitEnter, XmitSpin, XmitPost
  <2>2. CASE XmitDoorbell
    <3>1. tx_inp' # tx_out' /\ (up \/ rtnl = "close") /\ pc' = "free" /\ op' = "none"
      BY <2>2 DEF XmitDoorbell, TxRingInv, RingInv
    <3> QED BY <2>2, <3>1 DEF XmitDoorbell
  <2> QED BY <1>3, <2>1, <2>2 DEF Xmit
<1>4. CASE AddRxBuffers
  BY <1>4 DEF AddRxBuffers, AddRxBuffer, AddRxDoorbell, AddRxReturn
<1>5. CASE Isr
  <2>1. CASE IsrEnter \/ IsrAck \/ IsrRx
    BY <2>1 DEF IsrEnter, IsrAck, IsrRx
  <2>2. CASE IsrTx
    <3>1. ReapTx => tx_out # tx_inp
      BY <1>1, RingEmpty DEF ReapTx, TxRingInv, RingInv, TypeOK, NicTypeOK
    <3> QED BY <2>2, <3>1 DEF IsrTx
  <2>3. CASE IsrExit
    <3>1. tx_out = tx_inp => ~queue_stopped'
      BY <1>1, <2>3, RingRoom DEF IsrExit, WakeQueue, TxRingFree
    <3> QED BY <2>3, <3>1 DEF IsrExit, WakeQueue
  <2> QED BY <1>5, <2>1, <2>2, <2>3 DEF Isr
<1>6. CASE Open
  BY <1>6 DEF Open, OpenEnter, OpenIntEnable, OpenNicEnable
<1>7. CASE Close
  BY <1>7 DEF Close, CloseBegin, CloseEnter, CloseIntDisable, CloseNicDisable,
              CloseWaitIdle, CloseDrainTx, CloseExit
<1>8. CASE ChangeMtu
  BY <1>8 DEF ChangeMtu, MtuBegin, MtuEnter, MtuRxDisable, MtuWaitIdle, MtuRxEnable
<1>9. CASE UNCHANGED vars
  BY <1>9 DEF vars
<1> QED
  BY <1>2, <1>3, <1>4, <1>5, <1>6, <1>7, <1>8, <1>9 DEF Next

\* In a ring of four slots or more it is woken only when there is room.
LEMMA RoomStep ==
    ASSUME TypeOK, CallInv, TxRingInv, QueueInv, RoomInv, RingMask >= 3, [Next]_vars
    PROVE  RoomInv'
<1>1. tx_inp \in Slots /\ tx_out \in Slots /\ queue_stopped \in BOOLEAN
  BY DEF TypeOK
<1> USE DEF RoomInv, CallInv, Goto, Lock, Unlock, net, control, drvVars, drvTx
<1>2. CASE Nic \/ IrqDispatch
  BY <1>2 DEF Nic, IrqDispatch
<1>3. CASE Xmit
  <2>1. CASE XmitEnter \/ XmitSpin \/ XmitPost
    BY <2>1 DEF XmitEnter, XmitSpin, XmitPost
  <2>2. CASE XmitDoorbell
    <3> DEFINE next == RingNext(tx_inp)
    <3>1. next \in Slots
      BY <1>1, RingTypes
    <3>2. ~queue_stopped' => RingNext(next) # tx_out
      BY <1>1, <2>2, <3>1, RingRoom DEF XmitDoorbell, WakeQueue
    <3> QED BY <2>2, <3>2 DEF XmitDoorbell
  <2> QED BY <1>3, <2>1, <2>2 DEF Xmit
<1>4. CASE AddRxBuffers
  BY <1>4 DEF AddRxBuffers, AddRxBuffer, AddRxDoorbell, AddRxReturn, AddRxReturnTo
<1>5. CASE Isr
  <2>1. CASE IsrEnter \/ IsrAck \/ IsrRx
    BY <2>1 DEF IsrEnter, IsrAck, IsrRx
  <2>2. CASE IsrTx
    <3>1. ReapTx => tx_out # tx_inp /\ tx_inp' = tx_inp /\ tx_out' = RingNext(tx_out)
      BY <1>1, RingEmpty DEF ReapTx, TxRingInv, RingInv, TypeOK, NicTypeOK
    <3>2. ReapTx => RingNext(tx_inp') # tx_out'
      BY <1>1, <3>1, RingRoom
    <3> QED BY <2>2, <3>2 DEF IsrTx
  <2>3. CASE IsrExit
    <3>1. ~queue_stopped' => ~queue_stopped \/ RingNext(tx_inp) # tx_out
      BY <1>1, <2>3, RingRoom DEF IsrExit, WakeQueue, TxRingFree
    <3> QED BY <2>3, <3>1 DEF IsrExit, WakeQueue
  <2> QED BY <1>5, <2>1, <2>2, <2>3 DEF Isr
<1>6. CASE Open
  <2>1. CASE OpenNicEnable
    BY <1>1, <2>1, RingNextDiffers DEF OpenNicEnable, QueueInv
  <2> QED BY <1>6, <2>1 DEF Open, OpenEnter, OpenIntEnable
<1>7. CASE Close
  BY <1>7 DEF Close, CloseBegin, CloseEnter, CloseIntDisable, CloseNicDisable,
              CloseWaitIdle, CloseDrainTx, CloseExit
<1>8. CASE ChangeMtu
  BY <1>8 DEF ChangeMtu, MtuBegin, MtuEnter, MtuRxDisable, MtuWaitIdle, MtuRxEnable
<1>9. CASE UNCHANGED vars
  BY <1>9 DEF vars
<1> QED
  BY <1>2, <1>3, <1>4, <1>5, <1>6, <1>7, <1>8, <1>9 DEF Next

LEMMA CallsOrdered == Spec => []CallInv
<1>1. Init => CallInv
  BY DEF Init, CallInv
<1>2. CallInv /\ [Next]_vars => CallInv'
  BY CallStep
<1> QED
  BY <1>1, <1>2, PTL DEF Spec

\* A packet the NIC has finished, in either ring, is never forgotten: whenever the lock
\* is free and interrupts are on, the interrupt is raised or its handler waits.
THEOREM InterruptNeverLost == Spec => []NoLostInterrupt
<1>1. Init => InterruptInv
  BY DEF Init, NicInit, InterruptInv
<1>2. TypeOK /\ CallInv /\ RxRingInv /\ InterruptInv /\ [Next]_vars => InterruptInv'
  BY InterruptStep
<1>3. CallInv /\ InterruptInv => NoLostInterrupt
  BY DEF CallInv, InterruptInv, NoLostInterrupt, Interrupt
<1> QED
  BY <1>1, <1>2, <1>3, CallsOrdered, RingsKept, PTL DEF Spec

LEMMA QueueKept == Spec => []QueueInv
<1>1. Init => QueueInv
  BY DEF Init, NicInit, QueueInv
<1>2. TypeOK /\ CallInv /\ TxRingInv /\ QueueInv /\ [Next]_vars => QueueInv'
  BY QueueStep
<1> QED
  BY <1>1, <1>2, CallsOrdered, RingsKept, PTL DEF Spec

\* A stopped queue always has a packet out whose completion wakes it.
THEOREM StoppedQueueWakes == Spec => []StoppedQueueHasPacketOut
<1>1. CallInv /\ QueueInv => StoppedQueueHasPacketOut
  BY DEF CallInv, QueueInv, StoppedQueueHasPacketOut
<1> QED
  BY <1>1, CallsOrdered, QueueKept, PTL

\* axi_eth_xmit never finds the ring full, in a ring of four slots or more: it never
\* spins with the lock held.
THEOREM XmitFindsRoom ==
    ASSUME RingMask >= 3
    PROVE  Spec => []XmitNeverSpins
<1>1. Init => RoomInv
  BY DEF Init, RoomInv
<1>2. TypeOK /\ CallInv /\ TxRingInv /\ QueueInv /\ RoomInv /\ [Next]_vars => RoomInv'
  BY RoomStep
<1>3. RoomInv => XmitNeverSpins
  BY DEF RoomInv, XmitNeverSpins
<1> QED
  BY <1>1, <1>2, <1>3, CallsOrdered, QueueKept, RingsKept, PTL DEF Spec

-----------------------------------------------------------------------------
(* The sequence a window of a ring stands for.                             *)

\* Distances and positions.
LEMMA RingArithmetic ==
    ASSUME NEW a \in Slots, NEW b \in Slots
    PROVE  /\ RingDist(a, b) \in 0 .. RingMask
           /\ RingDist(a, b) = 0 <=> a = b
           /\ RingNext(b) # a => RingDist(a, RingNext(b)) = RingDist(a, b) + 1
           /\ a # b => RingDist(RingNext(a), b) = RingDist(a, b) - 1
           /\ RingAdvance(a, 0) = a
           /\ RingAdvance(a, RingDist(a, b)) = b
           /\ \A i \in 0 .. RingMask :
                  /\ RingAdvance(a, i) \in Slots
                  /\ RingDist(a, RingAdvance(a, i)) = i
                  /\ i < RingMask => RingAdvance(RingNext(a), i) = RingAdvance(a, i + 1)
  BY RingMaskAssumption DEF RingDist, RingNext, RingAdvance, Slots

\* What the slots of a ring hold.
InSlots(f) == {f[s] : s \in Slots}

LEMMA RingSeqType ==
    ASSUME NEW f, NEW a \in Slots, NEW b \in Slots
    PROVE  /\ RingSeq(f, a, b) \in Seq(InSlots(f))
           /\ Len(RingSeq(f, a, b)) = RingDist(a, b)
           /\ \A i \in 1 .. RingDist(a, b) : RingSeq(f, a, b)[i] = f[RingAdvance(a, i - 1)]
<1> DEFINE n == RingDist(a, b)
<1>1. n \in Nat /\ n <= RingMask
  BY RingMaskAssumption, RingArithmetic
<1>2. \A i \in 1 .. n : i - 1 \in 0 .. RingMask
  BY <1>1, RingMaskAssumption
<1>3. \A i \in 1 .. n : f[RingAdvance(a, i - 1)] \in InSlots(f)
  BY <1>2, RingArithmetic DEF InSlots
<1>4. RingSeq(f, a, b) = [i \in 1 .. n |-> f[RingAdvance(a, i - 1)]]
  BY DEF RingSeq
<1> HIDE DEF n
<1>5. RingSeq(f, a, b) \in [1 .. n -> InSlots(f)]
  BY <1>3, <1>4
<1> QED
  BY <1>1, <1>4, <1>5, LenProperties DEF n

\* A slot added at the end, one taken from the front, a change outside.
LEMMA RingSeqAppend ==
    ASSUME NEW f, NEW a \in Slots, NEW b \in Slots, RingNext(b) # a
    PROVE  RingSeq(f, a, RingNext(b)) = Append(RingSeq(f, a, b), f[b])
<1> DEFINE s == RingSeq(f, a, b)
           t == RingSeq(f, a, RingNext(b))
           n == RingDist(a, b)
<1>1. n \in Nat /\ RingDist(a, RingNext(b)) = n + 1 /\ RingAdvance(a, n) = b
  BY RingArithmetic
<1>2. RingNext(b) \in Slots
  BY RingTypes
<1>3. /\ s \in Seq(InSlots(f)) /\ Len(s) = n
      /\ \A i \in 1 .. n : s[i] = f[RingAdvance(a, i - 1)]
  BY RingSeqType
<1>4. /\ t \in Seq(InSlots(f)) /\ Len(t) = n + 1
      /\ \A i \in 1 .. n + 1 : t[i] = f[RingAdvance(a, i - 1)]
  <2> DEFINE next == RingNext(b)
  <2>1. next \in Slots /\ RingDist(a, next) = n + 1
    BY <1>1, <1>2
  <2> HIDE DEF next, n
  <2>2. /\ RingSeq(f, a, next) \in Seq(InSlots(f)) /\ Len(RingSeq(f, a, next)) = n + 1
        /\ \A i \in 1 .. n + 1 : RingSeq(f, a, next)[i] = f[RingAdvance(a, i - 1)]
    <3>1. /\ RingSeq(f, a, next) \in Seq(InSlots(f))
          /\ Len(RingSeq(f, a, next)) = RingDist(a, next)
          /\ \A i \in 1 .. RingDist(a, next) :
                 RingSeq(f, a, next)[i] = f[RingAdvance(a, i - 1)]
      BY <2>1, RingSeqType
    <3> QED BY <2>1, <3>1
  <2> QED BY <2>2 DEF next
<1>5. f[b] \in InSlots(f)
  BY DEF InSlots
<1> HIDE DEF s, t, n
<1>6. /\ Append(s, f[b]) \in Seq(InSlots(f)) /\ Len(Append(s, f[b])) = n + 1
      /\ \A i \in 1 .. n + 1 : Append(s, f[b])[i] = IF i <= n THEN s[i] ELSE f[b]
  BY <1>1, <1>3, <1>5
<1>7. t[n + 1] = f[b]
  BY <1>1, <1>4
<1>8. ASSUME NEW i \in 1 .. n + 1
      PROVE  t[i] = Append(s, f[b])[i]
  <2>1. CASE i = n + 1
    BY <1>1, <1>6, <1>7, <2>1
  <2>2. CASE i # n + 1
    <3>1. i \in 1 .. n /\ i <= n
      BY <1>1, <2>2
    <3>2. Append(s, f[b])[i] = s[i]
      BY <1>6, <3>1
    <3> QED BY <1>3, <1>4, <3>1, <3>2
  <2> QED BY <2>1, <2>2
<1>9. t = Append(s, f[b])
  BY <1>4, <1>6, <1>8, SeqEqual
<1> QED
  BY <1>9 DEF s, t

LEMMA RingSeqTail ==
    ASSUME NEW f, NEW a \in Slots, NEW b \in Slots, a # b
    PROVE  /\ RingSeq(f, a, b) # <<>>
           /\ Head(RingSeq(f, a, b)) = f[a]
           /\ Tail(RingSeq(f, a, b)) = RingSeq(f, RingNext(a), b)
<1> DEFINE s == RingSeq(f, a, b)
           t == RingSeq(f, RingNext(a), b)
           n == RingDist(a, b)
<1>1. /\ n \in 1 .. RingMask /\ RingDist(RingNext(a), b) = n - 1
      /\ RingAdvance(a, 0) = a
      /\ \A i \in 0 .. RingMask - 1 : RingAdvance(RingNext(a), i) = RingAdvance(a, i + 1)
  <2>1. n \in 0 .. RingMask /\ n # 0 /\ RingDist(RingNext(a), b) = n - 1
    BY RingArithmetic
  <2>2. \A i \in 0 .. RingMask - 1 : i \in 0 .. RingMask /\ i < RingMask
    BY RingMaskAssumption
  <2> HIDE DEF n
  <2>3. n \in 1 .. RingMask
    BY <2>1, RingMaskAssumption
  <2> QED BY <2>1, <2>2, <2>3, RingArithmetic
<1>2. RingNext(a) \in Slots
  BY RingTypes
<1>3. /\ s \in Seq(InSlots(f)) /\ Len(s) = n
      /\ \A i \in 1 .. n : s[i] = f[RingAdvance(a, i - 1)]
  BY RingSeqType
<1>4. /\ t \in Seq(InSlots(f)) /\ Len(t) = n - 1
      /\ \A i \in 1 .. n - 1 : t[i] = f[RingAdvance(RingNext(a), i - 1)]
  <2> DEFINE next == RingNext(a)
  <2>1. next \in Slots /\ RingDist(next, b) = n - 1
    BY <1>1, <1>2
  <2> HIDE DEF next, n
  <2>2. /\ RingSeq(f, next, b) \in Seq(InSlots(f)) /\ Len(RingSeq(f, next, b)) = n - 1
        /\ \A i \in 1 .. n - 1 : RingSeq(f, next, b)[i] = f[RingAdvance(next, i - 1)]
    <3>1. /\ RingSeq(f, next, b) \in Seq(InSlots(f))
          /\ Len(RingSeq(f, next, b)) = RingDist(next, b)
          /\ \A i \in 1 .. RingDist(next, b) :
                 RingSeq(f, next, b)[i] = f[RingAdvance(next, i - 1)]
      BY <2>1, RingSeqType
    <3> QED BY <2>1, <3>1
  <2> QED BY <2>2 DEF next
<1> HIDE DEF s, t, n
<1>5. s # <<>>
  BY <1>1, <1>3
<1>6. Head(s) = f[a]
  <2>1. s[1] = f[RingAdvance(a, 1 - 1)]
    BY <1>1, <1>3
  <2> QED BY <1>1, <1>3, <1>5, <2>1
<1>7. /\ Tail(s) \in Seq(InSlots(f)) /\ Len(Tail(s)) = n - 1
      /\ \A i \in 1 .. n - 1 : Tail(s)[i] = s[i + 1]
  BY <1>1, <1>3, <1>5, HeadTailProperties
<1>8. ASSUME NEW i \in 1 .. n - 1
      PROVE  Tail(s)[i] = t[i]
  <2>1. i + 1 \in 1 .. n /\ i - 1 \in 0 .. RingMask - 1 /\ (i - 1) + 1 = i /\ (i + 1) - 1 = i
    BY <1>1, RingMaskAssumption
  <2>2. s[i + 1] = f[RingAdvance(a, i)]
    BY <1>3, <2>1
  <2>3. t[i] = f[RingAdvance(a, i)]
    BY <1>1, <1>4, <2>1
  <2> QED BY <1>7, <2>2, <2>3
<1>9. Tail(s) = t
  BY <1>4, <1>7, <1>8, SeqEqual
<1> QED
  BY <1>5, <1>6, <1>9 DEF s, t

\* f and g hold the same in a window; they do so everywhere but in one slot.
RingAgree(f, g, a, b) ==
    \A s \in Slots : RingDist(a, s) < RingDist(a, b) => f[s] = g[s]

RingAgreeBut(f, g, n) == \A s \in Slots : s # n => f[s] = g[s]

LEMMA RingSeqSame ==
    ASSUME NEW f, NEW g, NEW a \in Slots, NEW b \in Slots, RingAgree(f, g, a, b)
    PROVE  RingSeq(f, a, b) = RingSeq(g, a, b)
<1> DEFINE n == RingDist(a, b)
<1>1. n \in 0 .. RingMask
  BY RingArithmetic
<1>2. ASSUME NEW i \in 1 .. n
      PROVE  f[RingAdvance(a, i - 1)] = g[RingAdvance(a, i - 1)]
  <2>1. i - 1 \in 0 .. RingMask /\ i - 1 < n
    BY <1>1, RingMaskAssumption
  <2>2. RingAdvance(a, i - 1) \in Slots /\ RingDist(a, RingAdvance(a, i - 1)) = i - 1
    BY <2>1, RingArithmetic
  <2> QED BY <2>1, <2>2 DEF RingAgree
<1> QED
  BY <1>2 DEF RingSeq

LEMMA RingSeqEmpty ==
    ASSUME NEW f, NEW a \in Slots
    PROVE  RingSeq(f, a, a) = <<>>
<1>1. RingDist(a, a) = 0
  BY RingArithmetic
<1>2. RingSeq(f, a, a) = [i \in {} |-> f[RingAdvance(a, i - 1)]]
  BY <1>1 DEF RingSeq
<1> QED
  BY <1>2

-----------------------------------------------------------------------------
(* What happens to a ring, seen as the two sequences of DmaRing.           *)

\* The driver's part and the NIC's part of a window make up the whole.
LEMMA RingParts ==
    ASSUME NEW p \in Slots, NEW q \in Slots, NEW n \in Slots,
           RingDist(p, q) <= RingDist(p, n)
    PROVE  /\ RingDist(p, q) + RingDist(q, n) = RingDist(p, n)
           /\ RingNext(n) # p => RingDist(p, n) < RingMask
           /\ \A s \in Slots :
                  /\ RingDist(p, s) < RingDist(p, q) => RingDist(p, s) < RingDist(p, n)
                  /\ RingDist(q, s) < RingDist(q, n) => s # n
                  /\ RingDist(p, s) < RingDist(p, n) => s # n
  BY RingMaskAssumption DEF RingDist, RingNext, Slots

\* Filling a slot that is not posted yet shows in neither.
LEMMA FillHidden ==
    ASSUME NEW ring, NEW addr, NEW ring2, NEW addr2,
           NEW p \in Slots, NEW q \in Slots, NEW n \in Slots,
           RingDist(p, q) <= RingDist(p, n),
           RingAgreeBut(ring2, ring, n), RingAgreeBut(addr2, addr, n)
    PROVE  /\ RingSeq(addr2, q, n) = RingSeq(addr, q, n)
           /\ RingSeq(ring2, p, q) = RingSeq(ring, p, q)
<1>1. RingAgree(addr2, addr, q, n)
  BY RingParts DEF RingAgree, RingAgreeBut
<1>2. RingAgree(ring2, ring, p, q)
  BY RingParts DEF RingAgree, RingAgreeBut
<1> QED
  BY <1>1, <1>2, RingSeqSame

\* A value that is in no slot of a window is not in its sequence.
RingLacks(f, a, b, v) ==
    \A s \in Slots : RingDist(a, s) < RingDist(a, b) => f[s] # v

LEMMA RingSeqWithout ==
    ASSUME NEW f, NEW a \in Slots, NEW b \in Slots, NEW v,
           RingLacks(f, a, b, v)
    PROVE  /\ Len(RingSeq(f, a, b)) = RingDist(a, b)
           /\ \A i \in 1 .. Len(RingSeq(f, a, b)) : RingSeq(f, a, b)[i] # v
<1> DEFINE t == RingSeq(f, a, b)
<1>1. /\ t \in Seq(InSlots(f))
      /\ Len(t) = RingDist(a, b)
      /\ \A i \in 1 .. RingDist(a, b) : t[i] = f[RingAdvance(a, i - 1)]
  BY RingSeqType
<1>2. RingDist(a, b) \in 0 .. RingMask
  BY RingArithmetic
<1> HIDE DEF t
<1>3. ASSUME NEW i \in 1 .. RingDist(a, b)
      PROVE  t[i] # v
  <2>1. i - 1 \in 0 .. RingMask /\ i - 1 < RingDist(a, b)
    BY <1>2, RingMaskAssumption
  <2>2. /\ RingAdvance(a, i - 1) \in Slots
        /\ RingDist(a, RingAdvance(a, i - 1)) < RingDist(a, b)
    BY <2>1, RingArithmetic
  <2> QED BY <1>1, <2>2 DEF RingLacks
<1> QED
  BY <1>1, <1>3 DEF t

\* What slot n holds is in no other slot.
RingHasOnce(f, n) == \A s \in Slots : f[s] = f[n] => s = n

\* Moving the producer posts the buffer of slot n; moving the NIC's pointer q completes
\* the oldest posted one.
RingPosts(ring, addr, p, q, n) ==
    /\ \A i \in 1 .. Len(RingSeq(addr, q, n)) : RingSeq(addr, q, n)[i] # addr[n]
    /\ \A i \in 1 .. Len(RingSeq(ring, p, q)) : RingSeq(ring, p, q)[i] # addr[n]
    /\ Len(RingSeq(addr, q, n)) + Len(RingSeq(ring, p, q)) < RingMask
    /\ RingSeq(addr, q, RingNext(n)) = Append(RingSeq(addr, q, n), addr[n])

RingCompletes(ring, addr, p, q, n) ==
    /\ RingSeq(addr, q, n) # <<>>
    /\ RingSeq(addr, RingNext(q), n) = Tail(RingSeq(addr, q, n))
    /\ RingSeq(ring, p, RingNext(q))
         = Append(RingSeq(ring, p, q), Head(RingSeq(addr, q, n)))

LEMMA DoorbellPosts ==
    ASSUME NEW ring, NEW addr, NEW p \in Slots, NEW q \in Slots, NEW n \in Slots,
           RingDist(p, q) <= RingDist(p, n), RingNext(n) # p,
           addr[n] = ring[n], RingAgree(addr, ring, q, n), RingHasOnce(ring, n)
    PROVE  RingPosts(ring, addr, p, q, n)
<1>2. /\ RingDist(p, q) + RingDist(q, n) = RingDist(p, n) /\ RingDist(p, n) < RingMask
      /\ \A s \in Slots :
             /\ RingDist(p, s) < RingDist(p, q) => s # n
             /\ RingDist(q, s) < RingDist(q, n) => s # n
  <2>1. \A s \in Slots : /\ RingDist(p, s) < RingDist(p, q) => RingDist(p, s) < RingDist(p, n)
                         /\ RingDist(p, s) < RingDist(p, n) => s # n
    BY RingParts
  <2> QED BY <2>1, RingParts
<1>3. RingDist(p, q) \in 0 .. RingMask /\ RingDist(q, n) \in 0 .. RingMask
  BY RingArithmetic
<1>4. /\ \A s \in Slots : RingDist(q, s) < RingDist(q, n) => addr[s] # addr[n]
      /\ \A s \in Slots : RingDist(p, s) < RingDist(p, q) => ring[s] # addr[n]
  BY <1>2 DEF RingAgree, RingHasOnce
<1>5. RingNext(n) # q
  BY RingMaskAssumption DEF RingDist, RingNext, Slots
<1> DEFINE buf == addr[n]
<1> HIDE DEF buf
<1>6. /\ Len(RingSeq(addr, q, n)) = RingDist(q, n)
      /\ \A i \in 1 .. Len(RingSeq(addr, q, n)) : RingSeq(addr, q, n)[i] # buf
  <2>1. RingLacks(addr, q, n, buf)
    BY <1>4 DEF buf, RingLacks
  <2> QED BY <2>1, RingSeqWithout
<1>7. /\ Len(RingSeq(ring, p, q)) = RingDist(p, q)
      /\ \A i \in 1 .. Len(RingSeq(ring, p, q)) : RingSeq(ring, p, q)[i] # buf
  <2>1. RingLacks(ring, p, q, buf)
    BY <1>4 DEF buf, RingLacks
  <2> QED BY <2>1, RingSeqWithout
<1>8. Len(RingSeq(addr, q, n)) + Len(RingSeq(ring, p, q)) < RingMask
  BY <1>2, <1>3, <1>6, <1>7, RingMaskAssumption
<1>9. RingSeq(addr, q, RingNext(n)) = Append(RingSeq(addr, q, n), addr[n])
  BY <1>5, RingSeqAppend
<1> QED
  BY <1>6, <1>7, <1>8, <1>9 DEF buf, RingPosts

LEMMA FinishCompletes ==
    ASSUME NEW ring, NEW addr, NEW p \in Slots, NEW q \in Slots, NEW n \in Slots,
           RingDist(p, q) <= RingDist(p, n), q # n, addr[q] = ring[q]
    PROVE  RingCompletes(ring, addr, p, q, n)
<1>1. RingNext(q) # p
  BY RingMaskAssumption DEF RingDist, RingNext, Slots
<1>2. RingSeq(ring, p, RingNext(q)) = Append(RingSeq(ring, p, q), ring[q])
  BY <1>1, RingSeqAppend
<1> QED
  BY <1>2, RingSeqTail DEF RingCompletes

\* The driver's step is a Reap.
LEMMA ReapTakes ==
    ASSUME NEW ring, NEW p \in Slots, NEW q \in Slots, NEW b,
           DOMAIN ring = Slots, p # q
    PROVE  /\ RingSeq(ring, p, q) # <<>>
           /\ RingSeq([ring EXCEPT ![p] = b], RingNext(p), q) = Tail(RingSeq(ring, p, q))
<1> DEFINE ring2 == [ring EXCEPT ![p] = b]
<1>1. RingNext(p) \in Slots
  BY RingTypes
<1>2. \A s \in Slots : RingDist(RingNext(p), s) < RingDist(RingNext(p), q) => s # p
  BY RingMaskAssumption DEF RingDist, RingNext, Slots
<1>3. RingAgree(ring2, ring, RingNext(p), q)
  BY <1>2 DEF RingAgree
<1> HIDE DEF ring2
<1>4. RingSeq(ring2, RingNext(p), q) = RingSeq(ring, RingNext(p), q)
  BY <1>1, <1>3, RingSeqSame
<1> QED
  BY <1>4, RingSeqTail DEF ring2

-----------------------------------------------------------------------------
(* The transmit ring.                                                      *)

LEMMA TxSlots ==
    ASSUME TypeOK
    PROVE  /\ tx_out \in Slots /\ tx_pkt_out \in Slots /\ tx_inp \in Slots
           /\ tx_ring \in [Slots -> TxBufs \cup {NoBuf}] /\ DOMAIN tx_ring = Slots
           /\ tx_addr \in [Slots -> TxBufs \cup {NoBuf}] /\ DOMAIN tx_addr = Slots
  BY DEF TypeOK, NicTypeOK

\* axi_eth_xmit writes the producer pointer: Post.
LEMMA TxPosts ==
    ASSUME TypeOK, TxRingInv, XmitDoorbell
    PROVE  \E b \in TxBufs : TxRing!Post(b)
<1> DEFINE b == tx_addr[tx_inp]
           posted == RingSeq(tx_addr, tx_pkt_out, tx_inp)
           completed == RingSeq(tx_ring, tx_out, tx_pkt_out)
<1>1. /\ \A i \in 1 .. Len(posted) : posted[i] # b
      /\ \A i \in 1 .. Len(completed) : completed[i] # b
      /\ Len(posted) + Len(completed) < RingMask
      /\ RingSeq(tx_addr, tx_pkt_out, RingNext(tx_inp)) = Append(posted, b)
      /\ b # NoBuf
  <2>1. /\ RingDist(tx_out, tx_pkt_out) <= RingDist(tx_out, tx_inp)
        /\ RingNext(tx_inp) # tx_out
        /\ tx_ring[tx_inp] # NoBuf /\ tx_addr[tx_inp] = tx_ring[tx_inp]
        /\ RingAgree(tx_addr, tx_ring, tx_pkt_out, tx_inp)
        /\ RingHasOnce(tx_ring, tx_inp)
    BY TxSlots DEF TxRingInv, RingInv, XmitDoorbell, RingAgree, RingHasOnce
  <2>2. /\ tx_out \in Slots /\ tx_pkt_out \in Slots /\ tx_inp \in Slots
    BY TxSlots
  <2>3. RingPosts(tx_ring, tx_addr, tx_out, tx_pkt_out, tx_inp)
    BY <2>1, <2>2, DoorbellPosts
  <2> QED BY <2>1, <2>3 DEF RingPosts
<1>2. /\ tx_pkt_inp = tx_inp /\ tx_pkt_inp' = RingNext(tx_inp)
      /\ UNCHANGED <<tx_addr, tx_ring, tx_pkt_out, tx_out, tx_start>>
  BY DEF TxRingInv, XmitDoorbell
<1>3. b \in TxBufs
  BY <1>1, TxSlots
<1> HIDE DEF b
<1>4. TxRing!Post(b)
  BY <1>1, <1>2 DEF TxRing!Post, TxRing!Held
<1> QED
  BY <1>3, <1>4

\* The NIC starts and finishes a packet: Start and Complete.
LEMMA TxNicSteps ==
    ASSUME TypeOK, TxRingInv, Nic
    PROVE  TxRing!Start \/ TxRing!Complete \/ UNCHANGED TxRing!ringVars
<1>1. /\ RingInv(tx_ring, tx_addr, tx_out, tx_pkt_out, tx_inp, pc = "tx_bell")
      /\ tx_pkt_inp = tx_inp /\ (tx_start => tx_pkt_out # tx_inp)
  BY DEF TxRingInv
<1>2. CASE TxBegin
  <2>1. RingSeq(tx_addr, tx_pkt_out, tx_inp) # <<>>
    BY <1>1, <1>2, TxSlots, RingSeqTail DEF TxBegin
  <2> QED
    BY <1>1, <1>2, <2>1 DEF TxBegin, Nic, drvVars, drvTx, TxRing!Start
<1>3. CASE TxFinish
  <2>1. /\ RingDist(tx_out, tx_pkt_out) <= RingDist(tx_out, tx_inp)
        /\ tx_pkt_out # tx_inp /\ tx_addr[tx_pkt_out] = tx_ring[tx_pkt_out]
    <3>1. tx_pkt_out # tx_inp
      BY <1>1, <1>3 DEF TxFinish
    <3>2. RingDist(tx_pkt_out, tx_pkt_out) < RingDist(tx_pkt_out, tx_inp)
      BY <3>1, TxSlots, RingMaskAssumption DEF RingDist, Slots
    <3> QED BY <1>1, <3>1, <3>2, TxSlots DEF RingInv
  <2>2. RingCompletes(tx_ring, tx_addr, tx_out, tx_pkt_out, tx_inp)
    BY <2>1, TxSlots, FinishCompletes
  <2> QED
    BY <1>1, <1>3, <2>2 DEF RingCompletes, TxFinish, Nic, drvVars, drvTx, TxRing!Complete
<1>4. CASE RxBegin \/ RxFinish
  BY <1>4 DEF Nic, RxBegin, RxFinish, nicTx, drvVars, drvTx, TxRing!ringVars
<1> QED
  BY <1>2, <1>3, <1>4 DEF Nic, NicNext

\* A sent packet leaves the ring: Reap.
LEMMA TxReaps ==
    ASSUME TypeOK, ReapTx, UNCHANGED nicTx
    PROVE  TxRing!Reap
<1>1. /\ RingSeq(tx_ring, tx_out, tx_pkt_out) # <<>>
      /\ RingSeq([tx_ring EXCEPT ![tx_out] = NoBuf], RingNext(tx_out), tx_pkt_out)
           = Tail(RingSeq(tx_ring, tx_out, tx_pkt_out))
  BY TxSlots, ReapTakes DEF ReapTx
<1> QED
  BY <1>1 DEF ReapTx, nicTx, TxRing!Reap

LEMMA TxSimulates ==
    ASSUME TypeOK, TxRingInv, [Next]_vars
    PROVE  [TxRing!Next]_(TxRing!ringVars)
<1> USE DEF nicTx, drvTx, TxRing!ringVars
<1>1. CASE Nic
  BY <1>1, TxNicSteps DEF TxRing!Next
<1>2. CASE Xmit
  <2>1. CASE XmitEnter
    BY <2>1 DEF XmitEnter, nicVars
  <2>2. CASE XmitSpin
    BY <2>2, TxReaps DEF XmitSpin, nicVars, TxRing!Next
  <2>3. CASE XmitPost
    <3>1. RingDist(tx_out, tx_pkt_out) <= RingDist(tx_out, tx_inp)
      BY DEF TxRingInv, RingInv
    <3>2. RingAgreeBut(tx_ring', tx_ring, tx_inp) /\ RingAgreeBut(tx_addr', tx_addr, tx_inp)
      BY <2>3, TxSlots DEF XmitPost, RingAgreeBut
    <3>3. /\ RingSeq(tx_addr', tx_pkt_out, tx_inp) = RingSeq(tx_addr, tx_pkt_out, tx_inp)
          /\ RingSeq(tx_ring', tx_out, tx_pkt_out) = RingSeq(tx_ring, tx_out, tx_pkt_out)
      BY <3>1, <3>2, TxSlots, FillHidden
    <3> QED BY <2>3, <3>3 DEF XmitPost, TxRingInv
  <2>4. CASE XmitDoorbell
    BY <2>4, TxPosts DEF TxRing!Next
  <2> QED BY <1>2, <2>1, <2>2, <2>3, <2>4 DEF Xmit
<1>3. CASE AddRxBuffers
  BY <1>3 DEF AddRxBuffers, AddRxBuffer, AddRxDoorbell, AddRxReturn, nicVars
<1>4. CASE Isr
  <2>1. CASE IsrTx
    <3>1. CASE ReapTx
      BY <2>1, <3>1, TxReaps DEF IsrTx, nicVars, TxRing!Next
    <3>2. CASE UNCHANGED drvTx
      BY <2>1, <3>2 DEF IsrTx, nicVars
    <3> QED BY <2>1, <3>1, <3>2 DEF IsrTx
  <2>2. CASE IsrEnter \/ IsrAck \/ IsrRx \/ IsrExit
    BY <2>2 DEF IsrEnter, IsrAck, IsrRx, IsrExit, nicVars
  <2> QED BY <1>4, <2>1, <2>2 DEF Isr
<1>5. CASE Open
  BY <1>5 DEF Open, OpenEnter, OpenIntEnable, OpenNicEnable, nicVars
<1>6. CASE Close
  <2>1. CASE CloseDrainTx
    BY <2>1, TxReaps DEF CloseDrainTx, nicVars, TxRing!Next
  <2>2. CASE CloseExit
    <3>1. tx_pkt_out = tx_out
      BY <2>2, TxSlots, RingEmpty DEF CloseExit, TxRingInv, RingInv
    <3> QED BY <2>2, <3>1 DEF CloseExit, WriteTxPktOut
  <2>3. CASE \/ CloseBegin \/ CloseEnter \/ CloseIntDisable \/ CloseNicDisable
             \/ CloseWaitIdle
    BY <2>3 DEF CloseBegin, CloseEnter, CloseIntDisable, CloseNicDisable, CloseWaitIdle,
                nicVars
  <2> QED BY <1>6, <2>1, <2>2, <2>3 DEF Close
<1>7. CASE ChangeMtu
  BY <1>7 DEF ChangeMtu, MtuBegin, MtuEnter, MtuRxDisable, MtuWaitIdle, MtuRxEnable, nicVars
<1>8. CASE IrqDispatch \/ UNCHANGED vars
  BY <1>8 DEF IrqDispatch, vars, nicVars, drvVars
<1> QED
  BY <1>1, <1>2, <1>3, <1>4, <1>5, <1>6, <1>7, <1>8 DEF Next

\* Packets go out in the order the stack gave them, each once, and their memory is
\* released only after the NIC has read it: the transmit ring is a DmaRing.
THEOREM TxRefinesDmaRing == Spec => TxImplementsDmaRing
<1>1. Init => TxRing!Init
  BY RingSeqEmpty, RingTypes DEF Init, NicInit, TxRing!Init
<1>2. TypeOK /\ TxRingInv /\ [Next]_vars => [TxRing!Next]_(TxRing!ringVars)
  BY TxSimulates
<1> QED
  BY <1>1, <1>2, RingsKept, PTL DEF Spec, TxRing!Spec, TxImplementsDmaRing

-----------------------------------------------------------------------------
(* The receive ring.                                                       *)

LEMMA RxSlots ==
    ASSUME TypeOK
    PROVE  /\ rx_out \in Slots /\ rx_pkt_out \in Slots /\ rx_inp \in Slots
           /\ rx_ring \in [Slots -> RxBufs \cup {NoBuf}] /\ DOMAIN rx_ring = Slots
           /\ rx_addr \in [Slots -> RxBufs \cup {NoBuf}] /\ DOMAIN rx_addr = Slots
  BY DEF TypeOK, NicTypeOK

\* axi_eth_add_rx_buffers writes the producer pointer: Post.
LEMMA RxPosts ==
    ASSUME TypeOK, RxRingInv, AddRxDoorbell
    PROVE  \E b \in RxBufs : RxRing!Post(b)
<1> DEFINE b == rx_addr[rx_inp]
           posted == RingSeq(rx_addr, rx_pkt_out, rx_inp)
           completed == RingSeq(rx_ring, rx_out, rx_pkt_out)
<1>1. /\ \A i \in 1 .. Len(posted) : posted[i] # b
      /\ \A i \in 1 .. Len(completed) : completed[i] # b
      /\ Len(posted) + Len(completed) < RingMask
      /\ RingSeq(rx_addr, rx_pkt_out, RingNext(rx_inp)) = Append(posted, b)
      /\ b # NoBuf
  <2>1. /\ RingDist(rx_out, rx_pkt_out) <= RingDist(rx_out, rx_inp)
        /\ RingNext(rx_inp) # rx_out
        /\ rx_ring[rx_inp] # NoBuf /\ rx_addr[rx_inp] = rx_ring[rx_inp]
        /\ RingAgree(rx_addr, rx_ring, rx_pkt_out, rx_inp)
        /\ RingHasOnce(rx_ring, rx_inp)
    BY RxSlots DEF RxRingInv, RingInv, AddRxDoorbell, Goto, RingAgree, RingHasOnce
  <2>2. /\ rx_out \in Slots /\ rx_pkt_out \in Slots /\ rx_inp \in Slots
    BY RxSlots
  <2>3. RingPosts(rx_ring, rx_addr, rx_out, rx_pkt_out, rx_inp)
    BY <2>1, <2>2, DoorbellPosts
  <2> QED BY <2>1, <2>3 DEF RingPosts
<1>2. /\ rx_pkt_inp = rx_inp /\ rx_pkt_inp' = RingNext(rx_inp)
      /\ UNCHANGED <<rx_addr, rx_ring, rx_pkt_out, rx_out, rx_start>>
  BY DEF RxRingInv, AddRxDoorbell
<1>3. b \in RxBufs
  BY <1>1, RxSlots
<1> HIDE DEF b
<1>4. RxRing!Post(b)
  BY <1>1, <1>2 DEF RxRing!Post, RxRing!Held
<1> QED
  BY <1>3, <1>4

\* The NIC starts and finishes a frame: Start and Complete.
LEMMA RxNicSteps ==
    ASSUME TypeOK, RxRingInv, Nic
    PROVE  RxRing!Start \/ RxRing!Complete \/ UNCHANGED RxRing!ringVars
<1>1. /\ RingInv(rx_ring, rx_addr, rx_out, rx_pkt_out, rx_inp, pc = "rx_bell")
      /\ rx_pkt_inp = rx_inp /\ (rx_start => rx_pkt_out # rx_inp)
  BY DEF RxRingInv
<1>2. CASE RxBegin
  <2>1. RingSeq(rx_addr, rx_pkt_out, rx_inp) # <<>>
    BY <1>1, <1>2, RxSlots, RingSeqTail DEF RxBegin
  <2> QED
    BY <1>1, <1>2, <2>1 DEF RxBegin, Nic, drvVars, drvRx, RxRing!Start
<1>3. CASE RxFinish
  <2>1. /\ RingDist(rx_out, rx_pkt_out) <= RingDist(rx_out, rx_inp)
        /\ rx_pkt_out # rx_inp /\ rx_addr[rx_pkt_out] = rx_ring[rx_pkt_out]
    <3>1. rx_pkt_out # rx_inp
      BY <1>1, <1>3 DEF RxFinish
    <3>2. RingDist(rx_pkt_out, rx_pkt_out) < RingDist(rx_pkt_out, rx_inp)
      BY <3>1, RxSlots, RingMaskAssumption DEF RingDist, Slots
    <3> QED BY <1>1, <3>1, <3>2, RxSlots DEF RingInv
  <2>2. RingCompletes(rx_ring, rx_addr, rx_out, rx_pkt_out, rx_inp)
    BY <2>1, RxSlots, FinishCompletes
  <2> QED
    BY <1>1, <1>3, <2>2 DEF RingCompletes, RxFinish, Nic, drvVars, drvRx, RxRing!Complete
<1>4. CASE TxBegin \/ TxFinish
  BY <1>4 DEF Nic, TxBegin, TxFinish, nicRx, drvVars, drvRx, RxRing!ringVars
<1> QED
  BY <1>2, <1>3, <1>4 DEF Nic, NicNext

\* The handler takes a frame from the ring, if there is one: Reap.
LEMMA RxReaps ==
    ASSUME TypeOK, IsrRx
    PROVE  RxRing!Reap \/ UNCHANGED RxRing!ringVars
<1>1. CASE rx_out # rx_pkt_out
  <2>1. /\ RingSeq(rx_ring, rx_out, rx_pkt_out) # <<>>
        /\ RingSeq([rx_ring EXCEPT ![rx_out] = NoBuf], RingNext(rx_out), rx_pkt_out)
             = Tail(RingSeq(rx_ring, rx_out, rx_pkt_out))
    BY <1>1, RxSlots, ReapTakes
  <2>2. /\ rx_ring' = [rx_ring EXCEPT ![rx_out] = NoBuf]
        /\ rx_out' = RingNext(rx_out)
        /\ UNCHANGED <<rx_addr, rx_pkt_inp, rx_pkt_out, rx_start>>
    BY <1>1 DEF IsrRx, nicVars, nicRx
  <2> QED BY <2>1, <2>2 DEF RxRing!Reap
<1>2. CASE rx_out = rx_pkt_out
  BY <1>2 DEF IsrRx, nicVars, nicRx, RxRing!ringVars
<1> QED
  BY <1>1, <1>2

\* Close and change_mtu take everything back from an idle receiver: Withdraw.
LEMMA RxWithdraws ==
    ASSUME TypeOK, RxRingInv, DisposeRxBuffers, pc \in {"wait", "rx_wait"}, ~rx_start,
           UNCHANGED <<rx_pkt_inp, rx_addr, rx_start>>
    PROVE  RxRing!Withdraw
<1>1. rx_pkt_out' = rx_inp /\ rx_out' = rx_inp /\ rx_pkt_inp' = rx_inp
  BY DEF DisposeRxBuffers, WriteRxPktOut, RxRingInv
<1>2. /\ RingSeq(rx_addr', rx_inp, rx_inp) = <<>>
      /\ RingSeq(rx_ring', rx_inp, rx_inp) = <<>>
  BY RxSlots, RingSeqEmpty
<1> QED
  BY <1>1, <1>2 DEF RxRing!Withdraw

LEMMA RxSimulates ==
    ASSUME TypeOK, RxRingInv, [Next]_vars
    PROVE  [RxRing!Next]_(RxRing!ringVars)
<1> USE DEF nicRx, drvRx, RxRing!ringVars
<1>1. CASE Nic
  BY <1>1, RxNicSteps DEF RxRing!Next
<1>2. CASE Xmit
  BY <1>2 DEF Xmit, XmitEnter, XmitSpin, XmitPost, XmitDoorbell, nicVars
<1>3. CASE AddRxBuffers
  <2>1. CASE AddRxBuffer
    <3>1. RingDist(rx_out, rx_pkt_out) <= RingDist(rx_out, rx_inp)
      BY DEF RxRingInv, RingInv
    <3>2. RingAgreeBut(rx_ring', rx_ring, rx_inp) /\ RingAgreeBut(rx_addr', rx_addr, rx_inp)
      BY <2>1, RxSlots DEF AddRxBuffer, RingAgreeBut
    <3>3. /\ RingSeq(rx_addr', rx_pkt_out, rx_inp) = RingSeq(rx_addr, rx_pkt_out, rx_inp)
          /\ RingSeq(rx_ring', rx_out, rx_pkt_out) = RingSeq(rx_ring, rx_out, rx_pkt_out)
      BY <3>1, <3>2, RxSlots, FillHidden
    <3> QED BY <2>1, <3>3 DEF AddRxBuffer, RxRingInv
  <2>2. CASE AddRxDoorbell
    BY <2>2, RxPosts DEF RxRing!Next
  <2>3. CASE AddRxReturn
    BY <2>3 DEF AddRxReturn, nicVars
  <2> QED BY <1>3, <2>1, <2>2, <2>3 DEF AddRxBuffers
<1>4. CASE Isr
  <2>1. CASE IsrRx
    BY <2>1, RxReaps DEF RxRing!Next
  <2>2. CASE IsrEnter \/ IsrAck \/ IsrTx \/ IsrExit
    BY <2>2 DEF IsrEnter, IsrAck, IsrTx, IsrExit, nicVars
  <2> QED BY <1>4, <2>1, <2>2 DEF Isr
<1>5. CASE Open
  BY <1>5 DEF Open, OpenEnter, OpenIntEnable, OpenNicEnable, nicVars
<1>6. CASE Close
  <2>1. CASE CloseWaitIdle
    BY <2>1, RxWithdraws DEF CloseWaitIdle, Goto, RxRing!Next
  <2>2. CASE \/ CloseBegin \/ CloseEnter \/ CloseIntDisable \/ CloseNicDisable
             \/ CloseDrainTx \/ CloseExit
    BY <2>2 DEF CloseBegin, CloseEnter, CloseIntDisable, CloseNicDisable, CloseDrainTx,
                CloseExit, nicVars
  <2> QED BY <1>6, <2>1, <2>2 DEF Close
<1>7. CASE ChangeMtu
  <2>1. CASE MtuWaitIdle
    BY <2>1, RxWithdraws DEF MtuWaitIdle, Goto, RxRing!Next
  <2>2. CASE MtuBegin \/ MtuEnter \/ MtuRxDisable \/ MtuRxEnable
    BY <2>2 DEF MtuBegin, MtuEnter, MtuRxDisable, MtuRxEnable, nicVars
  <2> QED BY <1>7, <2>1, <2>2 DEF ChangeMtu
<1>8. CASE IrqDispatch \/ UNCHANGED vars
  BY <1>8 DEF IrqDispatch, vars, nicVars, drvVars
<1> QED
  BY <1>1, <1>2, <1>3, <1>4, <1>5, <1>6, <1>7, <1>8 DEF Next

\* Receive buffers are used in the order posted, each once, and are taken back only
\* after the NIC is done with them, also when the ring is emptied by a close or a
\* change of MTU: the receive ring is a DmaRing.
THEOREM RxRefinesDmaRing == Spec => RxImplementsDmaRing
<1>1. Init => RxRing!Init
  BY RingSeqEmpty, RingTypes DEF Init, NicInit, RxRing!Init
<1>2. TypeOK /\ RxRingInv /\ [Next]_vars => [RxRing!Next]_(RxRing!ringVars)
  BY RxSimulates
<1> QED
  BY <1>1, <1>2, RingsKept, PTL DEF Spec, RxRing!Spec, RxImplementsDmaRing
=============================================================================

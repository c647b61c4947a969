----------------------------- MODULE EthDriver ------------------------------
(***************************************************************************)
(* The Linux driver patches/fpga-axi-eth.c on top of the NIC of EthNic:    *)
(* transmit, the interrupt handler, open, close and change of MTU.         *)
(*                                                                         *)
(* All of these run under one spinlock.  "op" is the routine that holds it *)
(* and "pc" its next step; a step is the code between two accesses to the  *)
(* NIC, so the NIC moves between any two of them.  On another CPU the      *)
(* interrupt handler may already spin on the lock (irq_wait) and a         *)
(* configuration call may be between its locked sections (rtnl).           *)
(***************************************************************************)
EXTENDS EthNic, Sequences, FiniteSets

CONSTANTS AllocMayFail, \* may the kernel refuse a receive buffer?
          MtuMayGrow    \* does the administrator raise the MTU?

ASSUME EnvironmentAssumption ==
    AllocMayFail \in BOOLEAN /\ MtuMayGrow \in BOOLEAN

VARIABLES
    rx_inp, rx_out, rx_ring,    \* struct axi_eth_priv; rx_ring[s] is the skb
    tx_inp, tx_out, tx_ring,
    op, pc,                     \* the lock holder and its next step
    skb,                        \* the packet axi_eth_xmit is queueing
    cont,                       \* "cont" of the handler's loop
    irq_wait,                   \* the handler was called, waits for the lock
    queue_stopped,              \* netif_queue_stopped(net_dev)
    up,                         \* the stack may call axi_eth_xmit
    rtnl                        \* configuration call in progress

drvRx == <<rx_inp, rx_out, rx_ring>>
drvTx == <<tx_inp, tx_out, tx_ring>>
control == <<op, pc, skb, cont, irq_wait>>
net == <<queue_stopped, up, rtnl>>
drvVars == <<drvRx, drvTx, control, net>>

vars == <<nicVars, drvVars>>

Steps == {"free",
          "spin", "post", "tx_bell",                    \* axi_eth_xmit
          "ack", "rx", "tx",                            \* axi_eth_isr
          "fill", "rx_bell",                            \* add_rx_buffers
          "int_on", "nic_on",                           \* axi_eth_dev_open
          "int_off", "nic_off", "wait", "tx_drain",     \* axi_eth_dev_close
          "rx_off", "rx_wait", "rx_on"}                 \* change_mtu

TypeOK ==
    /\ NicTypeOK
    /\ rx_inp \in Slots /\ rx_out \in Slots
    /\ tx_inp \in Slots /\ tx_out \in Slots
    /\ rx_ring \in [Slots -> RxBufs \cup {NoBuf}]
    /\ tx_ring \in [Slots -> TxBufs \cup {NoBuf}]
    /\ op \in {"none", "xmit", "isr", "open", "close", "mtu"}
    /\ pc \in Steps
    /\ skb \in TxBufs \cup {NoBuf}
    /\ cont \in BOOLEAN
    /\ irq_wait \in BOOLEAN
    /\ queue_stopped \in BOOLEAN
    /\ up \in BOOLEAN
    /\ rtnl \in {"none", "open", "close", "mtu"}

\* After axi_eth_dev_init: interrupts off, handler registered, the driver's
\* pointers read back from a NIC that comes out of reset.
Init ==
    /\ NicInit
    /\ rx_inp = rx_pkt_inp /\ rx_out = rx_pkt_out
    /\ tx_inp = tx_pkt_inp /\ tx_out = tx_pkt_out
    /\ rx_ring = [s \in Slots |-> NoBuf]
    /\ tx_ring = [s \in Slots |-> NoBuf]
    /\ op = "none" /\ pc = "free"
    /\ skb = NoBuf /\ cont = FALSE
    /\ irq_wait = FALSE
    /\ queue_stopped = FALSE
    /\ up = FALSE
    /\ rtnl = "none"

-----------------------------------------------------------------------------
(* Helpers. *)

\* tx_ring_free(priv)
TxRingFree == RingDist(RingNext(tx_inp), tx_out)

\* The buffers the kernel can hand out: those no ring or routine holds.
FreeRxBufs == RxBufs \ {rx_ring[s] : s \in Slots}
FreeTxBufs == TxBufs \ ({tx_ring[s] : s \in Slots} \cup {skb})

\* spin_lock(&priv->lock) by routine r, which goes on at step s.
Lock(r, s) == pc = "free" /\ op' = r /\ pc' = s
Unlock == op' = "none" /\ pc' = "free"
Goto(from, to) == pc = from /\ pc' = to /\ UNCHANGED op

\* Mutant: the threshold of the wake-up is off by one.
WakeQueueOffByOne(stopped, free) ==
    queue_stopped' = (stopped /\ free + 1 < RingMask \div 2)

\* netif_wake_queue when the queue is stopped and half of the ring is free;
\* "free" is tx_ring_free(priv), "stopped" the queue's state at that point.
WakeQueue(stopped, free) ==
    queue_stopped' = (stopped /\ free < RingMask \div 2)

\* Mutant: a packet is reaped without asking whether the NIC has sent it.
ReapTxUnchecked ==
    /\ tx_ring' = [tx_ring EXCEPT ![tx_out] = NoBuf]
    /\ tx_out' = RingNext(tx_out)
    /\ UNCHANGED tx_inp

\* One completed packet leaves the transmit ring: axi_eth_tx_done and the
\* step of priv->tx_out, shared by xmit, the handler and close.
ReapTx ==
    /\ tx_out # tx_pkt_out
    /\ tx_ring' = [tx_ring EXCEPT ![tx_out] = NoBuf]
    /\ tx_out' = RingNext(tx_out)
    /\ UNCHANGED tx_inp

\* Every receive buffer goes back to the kernel and the NIC's consumer
\* pointer is written, shared by close and change_mtu.
DisposeRxBuffers ==
    /\ rx_ring' = [s \in Slots |->
                     IF s \in RingWindow(rx_out, rx_inp)
                     THEN NoBuf ELSE rx_ring[s]]
    /\ rx_out' = rx_inp
    /\ WriteRxPktOut(rx_inp)
    /\ UNCHANGED rx_inp
-----------------------------------------------------------------------------
(* axi_eth_xmit: the stack calls it with a packet while the queue is not   *)
(* stopped.  A packet that cannot be mapped is dropped without a trace in  *)
(* the state modelled here, so it takes no step.                           *)

XmitEnter ==
    /\ up /\ ~queue_stopped
    /\ \E b \in FreeTxBufs : skb' = b
    /\ Lock("xmit", IF RingNext(tx_inp) = tx_out THEN "spin" ELSE "post")
    /\ UNCHANGED <<nicVars, drvRx, drvTx, cont, irq_wait, net>>

\* The ring is full: wait for the NIC to finish the oldest packet.
XmitSpin ==
    /\ Goto("spin", "post")
    /\ ReapTx
    /\ UNCHANGED <<nicVars, drvRx, skb, cont, irq_wait, net>>

\* Ring item and descriptor registers of slot tx_inp.  The NIC cannot look at
\* this slot before the next step, so its two writes are one step.
XmitPost ==
    /\ Goto("post", "tx_bell")
    /\ tx_ring' = [tx_ring EXCEPT ![tx_inp] = skb]
    /\ tx_addr' = [tx_addr EXCEPT ![tx_inp] = skb]
    /\ skb' = NoBuf
    /\ UNCHANGED <<tx_inp, tx_out, nicRx, tx_pkt_inp, tx_pkt_out, tx_enable,
                   tx_start, nicInt, drvRx, cont, irq_wait, net>>

\* Producer pointer, then stop or wake the queue and unlock.
XmitDoorbell ==
    LET next == RingNext(tx_inp)
        free == RingDist(RingNext(next), tx_out)
    IN  /\ pc = "tx_bell" /\ Unlock
        /\ tx_inp' = next /\ tx_pkt_inp' = next
        /\ WakeQueue(queue_stopped \/ free = 0, free)
        /\ UNCHANGED <<tx_out, tx_ring, tx_pkt_out, tx_addr, tx_enable,
                       tx_start, nicRx, nicInt, drvRx, skb, cont, irq_wait, up,
                       rtnl>>

-----------------------------------------------------------------------------
(* axi_eth_add_rx_buffers, called by the handler, open and change_mtu.     *)

\* Where each caller goes on when it returns.
AddRxReturnTo == IF op = "isr" THEN "ack"
                 ELSE IF op = "open" THEN "int_on" ELSE "rx_on"

\* Mutant: no check for a full ring.
AddRxBufferUnchecked ==
    /\ Goto("fill", "rx_bell")
    /\ \E b \in FreeRxBufs :
          /\ rx_ring' = [rx_ring EXCEPT ![rx_inp] = b]
          /\ rx_addr' = [rx_addr EXCEPT ![rx_inp] = b]
    /\ UNCHANGED <<rx_inp, rx_out, rx_pkt_inp, rx_pkt_out, rx_enable, rx_start,
                   nicTx, nicInt, drvTx, skb, cont, irq_wait, net>>

\* One buffer: allocated, mapped, put in the ring and in the registers of slot
\* rx_inp, which the NIC cannot look at before the next step.
AddRxBuffer ==
    /\ Goto("fill", "rx_bell")
    /\ RingNext(rx_inp) # rx_out
    /\ \E b \in FreeRxBufs :
          /\ rx_ring' = [rx_ring EXCEPT ![rx_inp] = b]
          /\ rx_addr' = [rx_addr EXCEPT ![rx_inp] = b]
    /\ UNCHANGED <<rx_inp, rx_out, rx_pkt_inp, rx_pkt_out, rx_enable, rx_start,
                   nicTx, nicInt, drvTx, skb, cont, irq_wait, net>>

AddRxDoorbell ==
    /\ Goto("rx_bell", "fill")
    /\ rx_inp' = RingNext(rx_inp) /\ rx_pkt_inp' = RingNext(rx_inp)
    /\ UNCHANGED <<rx_out, rx_ring, rx_pkt_out, rx_addr, rx_enable, rx_start,
                   nicTx, nicInt, drvTx, skb, cont, irq_wait, net>>

\* The ring is full, or a buffer could not be allocated or mapped.
AddRxReturn ==
    /\ Goto("fill", AddRxReturnTo)
    /\ \/ RingNext(rx_inp) = rx_out
       \/ AllocMayFail
       \/ FreeRxBufs = {}
    /\ UNCHANGED <<nicVars, drvRx, drvTx, skb, cont, irq_wait, net>>

-----------------------------------------------------------------------------
(* axi_eth_isr.                                                            *)

\* The interrupt controller hands the interrupt to a CPU.
IrqDispatch ==
    /\ Interrupt /\ ~irq_wait
    /\ irq_wait' = TRUE
    /\ UNCHANGED <<nicVars, drvRx, drvTx, op, pc, skb, cont, net>>

IsrEnter ==
    /\ irq_wait
    /\ Lock("isr", "fill")
    /\ UNCHANGED <<nicVars, drvRx, drvTx, skb, cont, irq_wait, net>>

\* int_status = 0
IsrAck ==
    /\ Goto("ack", "rx")
    /\ ClearIntStatus
    /\ cont' = FALSE
    /\ UNCHANGED <<nicRx, nicTx, int_enable, drvRx, drvTx, skb, irq_wait, net>>

\* Mutant: i->skb = NULL is forgotten.
IsrRxKeepsSkb ==
    /\ Goto("rx", "tx")
    /\ rx_out' = IF rx_out # rx_pkt_out THEN RingNext(rx_out) ELSE rx_out
    /\ cont' = (cont \/ rx_out # rx_pkt_out)
    /\ UNCHANGED <<nicVars, rx_inp, rx_ring, drvTx, skb, irq_wait, net>>

\* One received packet, if there is one: axi_eth_rx_done and priv->rx_out.
IsrRx ==
    /\ Goto("rx", "tx")
    /\ IF rx_out # rx_pkt_out
       THEN /\ rx_ring' = [rx_ring EXCEPT ![rx_out] = NoBuf]
            /\ rx_out' = RingNext(rx_out)
            /\ cont' = TRUE
       ELSE UNCHANGED <<rx_ring, rx_out, cont>>
    /\ UNCHANGED <<nicVars, rx_inp, drvTx, skb, irq_wait, net>>

\* One transmitted packet, then the loop's next round.
IsrTx ==
    /\ Goto("tx", "fill")
    /\ \/ ReapTx
       \/ cont /\ tx_out = tx_pkt_out /\ UNCHANGED drvTx
    /\ UNCHANGED <<nicVars, drvRx, skb, cont, irq_wait, net>>

\* Mutant: the handler returns without waking the queue.
IsrExitNoWake ==
    /\ pc = "tx" /\ Unlock
    /\ ~cont /\ tx_out = tx_pkt_out
    /\ irq_wait' = FALSE
    /\ UNCHANGED <<nicVars, drvRx, drvTx, skb, cont, net>>

\* Mutant: int_status is cleared when the handler returns.
IsrExitAcksLate ==
    /\ pc = "tx" /\ Unlock
    /\ ~cont /\ tx_out = tx_pkt_out
    /\ WakeQueue(queue_stopped, TxRingFree)
    /\ ClearIntStatus
    /\ irq_wait' = FALSE
    /\ UNCHANGED <<nicRx, nicTx, int_enable, drvRx, drvTx, skb, cont, up,
                   rtnl>>

\* Nothing was found: wake the queue and return.
IsrExit ==
    /\ pc = "tx" /\ Unlock
    /\ ~cont /\ tx_out = tx_pkt_out
    /\ WakeQueue(queue_stopped, TxRingFree)
    /\ irq_wait' = FALSE
    /\ UNCHANGED <<nicVars, drvRx, drvTx, skb, cont, up, rtnl>>

-----------------------------------------------------------------------------
(* axi_eth_dev_open.  A call that finds no PHY returns before the lock.    *)

OpenEnter ==
    /\ ~up /\ rtnl = "none"
    /\ rtnl' = "open"
    /\ Lock("open", "fill")
    /\ UNCHANGED <<nicVars, drvRx, drvTx, skb, cont, irq_wait, queue_stopped,
                   up>>

OpenIntEnable ==
    /\ Goto("int_on", "nic_on")
    /\ int_enable' = TRUE
    /\ UNCHANGED <<nicRx, nicTx, rx_int, tx_int, drvRx, drvTx, skb, cont,
                   irq_wait, net>>

\* nic_control, netif_start_queue, unlock; the stack may transmit from now on.
OpenNicEnable ==
    /\ pc = "nic_on" /\ Unlock
    /\ rx_enable' = TRUE /\ tx_enable' = TRUE
    /\ queue_stopped' = FALSE
    /\ up' = TRUE /\ rtnl' = "none"
    /\ UNCHANGED <<rx_pkt_inp, rx_pkt_out, rx_addr, rx_start, tx_pkt_inp,
                   tx_pkt_out, tx_addr, tx_start, nicInt, drvRx, drvTx, skb,
                   cont, irq_wait>>

-----------------------------------------------------------------------------
(* axi_eth_dev_close.  The stack stops calling xmit before it calls this.  *)

CloseBegin ==
    /\ up /\ rtnl = "none"
    /\ up' = FALSE /\ rtnl' = "close"
    /\ UNCHANGED <<nicVars, drvRx, drvTx, control, queue_stopped>>

CloseEnter ==
    /\ rtnl = "close"
    /\ Lock("close", "int_off")
    /\ UNCHANGED <<nicVars, drvRx, drvTx, skb, cont, irq_wait, net>>

CloseIntDisable ==
    /\ Goto("int_off", "nic_off")
    /\ int_enable' = FALSE
    /\ UNCHANGED <<nicRx, nicTx, rx_int, tx_int, drvRx, drvTx, skb, cont,
                   irq_wait, net>>

CloseNicDisable ==
    /\ Goto("nic_off", "wait")
    /\ rx_enable' = FALSE /\ tx_enable' = FALSE
    /\ UNCHANGED <<rx_pkt_inp, rx_pkt_out, rx_addr, rx_start, tx_pkt_inp,
                   tx_pkt_out, tx_addr, tx_start, nicInt, drvRx, drvTx, skb,
                   cont, irq_wait, net>>

\* Mutant: the busy bits of nic_status are not waited for.
CloseWaitSkipped ==
    /\ Goto("wait", "tx_drain")
    /\ DisposeRxBuffers
    /\ UNCHANGED <<rx_pkt_inp, rx_addr, rx_enable, rx_start, nicTx, nicInt,
                   drvTx, skb, cont, irq_wait, net>>

\* nic_status shows both engines idle: give the receive buffers back.
CloseWaitIdle ==
    /\ Goto("wait", "tx_drain")
    /\ ~rx_start /\ ~tx_start
    /\ DisposeRxBuffers
    /\ UNCHANGED <<rx_pkt_inp, rx_addr, rx_enable, rx_start, nicTx, nicInt,
                   drvTx, skb, cont, irq_wait, net>>

\* The loop over the packets not reaped yet waits for each to be sent.
CloseDrainTx ==
    /\ Goto("tx_drain", "tx_drain")
    /\ tx_inp # tx_out
    /\ ReapTx
    /\ UNCHANGED <<nicVars, drvRx, skb, cont, irq_wait, net>>

CloseExit ==
    /\ pc = "tx_drain" /\ Unlock
    /\ tx_inp = tx_out
    /\ WriteTxPktOut(tx_out)
    /\ rtnl' = "none"
    /\ UNCHANGED <<nicRx, tx_pkt_inp, tx_addr, tx_enable, tx_start, nicInt,
                   drvRx, drvTx, skb, cont, irq_wait, queue_stopped, up>>

-----------------------------------------------------------------------------
(* axi_eth_change_mtu to a larger MTU; a smaller one it only records.  The *)
(* sizes of packets and buffers are not modelled.                          *)

MtuBegin ==
    /\ MtuMayGrow
    /\ rtnl = "none"
    /\ rtnl' = "mtu"
    /\ UNCHANGED <<nicVars, drvRx, drvTx, control, queue_stopped, up>>

MtuEnter ==
    /\ rtnl = "mtu"
    /\ Lock("mtu", "rx_off")
    /\ UNCHANGED <<nicVars, drvRx, drvTx, skb, cont, irq_wait, net>>

MtuRxDisable ==
    /\ Goto("rx_off", "rx_wait")
    /\ rx_enable' = FALSE
    /\ UNCHANGED <<rx_pkt_inp, rx_pkt_out, rx_addr, rx_start, nicTx, nicInt,
                   drvRx, drvTx, skb, cont, irq_wait, net>>

\* Mutant: the busy bit of the receiver is not waited for.
MtuWaitSkipped ==
    /\ Goto("rx_wait", "fill")
    /\ DisposeRxBuffers
    /\ UNCHANGED <<rx_pkt_inp, rx_addr, rx_enable, rx_start, nicTx, nicInt,
                   drvTx, skb, cont, irq_wait, net>>

\* The receiver is idle: give its buffers back and allocate new ones.
MtuWaitIdle ==
    /\ Goto("rx_wait", "fill")
    /\ ~rx_start
    /\ DisposeRxBuffers
    /\ UNCHANGED <<rx_pkt_inp, rx_addr, rx_enable, rx_start, nicTx, nicInt,
                   drvTx, skb, cont, irq_wait, net>>

MtuRxEnable ==
    /\ pc = "rx_on" /\ Unlock
    /\ rx_enable' = TRUE
    /\ rtnl' = "none"
    /\ UNCHANGED <<rx_pkt_inp, rx_pkt_out, rx_addr, rx_start, nicTx, nicInt,
                   drvRx, drvTx, skb, cont, irq_wait, queue_stopped, up>>

-----------------------------------------------------------------------------
Xmit == XmitEnter \/ XmitSpin \/ XmitPost \/ XmitDoorbell
AddRxBuffers == AddRxBuffer \/ AddRxDoorbell \/ AddRxReturn
Isr == IsrEnter \/ IsrAck \/ IsrRx \/ IsrTx \/ IsrExit
Open == OpenEnter \/ OpenIntEnable \/ OpenNicEnable
Close == \/ CloseBegin \/ CloseEnter \/ CloseIntDisable \/ CloseNicDisable
         \/ CloseWaitIdle \/ CloseDrainTx \/ CloseExit
ChangeMtu == \/ MtuBegin \/ MtuEnter \/ MtuRxDisable \/ MtuWaitIdle
             \/ MtuRxEnable

\* A step of the hardware leaves the driver's memory alone.
Nic == NicNext /\ UNCHANGED drvVars

Next == Nic \/ IrqDispatch \/ Xmit \/ AddRxBuffers \/ Isr \/ Open \/ Close
          \/ ChangeMtu

Spec == Init /\ [][Next]_vars
\* Fairness.  The CPU that holds the lock runs on; the NIC ends what it began
\* and starts a packet it can start (the MAC drains); a raised interrupt is
\* delivered.  The kernel's spinlocks are served in order, so a routine that
\* waits for the lock gets it although others take it in between (SF).
\* Nothing forces frames to arrive, or the stack to transmit or configure.
Fairness ==
    /\ WF_vars(Nic /\ RxFinish) /\ WF_vars(Nic /\ TxBegin)
    /\ WF_vars(Nic /\ TxFinish)
    /\ WF_vars(IrqDispatch)
    /\ WF_vars(XmitSpin \/ XmitPost \/ XmitDoorbell \/ AddRxBuffers)
    /\ WF_vars(IsrAck \/ IsrRx \/ IsrTx \/ IsrExit)
    /\ WF_vars(OpenIntEnable \/ OpenNicEnable)
    /\ WF_vars(CloseIntDisable \/ CloseNicDisable \/ CloseWaitIdle
                  \/ CloseDrainTx \/ CloseExit)
    /\ WF_vars(MtuRxDisable \/ MtuWaitIdle \/ MtuRxEnable)
    /\ SF_vars(IsrEnter) /\ SF_vars(CloseEnter) /\ SF_vars(MtuEnter)

FairSpec == Spec /\ Fairness

=============================================================================

--------------------------- MODULE EthDriverProps ---------------------------
(***************************************************************************)
(* What is required of the Ethernet driver and its NIC.                    *)
(***************************************************************************)
EXTENDS EthDriver

-----------------------------------------------------------------------------
(* Safety.                                                                 *)

\* The three pointers of a ring keep their order: from what the driver has
\* taken back, over what the NIC has finished, to what was posted.  Were the
\* NIC's pointer to leave that window, the driver would take back buffers the
\* NIC still uses or never see one it has finished.
PointerOrder ==
    /\ RingDist(rx_out, rx_pkt_out) <= RingDist(rx_out, rx_pkt_inp)
    /\ RingDist(tx_out, tx_pkt_out) <= RingDist(tx_out, tx_pkt_inp)

\* While an engine runs, the buffer its descriptor names is the one the driver
\* keeps mapped for that slot: no DMA from or into memory already freed.
DmaIntoOwnedBuffer ==
    /\ rx_start => /\ rx_ring[rx_pkt_out] # NoBuf
                   /\ rx_addr[rx_pkt_out] = rx_ring[rx_pkt_out]
    /\ tx_start => /\ tx_ring[tx_pkt_out] # NoBuf
                   /\ tx_addr[tx_pkt_out] = tx_ring[tx_pkt_out]

\* No buffer stands in two slots of a ring, and a ring keeps none outside the
\* window of the driver's pointers (it would never be freed) but the one the
\* lock holder is about to post.
NoBufferLostOrShared ==
    /\ \A s, t \in Slots : /\ rx_ring[s] = rx_ring[t] /\ rx_ring[s] # NoBuf
                              => s = t
                          /\ tx_ring[s] = tx_ring[t] /\ tx_ring[s] # NoBuf
                              => s = t
    /\ \A s \in Slots \ RingWindow(rx_out, rx_inp) :
          rx_ring[s] # NoBuf => pc = "rx_bell" /\ s = rx_inp
    /\ \A s \in Slots \ RingWindow(tx_out, tx_inp) :
          tx_ring[s] # NoBuf => pc = "tx_bell" /\ s = tx_inp

\* A packet the NIC has finished is never forgotten: on an open interface with
\* the lock free the interrupt is raised or its handler is on its way.  This
\* is what clearing int_status before looking at the rings buys.
NoLostInterrupt ==
    int_enable /\ pc = "free" /\ (rx_out # rx_pkt_out \/ tx_out # tx_pkt_out)
        => irq_wait \/ Interrupt

\* A stopped queue is never stopped for good: some packet is still out whose
\* completion will run the handler that wakes the queue.
StoppedQueueHasPacketOut ==
    up /\ queue_stopped /\ pc = "free" => tx_out # tx_inp

\* axi_eth_xmit never has to spin on a full ring with the lock held: the queue
\* is stopped first.  Holds for rings of four slots and more.
XmitNeverSpins == pc # "spin"

-----------------------------------------------------------------------------
(* The inductive invariant behind PointerOrder, DmaIntoOwnedBuffer and     *)
(* NoBufferLostOrShared: what each step of a routine may rely on.          *)

\* A ring, driver and NIC side together.  p, q and n are the driver's consumer,
\* the NIC's consumer and the producer; "bell" says that the lock holder has
\* filled slot n and has not moved the producer yet.
RingInv(ring, addr, p, q, n, bell) ==
    /\ RingDist(p, q) <= RingDist(p, n)
    /\ \A s \in Slots : RingDist(p, s) < RingDist(p, n) => ring[s] # NoBuf
    /\ \A s \in Slots : RingDist(q, s) < RingDist(q, n) => addr[s] = ring[s]
    /\ \A s \in Slots :
          ring[s] # NoBuf => RingDist(p, s) < RingDist(p, n) \/ (bell /\ s = n)
    /\ \A s, t \in Slots : ring[s] = ring[t] /\ ring[s] # NoBuf => s = t
    /\ bell => RingNext(n) # p /\ ring[n] # NoBuf /\ addr[n] = ring[n]

RxRingInv ==
    /\ rx_pkt_inp = rx_inp
    /\ RingInv(rx_ring, rx_addr, rx_out, rx_pkt_out, rx_inp, pc = "rx_bell")
    /\ rx_start => rx_pkt_out # rx_inp
    /\ pc \in {"wait", "tx_drain", "rx_wait"} => ~rx_enable

TxRingInv ==
    /\ tx_pkt_inp = tx_inp
    /\ RingInv(tx_ring, tx_addr, tx_out, tx_pkt_out, tx_inp, pc = "tx_bell")
    /\ tx_start => tx_pkt_out # tx_inp
    /\ pc = "spin" => RingNext(tx_inp) = tx_out
    /\ pc = "post" => RingNext(tx_inp) # tx_out
    /\ IF pc \in {"spin", "post"}
       THEN skb # NoBuf /\ \A s \in Slots : tx_ring[s] # skb
       ELSE skb = NoBuf

\* Both rings are well formed at each step of each routine: pointers in their order,
\* every buffer between them in one slot, and where the NIC may look, descriptors
\* that name what the driver keeps mapped.
RingsAreWellFormed == TypeOK /\ RxRingInv /\ TxRingInv

-----------------------------------------------------------------------------
(* The inductive invariants behind NoLostInterrupt, XmitNeverSpins and     *)
(* StoppedQueueHasPacketOut.                                               *)

\* Which steps belong to which routine, and which call of the stack a routine
\* belongs to.
CallInv ==
    /\ \/ op = "none" /\ pc = "free"
       \/ op = "xmit" /\ pc \in {"spin", "post", "tx_bell"}
       \/ op = "isr" /\ pc \in {"fill", "rx_bell", "ack", "rx", "tx"}
       \/ op = "open" /\ pc \in {"fill", "rx_bell", "int_on", "nic_on"}
       \/ op = "close" /\ pc \in {"int_off", "nic_off", "wait", "tx_drain"}
       \/ op = "mtu" /\ pc \in {"rx_off", "rx_wait", "fill", "rx_bell", "rx_on"}
    /\ op \in {"open", "close", "mtu"} => rtnl = op
    /\ rtnl \in {"open", "close"} => ~up
    /\ op = "xmit" => up \/ rtnl = "close"

\* What the NIC has finished is announced by its flag, or the handler will still
\* look at that ring before it returns.
InterruptInv ==
    /\ rx_out # rx_pkt_out =>
           rx_int \/ (op = "isr" /\ (pc = "tx" => cont))
    /\ tx_out # tx_pkt_out => tx_int \/ op = "isr"

\* A stopped queue has packets out or the handler is about to wake it; the ring of
\* a closed interface is empty.
QueueInv ==
    /\ op = "xmit" => ~queue_stopped
    /\ up /\ queue_stopped => tx_out # tx_inp \/ op = "isr"
    /\ ~up /\ rtnl # "close" => tx_out = tx_inp

\* The queue is stopped before the ring is full.
RoomInv ==
    /\ pc # "spin"
    /\ up /\ ~queue_stopped /\ op # "xmit" => RingNext(tx_inp) # tx_out

-----------------------------------------------------------------------------
(* Refinement: each ring is a DmaRing.  What is posted is read from the    *)
(* NIC's registers, what is completed from the driver's ring.              *)

RxRing == INSTANCE DmaRing WITH
    Buffers <- RxBufs, Capacity <- RingMask,
    posted <- RingSeq(rx_addr, rx_pkt_out, rx_pkt_inp),
    completed <- RingSeq(rx_ring, rx_out, rx_pkt_out),
    busy <- rx_start

TxRing == INSTANCE DmaRing WITH
    Buffers <- TxBufs, Capacity <- RingMask,
    posted <- RingSeq(tx_addr, tx_pkt_out, tx_pkt_inp),
    completed <- RingSeq(tx_ring, tx_out, tx_pkt_out),
    busy <- tx_start

\* Receive buffers are used in the order posted, each once, and are taken back
\* only after the NIC is done with them, also when the ring is emptied by a
\* close or a change of MTU.
RxImplementsDmaRing == RxRing!Spec

\* Packets go out in the order the stack gave them, each once, and their
\* memory is released only after the NIC has read it.
TxImplementsDmaRing == TxRing!Spec

-----------------------------------------------------------------------------
(* Liveness.                                                               *)

\* A packet given to the NIC is sent and its memory released, unless the
\* interface is closed meanwhile.
PacketsComplete ==
    \A s \in Slots : tx_ring[s] # NoBuf ~> tx_ring[s] = NoBuf \/ rtnl = "close"

\* A received frame is taken from the ring, unless the interface is closed.
FramesAreTaken ==
    \A s \in Slots : rx_out = s /\ rx_pkt_out # s
        ~> rx_out # s \/ rtnl = "close"

-----------------------------------------------------------------------------
(* What comments of the driver say and the code does not keep.             *)

\* "Wait active RX, TX to finish" (axi_eth_dev_close): the close waits for the
\* packets being processed, so it comes to an end.
CloseTerminates == rtnl = "close" ~> rtnl # "close"
=============================================================================

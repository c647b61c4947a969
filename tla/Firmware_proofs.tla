-------------------------- MODULE Firmware_proofs ---------------------------
(***************************************************************************)
(* Proofs about what runs before Linux.  The polling users of the UART     *)
(* lose, double and reorder no character, for every size of the FIFOs and  *)
(* every number of characters, also across the reset of the FIFOs that     *)
(* meets a character on its way.  And the loader of the boot ROM keeps off *)
(* the memory of the boot ROM and gets every cell in place, for every      *)
(* memory map, size of the chunks and file.                                *)
(***************************************************************************)
EXTENDS Loader, UartPolling, TLAPS

-----------------------------------------------------------------------------
(* A FIFO and what it holds.                                               *)

\* Positions computed from slots are slots, and a FIFO holds as many characters as
\* its positions are apart.
LEMMA RingTypes ==
    /\ 0 \in Slots
    /\ \A i \in Slots : i \in Int /\ RingNext(i) \in Slots /\ RingNext(i) # i
    /\ \A i, j \in Slots : RingDist(i, j) \in Slots /\ (RingDist(i, j) = 0 <=> i = j)
    /\ Slots \subseteq Nat
  BY RingMaskAssumption DEF Slots, RingNext, RingDist

\* And they stay inside it.
LEMMA RingInside ==
    ASSUME NEW out \in Slots, NEW inp \in Slots, NEW i \in 1 .. RingDist(out, inp)
    PROVE  RingAdvance(out, i - 1) \in Slots
  BY RingMaskAssumption DEF RingAdvance, RingDist, Slots

\* The FIFO f holds "stale" characters up to mark and then those after "first" up to
\* "last", each once and in order.
Holds(f, out, inp, stale, mark, first, last) ==
    /\ RingDist(out, inp) = stale + (last - first)
    /\ \A i \in 1 .. RingDist(out, inp) :
           IF i <= stale THEN f[RingAdvance(out, i - 1)] <= mark
           ELSE f[RingAdvance(out, i - 1)] = first + (i - stale)

\* The same, of the sequence.
LEMMA HoldsSeq ==
    ASSUME NEW f, NEW out \in Slots, NEW inp \in Slots
    PROVE  /\ RingDist(out, inp) \in Nat
           /\ Len(RingSeq(f, out, inp)) = RingDist(out, inp)
           /\ \A i \in 1 .. RingDist(out, inp) :
                  RingSeq(f, out, inp)[i] = f[RingAdvance(out, i - 1)]
<1>1. RingDist(out, inp) \in Nat
  BY RingTypes
<1> QED
  BY <1>1 DEF RingSeq

LEMMA HoldsAll ==
    ASSUME NEW f, NEW out \in Slots, NEW inp \in Slots, NEW first \in Nat, NEW last \in Nat,
           first <= last
    PROVE  RingSeq(f, out, inp) = [i \in 1 .. last - first |-> first + i]
               <=> Holds(f, out, inp, 0, 0, first, last)
<1> DEFINE d == RingDist(out, inp)
           q == RingSeq(f, out, inp)
<1>1. d \in Nat /\ Len(q) = d /\ \A i \in 1 .. d : q[i] = f[RingAdvance(out, i - 1)]
  BY HoldsSeq
<1>2. q = [i \in 1 .. d |-> f[RingAdvance(out, i - 1)]]
  BY DEF RingSeq
<1> HIDE DEF d, q
<1>3. ASSUME q = [i \in 1 .. last - first |-> first + i]
      PROVE  d = last - first /\ \A i \in 1 .. d : f[RingAdvance(out, i - 1)] = first + i
  <2>1. Len(q) = last - first
    BY <1>3
  <2> QED BY <1>1, <1>3, <2>1
<1>4. ASSUME d = last - first, \A i \in 1 .. d : f[RingAdvance(out, i - 1)] = first + i
      PROVE  q = [i \in 1 .. last - first |-> first + i]
  BY <1>2, <1>4
<1>5. Holds(f, out, inp, 0, 0, first, last) <=>
          d = last - first /\ \A i \in 1 .. d : f[RingAdvance(out, i - 1)] = first + i
  BY <1>1 DEF Holds, d
<1> QED
  BY <1>3, <1>4, <1>5 DEF q

\* A character stored in a FIFO that has room is its last.
Stored(f, g, at, c) == g[at] = c /\ \A s \in Slots \ {at} : g[s] = f[s]

LEMMA HoldsPut ==
    ASSUME NEW f, NEW g, NEW out \in Slots, NEW inp \in Slots, NEW stale \in Nat,
           NEW mark \in Nat, NEW first \in Nat, NEW last \in Nat,
           Holds(f, out, inp, stale, mark, first, last),
           RingNext(inp) # out, first <= last, Stored(f, g, inp, last + 1)
    PROVE  Holds(g, out, RingNext(inp), stale, mark, first, last + 1)
<1> DEFINE d == RingDist(out, inp)
<1>1. /\ d \in Nat
      /\ RingDist(out, RingNext(inp)) = d + 1
      /\ RingAdvance(out, d) = inp
      /\ \A n \in 1 .. d : RingAdvance(out, n - 1) \in Slots \ {inp}
  BY RingMaskAssumption DEF RingDist, RingNext, RingAdvance, Slots
<1>2. d = stale + (last - first)
  BY DEF Holds
<1>3. \A i \in 1 .. d : IF i <= stale THEN f[RingAdvance(out, i - 1)] <= mark
                        ELSE f[RingAdvance(out, i - 1)] = first + (i - stale)
  BY DEF Holds
<1> HIDE DEF d
<1>4. ASSUME NEW i \in 1 .. d + 1
      PROVE  IF i <= stale THEN g[RingAdvance(out, i - 1)] <= mark
             ELSE g[RingAdvance(out, i - 1)] = first + (i - stale)
  <2>1. CASE i \in 1 .. d
    <3>1. g[RingAdvance(out, i - 1)] = f[RingAdvance(out, i - 1)]
      BY <1>1, <2>1 DEF Stored
    <3> QED BY <1>3, <2>1, <3>1
  <2>2. CASE i = d + 1
    <3>1. i - 1 = d
      BY <1>1, <2>2
    <3>2. g[RingAdvance(out, i - 1)] = last + 1
      BY <1>1, <3>1 DEF Stored
    <3>3. first + (i - stale) = last + 1 /\ ~(i <= stale)
      BY <1>1, <1>2, <2>2
    <3> QED BY <3>2, <3>3
  <2> QED BY <1>1, <2>1, <2>2
<1>5. d + 1 = stale + ((last + 1) - first)
  BY <1>1, <1>2
<1> QED
  BY <1>1, <1>4, <1>5 DEF Holds

\* A character taken from a FIFO that is not empty was its first.
LEMMA HoldsTake ==
    ASSUME NEW f, NEW out \in Slots, NEW inp \in Slots, NEW stale \in Nat,
           NEW mark \in Nat, NEW first \in Nat, NEW last \in Nat,
           Holds(f, out, inp, stale, mark, first, last), inp # out, first <= last
    PROVE  /\ stale > 0 => /\ f[out] <= mark
                           /\ Holds(f, RingNext(out), inp, stale - 1, mark, first, last)
           /\ stale = 0 => /\ f[out] = first + 1 /\ first + 1 <= last
                           /\ Holds(f, RingNext(out), inp, 0, mark, first + 1, last)
<1> DEFINE d == RingDist(out, inp)
           next == RingNext(out)
<1>1. /\ d \in Nat \ {0}
      /\ RingDist(next, inp) = d - 1
      /\ RingAdvance(out, 0) = out
      /\ \A n \in 1 .. d - 1 : RingAdvance(next, n - 1) = RingAdvance(out, n)
  BY RingMaskAssumption DEF RingDist, RingNext, RingAdvance, Slots
<1>2. d = stale + (last - first)
  BY DEF Holds
<1>3. \A i \in 1 .. d : IF i <= stale THEN f[RingAdvance(out, i - 1)] <= mark
                        ELSE f[RingAdvance(out, i - 1)] = first + (i - stale)
  BY DEF Holds
<1> HIDE DEF d, next
<1>4. IF 1 <= stale THEN f[out] <= mark ELSE f[out] = first + (1 - stale)
  <2>1. 1 \in 1 .. d /\ 1 - 1 = 0
    BY <1>1
  <2> QED BY <1>1, <1>3, <2>1
<1>5. \A i \in 1 .. d - 1 :
          IF i + 1 <= stale THEN f[RingAdvance(next, i - 1)] <= mark
          ELSE f[RingAdvance(next, i - 1)] = first + ((i + 1) - stale)
  <2> TAKE i \in 1 .. d - 1
  <2>1. i + 1 \in 1 .. d /\ (i + 1) - 1 = i
    BY <1>1
  <2>2. RingAdvance(next, i - 1) = RingAdvance(out, (i + 1) - 1)
    BY <1>1, <2>1
  <2> QED BY <1>3, <2>1, <2>2
<1>6. ASSUME stale > 0
      PROVE  Holds(f, next, inp, stale - 1, mark, first, last)
  <2>1. RingDist(next, inp) = (stale - 1) + (last - first)
    BY <1>1, <1>2
  <2>2. \A i \in 1 .. d - 1 :
            IF i <= stale - 1 THEN f[RingAdvance(next, i - 1)] <= mark
            ELSE f[RingAdvance(next, i - 1)] = first + (i - (stale - 1))
    BY <1>1, <1>5
  <2> QED BY <1>1, <2>1, <2>2 DEF Holds
<1>7. ASSUME stale = 0
      PROVE  Holds(f, next, inp, 0, mark, first + 1, last)
  <2>1. RingDist(next, inp) = 0 + (last - (first + 1))
    BY <1>1, <1>2, <1>7
  <2>2. \A i \in 1 .. d - 1 :
            IF i <= 0 THEN f[RingAdvance(next, i - 1)] <= mark
            ELSE f[RingAdvance(next, i - 1)] = (first + 1) + (i - 0)
    BY <1>1, <1>5, <1>7
  <2> QED BY <1>1, <2>1, <2>2 DEF Holds
<1> QED
  BY <1>1, <1>2, <1>4, <1>6, <1>7 DEF next

\* After a reset that meets nothing, or a character that is being stored.
LEMMA HoldsReset ==
    ASSUME NEW f, NEW at \in Slots, NEW last \in Nat
    PROVE  /\ Holds(f, at, at, 0, 0, last, last)
           /\ f[at] = last + 1 => Holds(f, at, RingNext(at), 0, 0, last, last + 1)
<1>1. /\ RingDist(at, at) = 0 /\ RingDist(at, RingNext(at)) = 1 /\ RingAdvance(at, 0) = at
  BY RingMaskAssumption DEF RingDist, RingNext, RingAdvance, Slots
<1> QED
  BY <1>1 DEF Holds

-----------------------------------------------------------------------------
(* Types.                                                                  *)

LEMMA PolledTypes ==
    ASSUME PollTypeOK, PolledInv, [PollNext]_pollingVars
    PROVE  PollTypeOK'
<1> USE UartAssumption, RingTypes
<1> USE DEF PollTypeOK, UartTypeOK, Control, Quiet, rxSide, rxFifo, txSide, txFifo, pollVars
<1>1. PopTx => tx_out_pos' \in Slots /\ sent' \in 0 .. MaxTty
  BY DEF PopTx
<1>2. ASSUME StoreRx
      PROVE  /\ rx_line' \in BOOLEAN /\ arrived' \in 0 .. MaxRx
             /\ rx_buf' \in [Slots -> 0 .. MaxRx] /\ rx_inp_pos' \in Slots
  <2>1. arrived < MaxRx
    BY <1>2 DEF StoreRx, PolledInv
  <2>2. arrived + 1 \in 0 .. MaxRx
    BY <2>1
  <2> QED BY <1>2, <2>2 DEF StoreRx
<1>3. PutChar /\ step = "putc" =>
          /\ tx_buf' \in [Slots -> 0 .. MaxTty] /\ tx_inp_pos' \in Slots
          /\ put' \in 0 .. MaxTty /\ step' = "idle"
          /\ UNCHANGED <<rxSide, control, client, tx_mark, got, tx_out_pos, sent,
                         xon_xoff_inp, xon_xoff_out>>
  BY DEF PutChar, WriteTx, PolledInv
<1>4. GetChar => /\ rx_out_pos' \in Slots /\ got' \in 0 .. MaxRx
                 /\ UNCHANGED <<rx_buf, rx_inp_pos, rx_line, arrived, txSide, control, client,
                                step, put, tx_mark>>
  BY DEF GetChar, PopRx
<1>5. CASE UartNext /\ UNCHANGED pollVars
  <2>1. CASE SendFlowChar
    BY <1>5, <2>1 DEF SendFlowChar
  <2>2. CASE SendChar
    BY <1>1, <1>5, <2>2 DEF SendChar
  <2>3. CASE PeerSends
    BY <1>5, <2>3 DEF PeerSends
  <2>4. CASE ReceiveChar
    BY <1>2, <1>5, <2>4 DEF ReceiveChar
  <2> QED BY <1>5, <2>1, <2>2, <2>3, <2>4 DEF UartNext
<1>6. CASE PutcBegin
  BY <1>6 DEF PutcBegin, uartVars
<1>7. CASE OpensbiPutc \/ UbootPutc \/ KgdbPut
  BY <1>3, <1>7 DEF OpensbiPutc, UbootPutc, KgdbPut
<1>8. CASE OpensbiGetc \/ UbootGetc \/ KgdbGet
  BY <1>4, <1>8 DEF OpensbiGetc, UbootGetc, KgdbGet
<1>9. CASE UbootProbe
  <2>1. tx_out_pos' \in Slots /\ sent' \in 0 .. MaxTty
    BY <1>1, <1>9 DEF UbootProbe
  <2>2. /\ rx_line' \in BOOLEAN /\ arrived' \in 0 .. MaxRx
        /\ rx_buf' \in [Slots -> 0 .. MaxRx] /\ rx_inp_pos' \in Slots
    BY <1>2, <1>9 DEF UbootProbe
  <2>3. client' \in {"opensbi", "uboot", "kgdb"} /\ control' \in Control
    BY <1>9 DEF UbootProbe
  <2>4. /\ rx_out_pos' \in Slots /\ tx_inp_pos' \in Slots
        /\ tx_mark' \in 0 .. MaxTty /\ got' \in 0 .. MaxRx
        /\ UNCHANGED <<tx_buf, xon_xoff_inp, xon_xoff_out, step, put>>
    BY <1>9 DEF UbootProbe, ResetRx
  <2> QED BY <2>1, <2>2, <2>3, <2>4
<1>10. CASE KgdbEnter \/ KgdbPutBegin
  <2>1. PICK stop \in BOOLEAN : control' = [control EXCEPT !.tx_stop = stop]
    BY <1>10 DEF KgdbEnter, KgdbPutBegin
  <2>2. control' \in Control
    BY <2>1
  <2>3. /\ client' \in {client, "kgdb"} /\ step' \in {step, "putc"}
        /\ UNCHANGED <<rxSide, txSide, put, tx_mark, got>>
    BY <1>10 DEF KgdbEnter, KgdbPutBegin
  <2> QED BY <2>2, <2>3
<1>11. CASE UNCHANGED pollingVars
  BY <1>11 DEF pollingVars, uartVars
<1> QED
  BY <1>5, <1>6, <1>7, <1>8, <1>9, <1>10, <1>11 DEF PollNext

-----------------------------------------------------------------------------
(* The receive FIFO.                                                       *)

RxPart ==
    /\ rx_line => arrived < MaxRx /\ ~RxFull
    /\ got <= arrived
    /\ Holds(rx_buf, rx_out_pos, rx_inp_pos, 0, 0, got, arrived)

\* A character that comes in, one that is read, and the reset.
LEMMA GotStored ==
    ASSUME PollTypeOK, RxPart, StoreRx, UNCHANGED <<rx_out_pos, got>>
    PROVE  RxPart'
<1> DEFINE old == rx_buf
           new == rx_buf'
<1>1. /\ rx_out_pos \in Slots /\ rx_inp_pos \in Slots /\ arrived \in Nat /\ got \in Nat
      /\ old \in [Slots -> 0 .. MaxRx]
  BY DEF PollTypeOK, UartTypeOK
<1>2. /\ rx_line' = FALSE /\ arrived' = arrived + 1 /\ rx_inp_pos' = RingNext(rx_inp_pos)
      /\ new = [old EXCEPT ![rx_inp_pos] = arrived + 1]
      /\ RingNext(rx_inp_pos) # rx_out_pos /\ got' = got /\ rx_out_pos' = rx_out_pos
  BY DEF StoreRx, RxPart, RxFull
<1>3. Stored(old, new, rx_inp_pos, arrived + 1)
  BY <1>1, <1>2 DEF Stored
<1>4. Holds(old, rx_out_pos, rx_inp_pos, 0, 0, got, arrived) /\ got <= arrived
  BY DEF RxPart
<1> HIDE DEF old, new
<1>5. Holds(new, rx_out_pos, RingNext(rx_inp_pos), 0, 0, got, arrived + 1)
  BY <1>1, <1>2, <1>3, <1>4, HoldsPut
<1>6. got' <= arrived'
  BY <1>1, <1>2, <1>4
<1> QED
  BY <1>2, <1>5, <1>6 DEF RxPart, new

LEMMA GotRead ==
    ASSUME PollTypeOK, RxPart, ~RxEmpty, GetChar
    PROVE  RxPart'
<1>1. /\ rx_out_pos \in Slots /\ rx_inp_pos \in Slots /\ arrived \in Nat /\ got \in Nat
  BY DEF PollTypeOK, UartTypeOK
<1>2. /\ got' = rx_buf[rx_out_pos] /\ rx_out_pos' = RingNext(rx_out_pos)
      /\ UNCHANGED <<rx_buf, rx_inp_pos, rx_line, arrived>>
      /\ rx_inp_pos # rx_out_pos
  BY DEF GetChar, PopRx, RxEmpty
<1>3. Holds(rx_buf, rx_out_pos, rx_inp_pos, 0, 0, got, arrived) /\ got <= arrived
  BY DEF RxPart
<1>4. /\ rx_buf[rx_out_pos] = got + 1 /\ got + 1 <= arrived
      /\ Holds(rx_buf, RingNext(rx_out_pos), rx_inp_pos, 0, 0, got + 1, arrived)
  BY <1>1, <1>2, <1>3, HoldsTake
<1>5. ~RxFull => ~RxFull'
  BY <1>1, <1>2, RingMaskAssumption DEF RxFull, RingNext, Slots
<1> QED
  BY <1>2, <1>4, <1>5 DEF RxPart

LEMMA GotReset ==
    ASSUME PollTypeOK, RxPart, UbootProbe
    PROVE  RxPart'
<1> DEFINE new == rx_buf'
<1>1. rx_inp_pos \in Slots /\ arrived \in Nat /\ rx_buf \in [Slots -> 0 .. MaxRx]
  BY DEF PollTypeOK, UartTypeOK
<1>2. got' = arrived /\ rx_out_pos' = rx_inp_pos
  BY DEF UbootProbe, ResetRx
<1>3. CASE StoreRx
  <2>1. /\ rx_line' = FALSE /\ arrived' = arrived + 1 /\ rx_inp_pos' = RingNext(rx_inp_pos)
        /\ new[rx_inp_pos] = arrived + 1
    BY <1>1, <1>3 DEF StoreRx
  <2> HIDE DEF new
  <2>2. Holds(new, rx_inp_pos, RingNext(rx_inp_pos), 0, 0, arrived, arrived + 1)
    BY <1>1, <2>1, HoldsReset
  <2> QED BY <1>1, <1>2, <2>1, <2>2 DEF RxPart, new
<1>4. CASE UNCHANGED <<rx_buf, rx_inp_pos, rx_line, arrived>>
  <2>1. RingNext(rx_inp_pos) # rx_inp_pos
    BY <1>1, RingTypes
  <2>2. Holds(rx_buf, rx_inp_pos, rx_inp_pos, 0, 0, arrived, arrived)
    BY <1>1, HoldsReset
  <2> QED BY <1>1, <1>2, <1>4, <2>1, <2>2 DEF RxPart, RxFull
<1> QED
  BY <1>3, <1>4 DEF UbootProbe

LEMMA RxStep ==
    ASSUME PollTypeOK, RxPart, [PollNext]_pollingVars
    PROVE  RxPart'
<1> USE DEF rxSide, rxFifo, txSide, uartVars, pollVars
<1>1. CASE UNCHANGED <<rxSide, got>>
  BY <1>1 DEF RxPart, RxFull
<1>2. CASE PeerSends /\ UNCHANGED got
  BY <1>2 DEF PeerSends, RxPart, RxFull
<1>3. CASE ReceiveChar /\ UNCHANGED got
  BY <1>3, GotStored DEF ReceiveChar
<1>4. CASE OpensbiGetc \/ UbootGetc \/ KgdbGet
  BY <1>4, GotRead DEF OpensbiGetc, UbootGetc, KgdbGet
<1>5. CASE UbootProbe
  BY <1>5, GotReset
<1>6. UNCHANGED pollingVars \/ PutcBegin \/ OpensbiPutc \/ UbootPutc \/ KgdbPut
        \/ KgdbEnter \/ KgdbPutBegin => UNCHANGED <<rxSide, got>>
  BY DEF pollingVars, PutcBegin, OpensbiPutc, UbootPutc, KgdbPut, PutChar, KgdbEnter, KgdbPutBegin
<1>7. UartNext /\ UNCHANGED pollVars =>
          \/ UNCHANGED <<rxSide, got>>
          \/ (PeerSends \/ ReceiveChar) /\ UNCHANGED got
  BY DEF UartNext, SendFlowChar, SendChar
<1> QED
  BY <1>1, <1>2, <1>3, <1>4, <1>5, <1>6, <1>7 DEF PollNext

-----------------------------------------------------------------------------
(* The transmit FIFO.                                                      *)

TxPart ==
    /\ step = "putc" => put < MaxTty
    /\ \A s \in Slots : tx_buf[s] <= put
    /\ sent <= put /\ tx_mark <= put
    /\ client # "kgdb" =>
           /\ TxStale >= 0 /\ (TxStale > 0 => sent <= tx_mark)
           /\ Holds(tx_buf, tx_out_pos, tx_inp_pos, TxStale, tx_mark, LastSent, put)

\* How many characters of before the reset are in the FIFO still.
LEMMA StaleCount ==
    ASSUME PollTypeOK
    PROVE  /\ TxStale = RingDist(tx_out_pos, tx_inp_pos) - (put - LastSent)
           /\ TxStale \in Int /\ LastSent \in Nat
           /\ RingDist(tx_out_pos, tx_inp_pos) \in Nat
<1>1. /\ tx_out_pos \in Slots /\ tx_inp_pos \in Slots
      /\ put \in Nat /\ sent \in Nat /\ tx_mark \in Nat
  BY UartAssumption DEF PollTypeOK, UartTypeOK
<1>2. RingDist(tx_out_pos, tx_inp_pos) \in Nat /\ LastSent \in Nat
  BY <1>1, RingTypes DEF LastSent
<1>3. Len(TxInFifo) = RingDist(tx_out_pos, tx_inp_pos)
  BY <1>1, HoldsSeq DEF TxInFifo
<1> QED
  BY <1>1, <1>2, <1>3 DEF TxStale

\* A character that is put.
LEMMA PutStored ==
    ASSUME PollTypeOK, PollTypeOK', TxPart, PutChar, step = "putc",
           client # "kgdb" => ~TxFull
    PROVE  TxPart'
<1> DEFINE old == tx_buf
           new == tx_buf'
<1>1. /\ tx_out_pos \in Slots /\ tx_inp_pos \in Slots /\ put \in Nat /\ sent \in Nat
      /\ tx_mark \in Nat /\ tx_buf \in [Slots -> 0 .. MaxTty]
  BY DEF PollTypeOK, UartTypeOK
<1>2. /\ put' = put + 1 /\ step' = "idle" /\ client' = client /\ tx_mark' = tx_mark
      /\ sent' = sent /\ tx_out_pos' = tx_out_pos
      /\ TxFull => UNCHANGED <<tx_buf, tx_inp_pos>>
      /\ ~TxFull => /\ new = [old EXCEPT ![tx_inp_pos] = put + 1]
                    /\ tx_inp_pos' = RingNext(tx_inp_pos)
  BY DEF PutChar, WriteTx
<1>3. \A s \in Slots : tx_buf'[s] <= put'
  BY <1>1, <1>2 DEF TxPart
<1>4. sent' <= put' /\ tx_mark' <= put' /\ LastSent' = LastSent
  BY <1>1, <1>2 DEF TxPart, LastSent
<1>5. ASSUME client # "kgdb"
      PROVE  /\ TxStale' = TxStale
             /\ Holds(tx_buf', tx_out_pos', tx_inp_pos', TxStale', tx_mark', LastSent', put')
  <2>1. /\ Stored(old, new, tx_inp_pos, put + 1) /\ RingNext(tx_inp_pos) # tx_out_pos
        /\ tx_inp_pos' = RingNext(tx_inp_pos)
    BY <1>1, <1>2, <1>5 DEF Stored, TxFull
  <2>2. /\ Holds(old, tx_out_pos, tx_inp_pos, TxStale, tx_mark, LastSent, put)
        /\ TxStale \in Nat /\ LastSent \in Nat /\ LastSent <= put
    BY <1>1, <1>5, StaleCount DEF TxPart, LastSent
  <2> HIDE DEF old, new
  <2>3. Holds(new, tx_out_pos, RingNext(tx_inp_pos), TxStale, tx_mark, LastSent, put + 1)
    BY <1>1, <2>1, <2>2, HoldsPut
  <2>4. TxStale' = TxStale
    <3>1. RingDist(tx_out_pos', tx_inp_pos') = RingDist(tx_out_pos, tx_inp_pos) + 1
      BY <1>1, <1>2, <2>1, RingMaskAssumption DEF RingDist, RingNext, Slots
    <3>2. TxStale' = RingDist(tx_out_pos', tx_inp_pos') - (put' - LastSent')
      <4>1. /\ tx_out_pos' \in Slots /\ tx_inp_pos' \in Slots
        BY DEF PollTypeOK, UartTypeOK
      <4> QED BY <4>1, HoldsSeq DEF TxStale, TxInFifo
    <3> QED BY <1>1, <1>2, <1>4, <2>2, <3>1, <3>2, StaleCount
  <2> QED BY <1>2, <1>4, <2>1, <2>3, <2>4 DEF new
<1> QED
  BY <1>2, <1>3, <1>4, <1>5 DEF TxPart

\* A character that goes out.
LEMMA PutSent ==
    ASSUME PollTypeOK, PollTypeOK', TxPart, PopTx,
           UNCHANGED <<tx_buf, tx_inp_pos, client, step, put, tx_mark>>
    PROVE  TxPart'
<1> DEFINE c == tx_buf[tx_out_pos]
<1>1. /\ tx_out_pos \in Slots /\ tx_inp_pos \in Slots /\ put \in Nat /\ sent \in Nat
      /\ tx_mark \in Nat /\ c \in Nat /\ c <= put
  BY UartAssumption DEF PollTypeOK, UartTypeOK, TxPart
<1>2. /\ sent' = IF c = 0 THEN sent ELSE c
      /\ tx_out_pos' = RingNext(tx_out_pos) /\ tx_inp_pos # tx_out_pos
  BY DEF PopTx, TxEmpty
<1>3. sent' <= put' /\ sent' \in Nat
  BY <1>1, <1>2 DEF TxPart
<1>4. ASSUME client # "kgdb"
      PROVE  /\ TxStale' >= 0 /\ (TxStale' > 0 => sent' <= tx_mark')
             /\ Holds(tx_buf', tx_out_pos', tx_inp_pos', TxStale', tx_mark', LastSent', put')
  <2>1. /\ Holds(tx_buf, tx_out_pos, tx_inp_pos, TxStale, tx_mark, LastSent, put)
        /\ TxStale \in Nat /\ LastSent \in Nat /\ LastSent <= put
        /\ TxStale > 0 => sent <= tx_mark
    BY <1>1, <1>4, StaleCount DEF TxPart, LastSent
  <2>2. /\ TxStale > 0 =>
               /\ c <= tx_mark
               /\ Holds(tx_buf, RingNext(tx_out_pos), tx_inp_pos, TxStale - 1, tx_mark,
                        LastSent, put)
        /\ TxStale = 0 =>
               /\ c = LastSent + 1
               /\ Holds(tx_buf, RingNext(tx_out_pos), tx_inp_pos, 0, tx_mark,
                        LastSent + 1, put)
    BY <1>1, <1>2, <2>1, HoldsTake
  <2>3. RingDist(tx_out_pos', tx_inp_pos') = RingDist(tx_out_pos, tx_inp_pos) - 1
    BY <1>1, <1>2, RingMaskAssumption DEF RingDist, RingNext, Slots
  <2>4. TxStale' = RingDist(tx_out_pos', tx_inp_pos') - (put' - LastSent')
    <3>1. tx_out_pos' \in Slots /\ tx_inp_pos' \in Slots
      BY DEF PollTypeOK, UartTypeOK
    <3> QED BY <3>1, HoldsSeq DEF TxStale, TxInFifo
  <2> HIDE DEF c
  <2>5. CASE TxStale > 0
    <3>1. LastSent' = LastSent /\ sent' <= tx_mark
      BY <1>1, <1>2, <2>1, <2>2, <2>5 DEF LastSent
    <3>2. TxStale' = TxStale - 1
      BY <1>1, <2>1, <2>3, <2>4, <3>1, StaleCount
    <3> QED BY <1>2, <2>1, <2>2, <2>5, <3>1, <3>2
  <2>6. CASE TxStale = 0
    <3>1. LastSent' = LastSent + 1
      BY <1>1, <1>2, <2>1, <2>2, <2>6 DEF LastSent
    <3>2. TxStale' = 0
      BY <1>1, <2>1, <2>3, <2>4, <2>6, <3>1, StaleCount
    <3> QED BY <1>2, <2>2, <2>6, <3>1, <3>2
  <2> QED BY <2>1, <2>5, <2>6
<1> QED
  BY <1>1, <1>3, <1>4 DEF TxPart

\* The reset.  If the line takes a character in the same clock the FIFO is full of
\* what it held before.
LEMMA PutReset ==
    ASSUME PollTypeOK, PollTypeOK', TxPart, UbootProbe
    PROVE  TxPart'
<1>1. /\ tx_out_pos \in Slots /\ put \in Nat /\ sent \in Nat
      /\ tx_buf \in [Slots -> 0 .. MaxTty] /\ tx_out_pos' \in Slots /\ tx_inp_pos' \in Slots
      /\ tx_buf[tx_out_pos] \in Nat /\ tx_buf[tx_out_pos] <= put
  BY UartAssumption DEF PollTypeOK, UartTypeOK, TxPart
<1>2. /\ tx_mark' = put /\ put' = put /\ tx_buf' = tx_buf /\ tx_inp_pos' = tx_out_pos
      /\ step' = step
  BY DEF UbootProbe
<1>3. sent' <= put /\ sent' \in Nat
  BY <1>1 DEF UbootProbe, PopTx, TxPart
<1>4. LastSent' = put
  BY <1>1, <1>2, <1>3 DEF LastSent
<1>5. TxStale' = RingDist(tx_out_pos', tx_inp_pos')
  BY <1>1, <1>2, <1>4, HoldsSeq DEF TxStale, TxInFifo
<1>6. RingDist(tx_out_pos', tx_inp_pos') \in Nat
  BY <1>1, HoldsSeq
<1>7. Holds(tx_buf', tx_out_pos', tx_inp_pos', TxStale', tx_mark', LastSent', put')
  <2>1. ASSUME NEW i \in 1 .. RingDist(tx_out_pos', tx_inp_pos')
        PROVE  tx_buf'[RingAdvance(tx_out_pos', i - 1)] <= tx_mark'
    <3>1. RingAdvance(tx_out_pos', i - 1) \in Slots
      BY <1>1, RingInside
    <3> QED BY <1>2, <3>1 DEF TxPart
  <2>2. \A i \in 1 .. RingDist(tx_out_pos', tx_inp_pos') : i <= TxStale'
    BY <1>5, <1>6
  <2>3. RingDist(tx_out_pos', tx_inp_pos') = TxStale' + (put' - LastSent')
    BY <1>1, <1>2, <1>4, <1>5, <1>6
  <2> QED BY <2>1, <2>2, <2>3 DEF Holds
<1> QED
  BY <1>1, <1>2, <1>3, <1>5, <1>6, <1>7 DEF TxPart

LEMMA TxStep ==
    ASSUME PollTypeOK, PollTypeOK', TxPart, [PollNext]_pollingVars
    PROVE  TxPart'
<1> USE DEF rxSide, rxFifo, txSide, txFifo, uartVars, pollVars
<1>1. CASE /\ UNCHANGED <<txFifo, sent, put, tx_mark>>
           /\ client' = client \/ client' = "kgdb"
           /\ step' = "putc" => put < MaxTty
  BY <1>1 DEF TxPart, TxStale, LastSent, TxInFifo
<1>2. CASE SendChar /\ UNCHANGED pollVars
  BY <1>2, PutSent DEF SendChar
<1>3. CASE OpensbiPutc \/ UbootPutc \/ KgdbPut
  BY <1>3, PutStored DEF OpensbiPutc, UbootPutc, KgdbPut
<1>4. CASE UbootProbe
  BY <1>4, PutReset
<1>5. UartNext /\ UNCHANGED pollVars /\ ~SendChar =>
          /\ UNCHANGED <<txFifo, sent, put, tx_mark, client, step>>
  BY DEF UartNext, SendFlowChar, PeerSends, ReceiveChar, StoreRx
<1>6. PutcBegin \/ KgdbPutBegin =>
          /\ UNCHANGED <<txFifo, sent, put, tx_mark, client>> /\ put < MaxTty
  BY DEF PutcBegin, KgdbPutBegin
<1>7. OpensbiGetc \/ UbootGetc \/ KgdbGet \/ UNCHANGED pollingVars =>
          UNCHANGED <<txFifo, sent, put, tx_mark, client, step>>
  BY DEF OpensbiGetc, UbootGetc, KgdbGet, GetChar, pollingVars
<1>8. KgdbEnter => /\ UNCHANGED <<txFifo, sent, put, tx_mark, step>> /\ client' = "kgdb"
  BY DEF KgdbEnter
<1>9. step = "putc" => put < MaxTty
  BY DEF TxPart
<1> QED
  BY <1>1, <1>2, <1>3, <1>4, <1>5, <1>6, <1>7, <1>8, <1>9 DEF PollNext

-----------------------------------------------------------------------------
(* Both of them.                                                           *)

LEMMA PolledParts ==
    ASSUME PollTypeOK, RxPart, TxPart
    PROVE  PolledInv
<1>1. /\ tx_out_pos \in Slots /\ tx_inp_pos \in Slots
      /\ rx_out_pos \in Slots /\ rx_inp_pos \in Slots
      /\ put \in Nat /\ sent \in Nat /\ tx_mark \in Nat /\ got \in Nat /\ arrived \in Nat
  BY UartAssumption DEF PollTypeOK, UartTypeOK
<1>2. GotInOrder
  BY <1>1, HoldsAll DEF RxPart, GotInOrder, RxInFifo
<1>3. ASSUME client # "kgdb"
      PROVE  PutInOrder
  <2>1. /\ Holds(tx_buf, tx_out_pos, tx_inp_pos, TxStale, tx_mark, LastSent, put)
        /\ TxStale >= 0
    BY <1>3 DEF TxPart
  <2>2. LastSent <= put
    BY DEF TxPart, LastSent
  <2>3. /\ Len(TxInFifo) = RingDist(tx_out_pos, tx_inp_pos)
        /\ \A i \in 1 .. RingDist(tx_out_pos, tx_inp_pos) :
               TxInFifo[i] = tx_buf[RingAdvance(tx_out_pos, i - 1)]
    BY <1>1, HoldsSeq DEF TxInFifo
  <2> QED BY <2>1, <2>2, <2>3 DEF PutInOrder, Holds
<1> QED
  BY <1>2, <1>3 DEF PolledInv, PolledCharsInOrder, TxPart, RxPart

\* What OpenSBI and U-Boot put goes out, and what arrives is read, completely and in
\* order, for every size of the FIFOs: also if the reset of the FIFOs by U-Boot falls
\* into the clock in which the core itself moves the other pointer.  Nothing is said
\* of what the debugger puts (KgdbPut).
THEOREM PolledUartCorrect == PollSpec => []PolledCharsInOrder
<1> DEFINE Inv == PollTypeOK /\ RxPart /\ TxPart
<1>1. PollInit => Inv
  <2> SUFFICES ASSUME PollInit PROVE Inv
    OBVIOUS
  <2>1. /\ UartInit /\ client = "opensbi" /\ step = "idle"
        /\ put = 0 /\ tx_mark = 0 /\ got = 0
    BY DEF PollInit
  <2>2. /\ rx_buf = [s \in Slots |-> 0] /\ rx_inp_pos = 0 /\ rx_out_pos = 0
        /\ rx_line = FALSE /\ arrived = 0
        /\ tx_buf = [s \in Slots |-> 0] /\ tx_inp_pos = 0 /\ tx_out_pos = 0 /\ sent = 0
        /\ xon_xoff_inp = NoChar /\ xon_xoff_out = NoChar /\ control = Quiet
    BY <2>1 DEF UartInit
  <2>3. PollTypeOK
    <3>1. 0 \in 0 .. MaxRx /\ 0 \in 0 .. MaxTty
      BY UartAssumption
    <3>2. control \in Control
      BY <2>2 DEF Control, Quiet
    <3>3. rx_buf \in [Slots -> 0 .. MaxRx] /\ tx_buf \in [Slots -> 0 .. MaxTty]
      BY <2>2, <3>1
    <3> QED BY <2>1, <2>2, <3>1, <3>2, <3>3, RingTypes DEF PollTypeOK, UartTypeOK
  <2>4. Holds(rx_buf, 0, 0, 0, 0, 0, 0) /\ Holds(tx_buf, 0, 0, 0, 0, 0, 0)
    BY RingTypes, HoldsReset
  <2>5. RxPart
    BY <2>1, <2>2, <2>4 DEF RxPart
  <2>6. RingDist(0, 0) = 0
    BY RingTypes
  <2>7. LastSent = 0 /\ TxStale = 0
    BY <2>1, <2>2, <2>3, <2>6, StaleCount DEF LastSent
  <2>8. TxPart
    BY <2>1, <2>2, <2>4, <2>7 DEF TxPart
  <2> QED BY <2>3, <2>5, <2>8
<1>2. Inv /\ [PollNext]_pollingVars => Inv'
  <2> SUFFICES ASSUME PollTypeOK, RxPart, TxPart, [PollNext]_pollingVars
               PROVE  Inv'
    OBVIOUS
  <2>1. PollTypeOK'
    BY PolledParts, PolledTypes
  <2> QED BY <2>1, RxStep, TxStep
<1>3. Inv => PolledCharsInOrder
  BY PolledParts DEF PolledInv
<1> QED
  BY <1>1, <1>2, <1>3, PTL DEF PollSpec

-----------------------------------------------------------------------------
(* The loader: where a chunk goes.                                         *)

\* A chunk, or what is left of it, never goes where the boot ROM has its memory; and
\* all of it goes where its cells are at home, if it is in the RAM.
LEMMA PlaceOfChunk ==
    ASSUME NEW addr \in Nat, NEW size \in 1 .. Chunk
    PROVE  /\ Place(addr, size).at \in Nat /\ Place(addr, size).size \in 1 .. size
           /\ Place(addr, size).alt \in BOOLEAN
           /\ \A k \in 0 .. Place(addr, size).size - 1 :
                 /\ Place(addr, size).at + k \notin RomMemory
                 /\ addr >= MemAddr => /\ Home(addr + k) = Place(addr, size).at + k
                                       /\ addr + k \in RomMemory => Place(addr, size).alt
<1> USE LoaderAssumption
<1>1. CASE addr + size > MemAddr /\ addr < MemEnd
  <2>1. /\ Place(addr, size).at = addr - MemAddr + MemAlt
        /\ Place(addr, size).size = Lesser(size, MemEnd - addr)
        /\ Place(addr, size).alt = TRUE
    BY <1>1 DEF Place
  <2>2. Lesser(size, MemEnd - addr) \in 1 .. size
        /\ Lesser(size, MemEnd - addr) <= MemEnd - addr
    BY <1>1 DEF Lesser
  <2>3. addr - MemAddr + MemAlt \in Nat /\ addr - MemAddr + MemAlt >= MemEnd
    BY <1>1
  <2>4. ASSUME NEW k \in 0 .. Lesser(size, MemEnd - addr) - 1
        PROVE  /\ addr - MemAddr + MemAlt + k \notin RomMemory
               /\ addr >= MemAddr => Home(addr + k) = addr - MemAddr + MemAlt + k
    BY <2>2, <2>3 DEF RomMemory, Home
  <2> QED BY <2>1, <2>2, <2>3, <2>4
<1>2. CASE ~(addr + size > MemAddr /\ addr < MemEnd)
  <2>1. Place(addr, size) = [at |-> addr, size |-> size, alt |-> FALSE]
    BY <1>2 DEF Place
  <2>2. ASSUME NEW k \in 0 .. size - 1
        PROVE  addr + k \notin RomMemory /\ Home(addr + k) = addr + k
    BY <1>2 DEF RomMemory, Home
  <2> QED BY <2>1, <2>2
<1> QED
  BY <1>1, <1>2

\* The chunks of a segment are chunks.
LEMMA ChunkSizes ==
    ASSUME LoaderTypeOK
    PROVE  /\ seg.addr \in Nat /\ seg.pos \in Nat /\ seg.memsz \in Nat /\ seg.filesz \in Nat
           /\ InFile =>
                  Lesser(Chunk, Lesser(seg.filesz - seg.pos, seg.memsz - seg.pos)) \in 1 .. Chunk
           /\ seg.pos < seg.memsz => Lesser(Chunk, seg.memsz - seg.pos) \in 1 .. Chunk
  BY LoaderAssumption DEF LoaderTypeOK, InFile, Lesser

-----------------------------------------------------------------------------
(* The loader: a chunk that is stored.                                     *)

\* n cells of a chunk at addr that goes to at.
LEMMA StoreChunk ==
    ASSUME LoaderInv, pc = "load",
           NEW p, p.at \in Nat, p.size \in Nat, p.alt \in BOOLEAN,
           \A k \in 0 .. p.size - 1 :
               /\ p.at + k \notin RomMemory
               /\ seg.addr >= MemAddr => /\ Home(seg.addr + k) = p.at + k
                                         /\ seg.addr + k \in RomMemory => p.alt,
           NEW n \in 1 .. p.size, NEW cells, DOMAIN cells = 1 .. n,
           Store(p.at, cells), Record(cells), Advance(n), alt_mem' = (alt_mem \/ p.alt),
           pc' = "load"
    PROVE  LoaderInv'
<1> USE LoaderAssumption
<1>0. LoaderTypeOK /\ RomMemoryIsKept /\ LoadedAtHome
  BY DEF LoaderInv
<1>1. /\ DOMAIN ram' = 0 .. MemTop - 1
      /\ \A a \in 0 .. MemTop - 1 :
            ram'[a] = IF a - p.at + 1 \in 1 .. n THEN cells[a - p.at + 1] ELSE ram[a]
  BY <1>0 DEF Store, LoaderTypeOK
<1>2. /\ DOMAIN loaded' = DOMAIN loaded \cup seg.addr .. seg.addr + n - 1
      /\ \A a \in DOMAIN loaded' :
            loaded'[a] = IF a - seg.addr + 1 \in 1 .. n THEN cells[a - seg.addr + 1]
                         ELSE loaded[a]
  <2>1. {seg.addr + k - 1 : k \in 1 .. n} = seg.addr .. seg.addr + n - 1
    <3>1. seg.addr \in Nat
      BY <1>0 DEF LoaderTypeOK
    <3>2. \A x \in seg.addr .. seg.addr + n - 1 :
              x - seg.addr + 1 \in 1 .. n /\ x = seg.addr + (x - seg.addr + 1) - 1
      BY <3>1
    <3>3. \A k \in 1 .. n : seg.addr + k - 1 \in seg.addr .. seg.addr + n - 1
      BY <3>1
    <3> QED BY <3>2, <3>3
  <2> QED BY <2>1 DEF Record
<1>3. LoaderTypeOK'
  <2>1. seg' \in [type : {0, PtLoad}, offset : Nat, filesz : Nat, memsz : Nat,
                  addr : Nat, pos : Nat]
    <3>1. seg \in [type : {0, PtLoad}, offset : Nat, filesz : Nat, memsz : Nat,
                   addr : Nat, pos : Nat]
      BY <1>0 DEF LoaderTypeOK
    <3>2. seg.addr + n \in Nat /\ seg.pos + n \in Nat
      BY <3>1
    <3>3. seg' = [[seg EXCEPT !.addr = seg.addr + n] EXCEPT !.pos = seg.pos + n]
      BY <3>1 DEF Advance
    <3> QED BY <3>1, <3>2, <3>3
  <2>2. alt_mem' \in BOOLEAN
    OBVIOUS
  <2>3. DOMAIN loaded' \subseteq Nat
    BY <1>0, <1>2 DEF LoaderTypeOK
  <2> QED BY <1>1, <2>1, <2>2, <2>3 DEF LoaderTypeOK
<1>4. RomMemoryIsKept'
  <2>1. ASSUME NEW a \in RomMemory
        PROVE  ram'[a] = Rom
    <3>1. a \in 0 .. MemTop - 1 /\ ram[a] = Rom
      BY <1>0 DEF RomMemory, RomMemoryIsKept
    <3>2. a - p.at + 1 \notin 1 .. n
      <4>1. a \in Int
        BY DEF RomMemory
      <4>2. a - p.at + 1 \in 1 .. n => a - p.at \in 0 .. p.size - 1 /\ p.at + (a - p.at) = a
        BY <4>1
      <4> QED BY <4>2
    <3> QED BY <1>1, <3>1, <3>2
  <2> QED BY <2>1 DEF RomMemoryIsKept, RomMemory
<1>5. LoadedAtHome'
  <2> SUFFICES ASSUME DOMAIN loaded' \subseteq MemAddr .. MemAlt - 1, NEW a \in DOMAIN loaded'
               PROVE  ram'[Home(a)] = loaded'[a] /\ (a \in RomMemory => alt_mem')
    BY DEF LoadedAtHome, Home, RomMemory
  <2>1. seg.addr \in Nat /\ seg.addr >= MemAddr
    <3>1. seg.addr \in Nat
      BY <1>0 DEF LoaderTypeOK
    <3>2. seg.addr \in DOMAIN loaded'
      BY <1>2, <3>1
    <3> QED BY <3>1, <3>2
  <2>2. a \in Int /\ MemAddr <= a /\ a < MemAlt
    OBVIOUS
  <2>3. Home(a) \in 0 .. MemTop - 1
    BY <2>2 DEF Home, RomMemory
  <2>4. CASE a \in seg.addr .. seg.addr + n - 1
    <3>1. a - seg.addr \in 0 .. p.size - 1 /\ seg.addr + (a - seg.addr) = a
      BY <2>1, <2>2, <2>4
    <3>2. Home(a) = p.at + (a - seg.addr) /\ (a \in RomMemory => p.alt)
      BY <2>1, <3>1
    <3>3. Home(a) - p.at + 1 = a - seg.addr + 1 /\ a - seg.addr + 1 \in 1 .. n
      BY <2>1, <2>2, <2>4, <3>2
    <3> QED BY <1>1, <1>2, <2>3, <3>2, <3>3
  <2>5. CASE a \notin seg.addr .. seg.addr + n - 1
    <3>1. a \in DOMAIN loaded /\ DOMAIN loaded \subseteq MemAddr .. MemAlt - 1
      BY <1>2, <2>5
    <3>2. ram[Home(a)] = loaded[a] /\ (a \in RomMemory => alt_mem)
      BY <1>0, <3>1 DEF LoadedAtHome
    <3>3. a - seg.addr + 1 \notin 1 .. n
      BY <2>1, <2>2, <2>5
    <3>4. Home(a) - p.at + 1 \notin 1 .. n
      <4>1. SUFFICES ASSUME Home(a) - p.at + 1 \in 1 .. n
                     PROVE  FALSE
        OBVIOUS
      <4> DEFINE k == Home(a) - p.at
                 b == seg.addr + k
      <4>2. Home(a) \in Int
        BY <2>3
      <4>3. k \in 0 .. p.size - 1 /\ k <= n - 1
        BY <4>1, <4>2
      <4>4. Home(b) = p.at + k
        BY <2>1, <4>3
      <4>5. p.at + k = Home(a)
        BY <4>2
      <4>6. b \in seg.addr .. seg.addr + n - 1
        BY <2>1, <4>3
      <4>7. b \in Int /\ MemAddr <= b /\ b < MemAlt
        BY <1>2, <2>1, <4>6
      <4>8. a = b
        BY <2>2, <4>4, <4>5, <4>7 DEF Home, RomMemory
      <4> QED BY <2>5, <4>6, <4>8
    <3> QED BY <1>1, <1>2, <2>3, <3>2, <3>3, <3>4
  <2> QED BY <2>4, <2>5
<1>6. LoadedIsInPlace'
  BY DEF LoadedIsInPlace
<1> QED
  BY <1>3, <1>4, <1>5, <1>6 DEF LoaderInv

-----------------------------------------------------------------------------
(* The loader: its steps.                                                  *)

\* f_read fails when it has written some of the chunk.
LEMMA ReadFails ==
    ASSUME LoaderInv, LoadSome, pc' = "failed"
    PROVE  LoaderInv'
<1> USE LoaderAssumption
<1>0. LoaderTypeOK /\ RomMemoryIsKept
  BY DEF LoaderInv
<1>1. /\ pc = "load" /\ InFile
      /\ ram' = [a \in DOMAIN ram |->
                    IF a \in FileChunk.at .. FileChunk.at + FileChunk.size - 1
                    THEN ram'[a] ELSE ram[a]]
      /\ alt_mem' = (alt_mem \/ FileChunk.alt) /\ UNCHANGED <<seg, loaded>>
  BY DEF LoadSome
<1>2. /\ FileChunk.at \in Nat /\ FileChunk.size \in Nat /\ FileChunk.alt \in BOOLEAN
      /\ \A k \in 0 .. FileChunk.size - 1 : FileChunk.at + k \notin RomMemory
  BY <1>0, <1>1, ChunkSizes, PlaceOfChunk DEF FileChunk
<1>3. LoaderTypeOK'
  <2>1. DOMAIN ram' = 0 .. MemTop - 1
    BY <1>0, <1>1 DEF LoaderTypeOK
  <2>2. alt_mem' \in BOOLEAN
    BY <1>1
  <2> QED BY <1>0, <1>1, <2>1, <2>2 DEF LoaderTypeOK
<1>4. RomMemoryIsKept'
  <2>1. ASSUME NEW a \in RomMemory
        PROVE  ram'[a] = Rom
    <3>1. a \in 0 .. MemTop - 1 /\ a \in DOMAIN ram /\ ram[a] = Rom
      BY <1>0, <1>1 DEF RomMemory, RomMemoryIsKept, LoaderTypeOK
    <3>2. a \notin FileChunk.at .. FileChunk.at + FileChunk.size - 1
      <4>1. a \in FileChunk.at .. FileChunk.at + FileChunk.size - 1 =>
                a - FileChunk.at \in 0 .. FileChunk.size - 1
                /\ FileChunk.at + (a - FileChunk.at) = a
        BY <1>2, <3>1
      <4> QED BY <1>2, <4>1
    <3> QED BY <1>1, <3>1, <3>2
  <2> QED BY <2>1 DEF RomMemoryIsKept, RomMemory
<1> QED
  BY <1>3, <1>4 DEF LoaderInv, LoadedAtHome, LoadedIsInPlace

LEMMA ReadKeeps ==
    ASSUME LoaderInv, LoadSome, pc' = "load"
    PROVE  LoaderInv'
<1> DEFINE cells(n) == [k \in 1 .. n |-> loaded'[seg.addr + k - 1]]
<1>0. LoaderTypeOK
  BY DEF LoaderInv
<1>1. pc = "load" /\ InFile /\ alt_mem' = (alt_mem \/ FileChunk.alt)
  BY DEF LoadSome
<1>2. PICK n \in 1 .. FileChunk.size :
          Advance(n) /\ Store(FileChunk.at, cells(n)) /\ Record(cells(n))
  BY DEF LoadSome
<1>3. /\ FileChunk.at \in Nat /\ FileChunk.size \in Nat /\ FileChunk.alt \in BOOLEAN
      /\ \A k \in 0 .. FileChunk.size - 1 :
            /\ FileChunk.at + k \notin RomMemory
            /\ seg.addr >= MemAddr => /\ Home(seg.addr + k) = FileChunk.at + k
                                      /\ seg.addr + k \in RomMemory => FileChunk.alt
  BY <1>0, <1>1, ChunkSizes, PlaceOfChunk DEF FileChunk
<1>4. DOMAIN cells(n) = 1 .. n
  OBVIOUS
<1> HIDE DEF cells
<1> QED
  BY <1>1, <1>2, <1>3, <1>4, StoreChunk

LEMMA ZeroKeeps ==
    ASSUME LoaderInv, ZeroSome
    PROVE  LoaderInv'
<1> DEFINE zeroes == [k \in 1 .. ZeroesChunk.size |-> 0]
<1>0. LoaderTypeOK
  BY DEF LoaderInv
<1>1. /\ pc = "load" /\ seg.pos < seg.memsz /\ alt_mem' = (alt_mem \/ ZeroesChunk.alt)
      /\ Store(ZeroesChunk.at, zeroes) /\ Record(zeroes) /\ Advance(ZeroesChunk.size)
      /\ pc' = "load"
  BY DEF ZeroSome
<1>2. /\ ZeroesChunk.at \in Nat /\ ZeroesChunk.size \in Nat \ {0}
      /\ ZeroesChunk.alt \in BOOLEAN
      /\ \A k \in 0 .. ZeroesChunk.size - 1 :
            /\ ZeroesChunk.at + k \notin RomMemory
            /\ seg.addr >= MemAddr => /\ Home(seg.addr + k) = ZeroesChunk.at + k
                                      /\ seg.addr + k \in RomMemory => ZeroesChunk.alt
  BY <1>0, <1>1, ChunkSizes, PlaceOfChunk DEF ZeroesChunk
<1>3. DOMAIN zeroes = 1 .. ZeroesChunk.size /\ ZeroesChunk.size \in 1 .. ZeroesChunk.size
  BY <1>2
<1> HIDE DEF zeroes
<1> QED
  BY <1>1, <1>2, <1>3, StoreChunk

LEMMA JumpKeeps ==
    ASSUME LoaderInv, Jump
    PROVE  LoaderInv'
<1> USE LoaderAssumption
<1>0. LoaderTypeOK /\ LoadedAtHome
  BY DEF LoaderInv
<1>1. /\ pc = "ph" /\ pc' = "jumped" /\ UNCHANGED <<seg, alt_mem, loaded>>
      /\ alt_mem => ram' = MovedBack
      /\ ~alt_mem => ram' = ram
  BY DEF Jump
<1>2. DOMAIN ram' = 0 .. MemTop - 1
  BY <1>0, <1>1 DEF LoaderTypeOK, MovedBack
<1>3. ASSUME DOMAIN loaded \subseteq MemAddr .. MemAlt - 1, NEW a \in DOMAIN loaded
      PROVE  ram'[a] = loaded[a]
  <2>1. ram[Home(a)] = loaded[a] /\ (a \in RomMemory => alt_mem)
    BY <1>0, <1>1, <1>3 DEF LoadedAtHome
  <2>2. a \in 0 .. MemTop - 1
    BY <1>3
  <2>3. CASE a \in RomMemory
    BY <1>0, <1>1, <2>1, <2>2, <2>3 DEF MovedBack, Home, LoaderTypeOK
  <2>4. CASE a \notin RomMemory
    BY <1>0, <1>1, <2>1, <2>2, <2>4 DEF MovedBack, Home, LoaderTypeOK
  <2> QED BY <2>3, <2>4
<1>4. LoaderTypeOK'
  BY <1>0, <1>1, <1>2 DEF LoaderTypeOK
<1>5. LoadedIsInPlace'
  BY <1>1, <1>3 DEF LoadedIsInPlace
<1> QED
  BY <1>1, <1>4, <1>5 DEF LoaderInv, RomMemoryIsKept, LoadedAtHome

\* The steps that leave the memory and what was loaded alone.
LEMMA OthersKeep ==
    ASSUME LoaderInv,
           \/ Prepare \/ NextHeader \/ SegmentEnds \/ StartOver \/ UNCHANGED loaderVars
    PROVE  LoaderInv'
<1> USE LoaderAssumption
<1>0. LoaderTypeOK /\ RomMemoryIsKept /\ LoadedAtHome /\ LoadedIsInPlace
  BY DEF LoaderInv
<1>1. CASE Prepare
  BY <1>0, <1>1 DEF Prepare, LoaderInv, LoaderTypeOK, RomMemoryIsKept, LoadedAtHome,
                    LoadedIsInPlace
<1>2. CASE NextHeader
  <2>1. seg' \in [type : {0, PtLoad}, offset : Nat, filesz : Nat, memsz : Nat,
                  addr : Nat, pos : Nat]
    <3>1. CASE seg' \in Segments
      BY <3>1 DEF Segments
    <3>2. CASE seg' = seg
      BY <1>0, <3>2 DEF LoaderTypeOK
    <3> QED BY <1>2, <3>1, <3>2 DEF NextHeader
  <2>2. /\ pc = "ph" /\ pc' \in {"load", "ph", "failed"}
        /\ UNCHANGED <<alt_mem, ram, loaded>>
    BY <1>2 DEF NextHeader
  <2> QED BY <1>0, <2>1, <2>2 DEF LoaderInv, LoaderTypeOK, RomMemoryIsKept, LoadedAtHome,
                                  LoadedIsInPlace
<1>3. CASE SegmentEnds
  BY <1>0, <1>3 DEF SegmentEnds, LoaderInv, LoaderTypeOK, RomMemoryIsKept, LoadedAtHome,
                    LoadedIsInPlace
<1>4. CASE StartOver
  <2>1. pc = "failed" /\ pc' = "mount" /\ loaded' = <<>> /\ UNCHANGED <<seg, alt_mem, ram>>
    BY <1>4 DEF StartOver
  <2>2. DOMAIN loaded' = {}
    BY <2>1
  <2> QED BY <1>0, <2>1, <2>2 DEF LoaderInv, LoaderTypeOK, RomMemoryIsKept, LoadedAtHome,
                                  LoadedIsInPlace
<1>5. CASE UNCHANGED loaderVars
  BY <1>0, <1>5 DEF loaderVars, LoaderInv, LoaderTypeOK, RomMemoryIsKept, LoadedAtHome,
                    LoadedIsInPlace
<1> QED
  BY <1>1, <1>2, <1>3, <1>4, <1>5

LEMMA LoaderStart == LoaderInit => LoaderInv
<1> USE LoaderAssumption
<1> SUFFICES ASSUME LoaderInit PROVE LoaderInv
  OBVIOUS
<1>1. /\ pc = "mount" /\ seg = NoSegment /\ alt_mem = FALSE /\ loaded = <<>>
      /\ ram = [a \in 0 .. MemTop - 1 |-> IF a \in RomMemory THEN Rom ELSE Stray]
  BY DEF LoaderInit
<1>2. DOMAIN loaded = {}
  BY <1>1
<1>3. LoaderTypeOK
  BY <1>1, <1>2 DEF LoaderTypeOK, NoSegment
<1>4. RomMemoryIsKept
  BY <1>1 DEF RomMemoryIsKept, RomMemory
<1> QED
  BY <1>1, <1>2, <1>3, <1>4 DEF LoaderInv, LoadedAtHome, LoadedIsInPlace

LEMMA LoaderStep == LoaderInv /\ [LoaderNext]_loaderVars => LoaderInv'
<1> SUFFICES ASSUME LoaderInv, [LoaderNext]_loaderVars PROVE LoaderInv'
  OBVIOUS
<1>1. CASE LoadSome
  <2>1. pc' = "load" \/ pc' = "failed"
    BY <1>1 DEF LoadSome
  <2> QED BY <1>1, <2>1, ReadKeeps, ReadFails
<1>2. CASE ZeroSome
  BY <1>2, ZeroKeeps
<1>3. CASE Jump
  BY <1>3, JumpKeeps
<1>4. CASE Prepare \/ NextHeader \/ SegmentEnds \/ StartOver \/ UNCHANGED loaderVars
  BY <1>4, OthersKeep
<1> QED
  BY <1>1, <1>2, <1>3, <1>4 DEF LoaderNext

\* Whatever segments an ELF file has and whatever f_read gets of them, the boot ROM
\* never writes its own memory before the jump.
THEOREM RomMemoryKept == LoaderSpec => []RomMemoryIsKept
<1>1. LoaderInv => RomMemoryIsKept
  BY DEF LoaderInv
<1> QED
  BY <1>1, LoaderStart, LoaderStep, PTL DEF LoaderSpec

\* And after the jump what the segments put where is there, for every memory
\* map and size of the chunks.
THEOREM LoadedInPlace == LoaderSpec => []LoadedIsInPlace
<1>1. LoaderInv => LoadedIsInPlace
  BY DEF LoaderInv
<1> QED
  BY <1>1, LoaderStart, LoaderStep, PTL DEF LoaderSpec
=============================================================================

------------------------- MODULE EthRxMemory_proofs -------------------------
(***************************************************************************)
(* Proof that the receive engine of the Ethernet NIC writes no byte        *)
(* outside the buffer of the descriptor, and that the buffer holds the     *)
(* frame when it is done, for every width of the bus, FIFO and page size,  *)
(* buffer and frame.                                                       *)
(***************************************************************************)
EXTENDS EthDma_proofs

\* Words of the buffer, and where its first one is.
RxBufferWords == (rx_buf.size + RxOffset + WordBytes - 1) \div WordBytes
RxBufferFirst == rx_buf.addr \div WordBytes

\* The word to be written next is the one rx_word_left says, and its strobe
\* leaves out what is before the buffer.
RxNextWord ==
    /\ rx_word_left <= RxBufferWords
    /\ RxBurstFirst = RxBufferFirst + RxBufferWords - rx_word_left
    /\ rx_wstrb \subseteq Bytes
    /\ \A k \in rx_wstrb : RxBurstFirst * WordBytes + k >= rx_buf.addr

\* A burst goes on where the engine is, and has at most one word more than the
\* buffer: what the shift has kept back, which does not fit any more and has
\* no strobe.
RxBurstInBuffer ==
    IF rx_m_axi_stop0
        THEN rx_wstrb = {} /\ m_axi_wcnt = m_axi_awlen
        ELSE /\ m_axi_awaddr + m_axi_wcnt = RxBurstFirst
             /\ m_axi_awlen - m_axi_wcnt <= rx_word_left

RxPlaceInv ==
    /\ DOMAIN memory = 0 .. MemoryBytes - 1
    /\ rx_axis_start => rx_buf \in RxBuffers
    /\ rx_start /\ rx_axis_start /\ ~rx_m_axi_stop0 => RxNextWord
    /\ m_axi_wvalid => RxBurstInBuffer
    /\ RxStaysInBuffer

-----------------------------------------------------------------------------
(* Words and bytes of a buffer.                                            *)

\* The words that hold n bytes: the last one begins before the end of the
\* bytes, by as many bytes as the remainder says.
LEMMA WordsOf ==
    ASSUME NEW W \in Nat \ {0}, NEW n \in Nat \ {0}
    PROVE  LET q == (n + W - 1) \div W
           IN  /\ q \in Nat \ {0}
               /\ n <= W * q /\ W * q <= n + W - 1
               /\ n % W = 0 => W * q = n
               /\ n % W # 0 => n = W * q - W + (n % W)
<1> DEFINE m == n + W - 1
           q == m \div W
           r == m % W
           j == n \div W
           s == n % W
<1>1. m \in Nat /\ m >= W
  OBVIOUS
<1>2. q \in Nat /\ r \in 0 .. W - 1 /\ m = W * q + r
  <2> HIDE DEF m
  <2> QED BY <1>1, DivMod
<1>3. j \in Nat /\ s \in 0 .. W - 1 /\ n = W * j + s
  BY DivMod
<1>4. m = n + W - 1
  OBVIOUS
<1> HIDE DEF m, q, r, j, s
<1>5. q # 0
  BY <1>1, <1>2
<1>6. n <= W * q /\ W * q <= n + W - 1
  BY <1>2, <1>4
<1>7. s = 0 => q = j
  <2> SUFFICES ASSUME s = 0 PROVE q = j
    OBVIOUS
  <2>1. W * q + r = W * j + (W - 1)
    BY <1>2, <1>3, <1>4
  <2>2. ~(q > j)
    <3> SUFFICES ASSUME q > j PROVE FALSE
      OBVIOUS
    <3>1. W * q >= W * (j + 1)
      BY <1>2, <1>3
    <3>2. W * (j + 1) = W * j + W
      BY <1>3
    <3> QED BY <1>2, <1>3, <2>1, <3>1, <3>2
  <2>3. ~(q < j)
    <3> SUFFICES ASSUME q < j PROVE FALSE
      OBVIOUS
    <3>1. W * j >= W * (q + 1)
      BY <1>2, <1>3
    <3>2. W * (q + 1) = W * q + W
      BY <1>2
    <3> QED BY <1>2, <1>3, <2>1, <3>1, <3>2
  <2> QED BY <1>2, <1>3, <2>2, <2>3
<1>8. s # 0 => q = j + 1
  <2> SUFFICES ASSUME s # 0 PROVE q = j + 1
    OBVIOUS
  <2>1. W * q + r = W * (j + 1) + (s - 1)
    <3>1. W * (j + 1) = W * j + W
      BY <1>3
    <3> QED BY <1>2, <1>3, <1>4, <3>1
  <2>2. ~(q > j + 1)
    <3> SUFFICES ASSUME q > j + 1 PROVE FALSE
      OBVIOUS
    <3>1. W * q >= W * (j + 2)
      BY <1>2, <1>3
    <3>2. W * (j + 2) = W * (j + 1) + W
      BY <1>3
    <3> QED BY <1>2, <1>3, <2>1, <3>1, <3>2
  <2>3. ~(q < j + 1)
    <3> SUFFICES ASSUME q < j + 1 PROVE FALSE
      OBVIOUS
    <3>1. W * j >= W * q
      BY <1>2, <1>3
    <3>2. W * (j + 1) = W * j + W
      BY <1>3
    <3> QED BY <1>2, <1>3, <2>1, <3>1, <3>2
  <2> QED BY <1>2, <1>3, <2>2, <2>3
<1>9. s = 0 => W * q = n
  BY <1>3, <1>7
<1>10. s # 0 => n = W * q - W + s
  <2> SUFFICES ASSUME s # 0 PROVE n = W * q - W + s
    OBVIOUS
  <2>1. W * q = W * j + W
    BY <1>2, <1>3, <1>8
  <2> QED BY <1>3, <2>1
<1>11. q \in Nat \ {0}
  BY <1>2, <1>5
<1> QED BY <1>6, <1>9, <1>10, <1>11 DEF q, s, m

\* The multiples of a number go up by at least it.
LEMMA Multiples ==
    ASSUME NEW W \in Nat \ {0}, NEW m \in Int, NEW n \in Int, m < n
    PROVE  W * m + W <= W * n
<1>1. W * (m + 1) <= W * n
  OBVIOUS
<1>2. W * (m + 1) = W * m + W
  OBVIOUS
<1> QED BY <1>1, <1>2

\* What the numbers of a buffer are.
LEMMA RxBufferNumbers ==
    ASSUME rx_buf \in RxBuffers
    PROVE  /\ WordBytes \in Nat \ {0}
           /\ rx_buf.addr \in Nat /\ rx_buf.size \in Nat \ {0}
           /\ RxOffset \in 0 .. WordBytes - 1 /\ RxBufferFirst \in Nat
           /\ rx_buf.addr = WordBytes * RxBufferFirst + RxOffset
           /\ RxSizeAligned = rx_buf.size + RxOffset
           /\ RxSizeAligned \in Nat \ {0}
<1>1. /\ WordBytes \in Nat \ {0}
      /\ rx_buf.addr \in Nat /\ rx_buf.size \in Nat /\ rx_buf.size > WordBytes
  BY RxAssumption, RxConstants
<1>2. /\ RxOffset \in 0 .. WordBytes - 1 /\ RxBufferFirst \in Nat
      /\ rx_buf.addr = WordBytes * RxBufferFirst + RxOffset
  BY <1>1, DivMod DEF RxOffset, RxBufferFirst
<1> QED BY <1>1, <1>2 DEF RxSizeAligned

\* The words of a buffer hold it, and the last one begins before its end.
LEMMA RxBufferHolds ==
    ASSUME rx_buf \in RxBuffers
    PROVE  /\ RxBufferWords \in 1 .. SizeRange - 1
           /\ RxSizeAligned <= WordBytes * RxBufferWords
           /\ WordBytes * RxBufferWords <= RxSizeAligned + WordBytes - 1
           /\ RxSizeAligned % WordBytes = 0 =>
                WordBytes * RxBufferWords = RxSizeAligned
           /\ RxSizeAligned % WordBytes # 0 =>
                RxSizeAligned = WordBytes * RxBufferWords - WordBytes
                                  + (RxSizeAligned % WordBytes)
<1>1. RxBufferWords \in 1 .. SizeRange - 1
  BY RxLoadWords DEF RxBufferWords, RxOffset
<1>2. RxBufferWords = (RxSizeAligned + WordBytes - 1) \div WordBytes
  BY RxBufferNumbers DEF RxBufferWords, RxSizeAligned
<1> QED BY <1>1, <1>2, RxBufferNumbers, WordsOf

\* Byte k of word w of the memory.
LEMMA ByteOfWord ==
    ASSUME NEW a \in Nat, WordBytes \in Nat \ {0}
    PROVE  /\ a \div WordBytes \in Nat /\ a % WordBytes \in Bytes
           /\ a = WordBytes * (a \div WordBytes) + (a % WordBytes)
  BY DivMod DEF Bytes

\* Every byte of the word written next that has a strobe is in the buffer.
LEMMA RxStrobeInBuffer ==
    ASSUME RxTypeOK, rx_buf \in RxBuffers, RxNextWord, rx_word_left >= 1,
           NEW k \in RxStrobe
    PROVE  InBuffer(WordBytes * RxBurstFirst + k)
<1> DEFINE W == WordBytes
           first == RxBufferFirst
           words == RxBufferWords
           left == rx_word_left
           size == RxSizeAligned
           w == RxBurstFirst
<1>1. /\ W \in Nat \ {0} /\ first \in Nat /\ words \in Nat /\ left \in Nat
      /\ size \in Nat
      /\ left >= 1 /\ left <= words
      /\ w = first + words - left
  <2>1. words \in Nat /\ left \in Nat
    <3>1. words \in 1 .. SizeRange - 1 /\ left \in 0 .. SizeRange - 1
      BY RxBufferHolds DEF RxTypeOK
    <3>2. SizeRange \in Nat
      BY RxConstants
    <3> QED BY <3>1, <3>2
  <2>2. left <= words /\ w = first + words - left
    BY DEF RxNextWord
  <2> QED BY <2>1, <2>2, RxBufferNumbers
<1>2. /\ rx_buf.addr \in Nat /\ rx_buf.size \in Nat
      /\ RxOffset \in 0 .. W - 1
      /\ rx_buf.addr = W * first + RxOffset /\ size = rx_buf.size + RxOffset
  BY RxBufferNumbers
<1>3. k \in 0 .. W - 1 /\ W * w + k >= rx_buf.addr
  <2>1. k \in rx_wstrb
    BY DEF RxStrobe
  <2>2. k \in Bytes /\ w * W + k >= rx_buf.addr
    BY <2>1 DEF RxNextWord
  <2>3. w * W = W * w
    BY <1>1
  <2> QED BY <1>1, <2>2, <2>3 DEF Bytes
<1>4. /\ size <= W * words /\ W * words <= size + W - 1
      /\ size % W = 0 => W * words = size
      /\ size % W # 0 => size = W * words - W + (size % W)
  BY RxBufferHolds
<1>5. left <= 1 => size % W = 0 \/ k < size % W
  BY DEF RxStrobe, RxStrobeLast
<1>6. size % W \in 0 .. W - 1
  BY <1>1, DivMod
<1> DEFINE r == size % W
<1> HIDE DEF W, first, words, left, size, w, r
<1>7. W * (first + words) = W * first + W * words
  BY <1>1
<1>8. W * w + k < W * first + size
  <2>1. CASE left >= 2
    <3>1. W * w + W <= W * (first + words - 1)
      BY <1>1, <2>1, Multiples
    <3>2. W * (first + words - 1) = W * (first + words) - W
      BY <1>1
    <3> QED BY <1>1, <1>3, <1>4, <1>7, <3>1, <3>2
  <2>2. CASE left < 2
    <3>0. left <= 1 /\ w = first + words - 1
      BY <1>1, <2>2
    <3>1. W * w = W * (first + words) - W
      BY <1>1, <3>0
    <3>2. r = 0 \/ k < r
      BY <1>5, <3>0 DEF r
    <3>3. /\ r = 0 => W * words = size
          /\ r # 0 => size = W * words - W + r
      BY <1>4 DEF r
    <3>4. r \in 0 .. W - 1
      BY <1>6 DEF r
    <3> QED BY <1>1, <1>3, <1>7, <3>1, <3>2, <3>3, <3>4
  <2> QED BY <1>1, <2>1, <2>2
<1>9. W * w + k >= rx_buf.addr /\ W * w + k < rx_buf.addr + rx_buf.size
  BY <1>1, <1>2, <1>3, <1>8
<1> QED BY <1>9 DEF InBuffer, W, w

-----------------------------------------------------------------------------
(* The steps of the engine.                                                *)

\* What the strobes and the place of the next word rest on.
RxPlace0 == <<rx_buf, rx_pkt_addr, rx_word_left, rx_wstrb>>

\* Steps that move no word leave the place of the next one alone.
LEMMA RxPlaceKept ==
    ASSUME UNCHANGED RxPlace0
    PROVE  RxNextWord' = RxNextWord
  BY DEF RxPlace0, RxNextWord, RxBufferWords, RxBufferFirst, RxBurstFirst, RxOffset

LEMMA RxPlaceInit ==
    ASSUME RxInit PROVE RxPlaceInv
  BY DEF RxInit, RxPlaceInv, RxStaysInBuffer

LEMMA RxPlaceIdle ==
    ASSUME RxInv, RxPlaceInv, RxIdle
    PROVE  RxPlaceInv'
<1>1. /\ ~m_axi_wr_cyc /\ ~m_axi_wvalid
      /\ m_axi_wvalid' = m_axi_wvalid /\ memory' = memory
      /\ rx_axis_start' = FALSE
  BY DEF RxIdle, rxBus, RxInv, RxBurstIsLegal, RxBusAtRest
<1> QED
  BY <1>1 DEF RxPlaceInv, RxStaysInBuffer

LEMMA RxPlaceLoad ==
    ASSUME RxInv, RxPlaceInv, RxLoad
    PROVE  RxPlaceInv'
<1>1. ~m_axi_wvalid' /\ rx_axis_start' = TRUE
  BY DEF RxLoad, RxInv, RxBusAtRest
<1>2. PICK b \in RxBuffers :
        /\ rx_buf' = b /\ rx_pkt_addr' = b.addr
        /\ rx_wstrb' = {k \in Bytes : k >= b.addr % WordBytes}
        /\ rx_word_left' =
              (b.size + (b.addr % WordBytes) + WordBytes - 1) \div WordBytes
  BY DEF RxLoad
<1>3. /\ rx_buf' \in RxBuffers /\ RxOffset' = b.addr % WordBytes
      /\ RxBurstFirst' = RxBufferFirst' /\ rx_word_left' = RxBufferWords'
  BY <1>2 DEF RxOffset, RxBurstFirst, RxBufferFirst, RxBufferWords
<1>4. RxNextWord'
  <2>1. /\ WordBytes \in Nat \ {0} /\ b.addr \in Nat
        /\ b.addr % WordBytes \in 0 .. WordBytes - 1
        /\ b.addr \div WordBytes \in Nat
        /\ b.addr = WordBytes * (b.addr \div WordBytes) + (b.addr % WordBytes)
    <3>1. WordBytes \in Nat \ {0} /\ b.addr \in Nat
      BY RxConstants, RxAssumption
    <3> QED BY <3>1, DivMod
  <2>2. RxBufferWords' \in Nat
    <3>1. RxBufferWords' \in 1 .. SizeRange - 1
      BY <1>2, <1>3, RxLoadWords
    <3> QED BY <3>1, RxConstants
  <2>3. /\ rx_word_left' <= RxBufferWords'
        /\ RxBurstFirst' = RxBufferFirst' + RxBufferWords' - rx_word_left'
    <3>1. RxBufferFirst' \in Nat
      BY <1>2, <2>1 DEF RxBufferFirst
    <3> DEFINE n == RxBufferWords'
               f == RxBufferFirst'
    <3>2. n \in Nat /\ f \in Nat /\ rx_word_left' = n /\ RxBurstFirst' = f
      BY <1>3, <2>2, <3>1
    <3> HIDE DEF n, f
    <3>3. rx_word_left' <= n /\ RxBurstFirst' = f + n - rx_word_left'
      BY <3>2
    <3> QED BY <3>3 DEF n, f
  <2>4. ASSUME NEW k \in rx_wstrb'
        PROVE  k \in Bytes /\ RxBurstFirst' * WordBytes + k >= rx_buf'.addr
    <3>1. k \in Bytes /\ k >= b.addr % WordBytes
      BY <1>2, <2>4
    <3>2. k \in Int
      BY <2>1, <3>1 DEF Bytes
    <3>3. RxBurstFirst' = b.addr \div WordBytes /\ rx_buf'.addr = b.addr
      BY <1>2 DEF RxBurstFirst
    <3> DEFINE q == b.addr \div WordBytes
               r == b.addr % WordBytes
    <3>4. /\ WordBytes \in Nat /\ q \in Nat /\ r \in 0 .. WordBytes - 1
          /\ b.addr = WordBytes * q + r /\ k >= r
      BY <2>1, <3>1
    <3> HIDE DEF q, r
    <3>5. q * WordBytes + k >= b.addr
      BY <3>2, <3>4
    <3> QED BY <3>1, <3>3, <3>5 DEF q
  <2> QED BY <2>3, <2>4 DEF RxNextWord
<1>5. DOMAIN memory' = 0 .. MemoryBytes - 1 /\ RxStaysInBuffer'
  <2>1. memory' = [a \in DOMAIN memory |-> Untouched]
    BY DEF RxLoad
  <2> QED BY <2>1 DEF RxPlaceInv, RxStaysInBuffer
<1> QED
  BY <1>1, <1>3, <1>4, <1>5 DEF RxPlaceInv

\* A beat that leaves the engine running moves it to the next word, all of whose
\* bytes are past the start of the buffer.
LEMMA RxBeatNextWord ==
    ASSUME RxInv, RxPlaceInv, RxRun, RxBeat, ~rx_m_axi_stop0'
    PROVE  /\ ~rx_m_axi_stop0 /\ RxNextWord' /\ rx_word_left >= 2
           /\ RxBurstFirst' = RxBurstFirst + 1
           /\ rx_word_left' = rx_word_left - 1
<1>1. /\ ~RxLastWord /\ ~(rx_word_left <= 1)
      /\ rx_wstrb' = Bytes /\ ~rx_m_axi_stop0
      /\ rx_pkt_addr' = (RxBurstFirst + 1) * WordBytes
      /\ rx_word_left' = (rx_word_left - 1) % SizeRange
  BY DEF RxBeat
<1>2. /\ rx_start = TRUE /\ rx_axis_start = TRUE
      /\ rx_buf' = rx_buf /\ rx_pkt_addr \in Nat
      /\ rx_word_left \in 0 .. SizeRange - 1
  BY RxRunStream DEF RxInv, RxTypeOK
<1>3. rx_buf \in RxBuffers /\ RxNextWord
  BY <1>1, <1>2 DEF RxPlaceInv
<1> DEFINE W == WordBytes
           first == RxBufferFirst
           words == RxBufferWords
           left == rx_word_left
           w == RxBurstFirst
<1>4. /\ W \in Nat \ {0} /\ RxOffset \in 0 .. W - 1
      /\ first \in Nat /\ rx_buf.addr = W * first + RxOffset
  BY <1>3, RxBufferNumbers
<1>5. left \in Nat /\ left >= 2 /\ rx_word_left' = left - 1
  <2> DEFINE size == SizeRange
             n == left - 1
  <2>1. size \in Nat \ {0} /\ left \in 0 .. size - 1 /\ ~(left <= 1)
    BY <1>1, <1>2, RxConstants
  <2>2. rx_word_left' = n % size
    BY <1>1
  <2> HIDE DEF size
  <2>3. n \in Nat /\ n \in 0 .. size - 1 /\ n = size * 0 + n /\ 0 \in Nat
    BY <2>1
  <2> HIDE DEF n
  <2>4. n % size = n
    BY <2>1, <2>3, QuotientUnique
  <2>5. rx_word_left' = n
    BY <2>2, <2>4
  <2> QED BY <2>1, <2>5 DEF n
<1>6. words \in Nat /\ left <= words /\ w = first + words - left
  <2>1. words \in Nat
    <3>1. words \in 1 .. SizeRange - 1
      BY <1>3, RxBufferHolds
    <3> QED BY <3>1, RxConstants
  <2> QED BY <1>3, <2>1 DEF RxNextWord
<1>7. /\ RxBufferFirst' = first /\ RxBufferWords' = words
      /\ rx_buf'.addr = rx_buf.addr
  BY <1>2 DEF RxBufferFirst, RxBufferWords, RxOffset
<1>8. RxBurstFirst' = w + 1
  <2> DEFINE v == w + 1
  <2>1. v \in Nat /\ v >= first + 1
    BY <1>4, <1>5, <1>6
  <2>2. RxBurstFirst' = (v * W) \div W
    BY <1>1 DEF RxBurstFirst
  <2> HIDE DEF v, W
  <2>3. (v * W) \div W = v
    BY <1>4, <2>1
  <2> QED BY <2>2, <2>3 DEF v
<1>9. ASSUME NEW k \in Bytes PROVE (w + 1) * W + k >= rx_buf.addr
  <2>1. k \in 0 .. W - 1
    BY DEF Bytes
  <2> HIDE DEF W, first, words, left, w
  <2>2. w >= first /\ w \in Int
    BY <1>4, <1>5, <1>6
  <2>3. W * first + W <= W * (w + 1)
    BY <1>4, <2>2, Multiples
  <2>4. W * (w + 1) = (w + 1) * W
    BY <1>4, <2>2
  <2>5. W * (w + 1) \in Int /\ W * first \in Int
    BY <1>4, <2>2
  <2> QED BY <1>4, <2>1, <2>3, <2>4, <2>5
<1> HIDE DEF W, first, words, left, w
<1>10. /\ rx_word_left' <= words /\ w + 1 = first + words - rx_word_left'
  BY <1>4, <1>5, <1>6
<1>11. RxNextWord'
  BY <1>1, <1>7, <1>8, <1>9, <1>10
     DEF RxNextWord, W, first, words, left, w
<1> QED BY <1>1, <1>5, <1>8, <1>11 DEF left, w

\* A beat without a strobe writes nothing, any other one in the buffer only.
LEMMA RxBeatWrites ==
    ASSUME RxInv, RxPlaceInv, RxRun, RxBeat
    PROVE  /\ DOMAIN memory' = 0 .. MemoryBytes - 1
           /\ RxStaysInBuffer'
<1>1. /\ DOMAIN memory = 0 .. MemoryBytes - 1
      /\ memory' = [a \in DOMAIN memory |->
                      IF a \div WordBytes = m_axi_awaddr + m_axi_wcnt
                         /\ a % WordBytes \in RxStrobe
                          THEN RxWriteData[a % WordBytes] ELSE memory[a]]
  BY DEF RxBeat, RxPlaceInv
<1>2. /\ rx_start = TRUE /\ rx_axis_start = TRUE /\ rx_buf' = rx_buf
      /\ rx_buf \in RxBuffers /\ m_axi_wvalid = TRUE
  BY RxRunStream DEF RxPlaceInv, RxBeat, RxInv, RxTypeOK
<1>3. ASSUME NEW a \in DOMAIN memory, memory'[a] # Untouched
      PROVE  InBuffer(a)
  <2>1. CASE memory'[a] = memory[a]
    BY <1>2, <1>3, <2>1 DEF RxPlaceInv, RxStaysInBuffer
  <2>2. CASE /\ a \div WordBytes = m_axi_awaddr + m_axi_wcnt
             /\ a % WordBytes \in RxStrobe
    <3>1. ~rx_m_axi_stop0
      BY <1>2, <2>2 DEF RxPlaceInv, RxBurstInBuffer, RxStrobe
    <3>2. /\ RxNextWord /\ rx_word_left >= 1 /\ RxTypeOK
          /\ m_axi_awaddr + m_axi_wcnt = RxBurstFirst
      BY <1>2, <3>1 DEF RxPlaceInv, RxBurstInBuffer, RxInv, RxRoomLeft
    <3>3. InBuffer(WordBytes * RxBurstFirst + (a % WordBytes))
      BY <1>2, <2>2, <3>2, RxStrobeInBuffer
    <3>4. a \in Nat
      BY <1>1, RxAssumption
    <3>5. a = WordBytes * RxBurstFirst + (a % WordBytes)
      <4>1. WordBytes \in Nat \ {0}
        BY RxConstants
      <4>2. a = WordBytes * (a \div WordBytes) + (a % WordBytes)
        BY <3>4, <4>1, ByteOfWord
      <4> QED BY <2>2, <3>2, <4>2
    <3> QED BY <3>3, <3>5
  <2> QED BY <1>1, <2>1, <2>2
<1> QED
  BY <1>1, <1>2, <1>3 DEF RxStaysInBuffer, InBuffer

\* The last word there is.
LEMMA RxLastWordIsLast ==
    ASSUME RxTypeOK, RxLastWord
    PROVE  RxWords <= 1
<1>1. rx_burst_inp \in Fifo /\ rx_burst_out \in Fifo /\ 0 \in Fifo
  BY FifoTypes DEF RxTypeOK
<1>2. CASE RxOneMore
  <2>1. rx_burst_inp = rx_burst_out
    BY <1>2 DEF RxLastWord
  <2>2. RxData = 0
    BY <1>1, <2>1, FifoTypes DEF RxData
  <2> QED BY <1>2, <2>2 DEF RxWords
<1>3. CASE ~RxOneMore
  <2>1. rx_burst_inp = NextPtr(rx_burst_out)
    BY <1>3 DEF RxLastWord
  <2>2. RxData = 1
    BY <1>1, <2>1, RxConstants DEF RxData, DataLen, NextPtr, Fifo
  <2> QED BY <1>3, <2>2 DEF RxWords
<1> QED BY <1>2, <1>3

LEMMA RxPlaceBeat ==
    ASSUME RxInv, RxPlaceInv, RxRun, RxBeat
    PROVE  RxPlaceInv'
<1>1. /\ rx_axis_start = TRUE /\ rx_start = TRUE /\ rx_buf' = rx_buf
      /\ rx_axis_start' = TRUE /\ m_axi_wvalid = TRUE
  BY RxRunStream DEF RxBeat, RxInv, RxTypeOK
<1>2. ~rx_m_axi_stop0' => RxNextWord'
  BY RxBeatNextWord
<1>3. m_axi_wvalid' => RxBurstInBuffer'
  <2> SUFFICES ASSUME m_axi_wvalid' PROVE RxBurstInBuffer'
    OBVIOUS
  <2>1. /\ m_axi_wcnt # m_axi_awlen /\ m_axi_wcnt' = m_axi_wcnt + 1
        /\ m_axi_awlen' = m_axi_awlen /\ m_axi_awaddr' = m_axi_awaddr
    BY DEF RxBeat
  <2>2. /\ ~rx_m_axi_stop0
        /\ m_axi_awaddr + m_axi_wcnt = RxBurstFirst
        /\ m_axi_awlen - m_axi_wcnt <= rx_word_left
    BY <1>1, <2>1 DEF RxPlaceInv, RxBurstInBuffer
  <2>3. /\ m_axi_awlen \in Nat /\ m_axi_wcnt \in Nat /\ m_axi_awaddr \in Nat
        /\ m_axi_wcnt <= m_axi_awlen /\ rx_word_left \in Nat
    <3>1. /\ m_axi_awlen \in Fifo /\ m_axi_wcnt \in Fifo /\ m_axi_awaddr \in Nat
          /\ m_axi_wcnt <= m_axi_awlen /\ rx_word_left \in 0 .. SizeRange - 1
      BY <1>1 DEF RxInv, RxTypeOK, RxBusAtRest
    <3> QED BY <3>1, RxConstants DEF Fifo
  <2>4. CASE rx_m_axi_stop0'
    <3>1. (RxLastWord \/ rx_word_left <= 1) /\ rx_wstrb' = {}
      BY <2>2, <2>4 DEF RxBeat
    <3>2. ~RxLastWord
      <4>1. RxWords > m_axi_awlen - m_axi_wcnt
        BY <1>1 DEF RxInv, RxBurstIsLegal, RxWords
      <4>2. RxData \in Nat
        BY RxDataType, RxConstants DEF RxInv, RxTypeOK
      <4>3. RxWords \in Nat
        BY <4>2 DEF RxWords
      <4>4. RxWords > 1
        BY <2>1, <2>3, <4>1, <4>3
      <4> QED BY <4>3, <4>4, RxLastWordIsLast DEF RxInv
    <3>3. m_axi_wcnt' = m_axi_awlen'
      BY <2>1, <2>2, <2>3, <3>1, <3>2
    <3> QED BY <2>4, <3>1, <3>3 DEF RxBurstInBuffer
  <2>5. CASE ~rx_m_axi_stop0'
    <3>1. /\ RxBurstFirst' = RxBurstFirst + 1
          /\ rx_word_left' = rx_word_left - 1
      BY <2>5, RxBeatNextWord
    <3>2. /\ m_axi_awaddr' + m_axi_wcnt' = RxBurstFirst'
          /\ m_axi_awlen' - m_axi_wcnt' <= rx_word_left'
      BY <2>1, <2>2, <2>3, <3>1
    <3> QED BY <2>5, <3>2 DEF RxBurstInBuffer
  <2> QED BY <2>4, <2>5
<1>4. rx_buf' \in RxBuffers
  BY <1>1 DEF RxPlaceInv
<1> QED
  BY <1>1, <1>2, <1>3, <1>4, RxBeatWrites DEF RxPlaceInv

LEMMA RxPlaceStartBurst ==
    ASSUME RxInv, RxPlaceInv, RxRun, RxStartBurst
    PROVE  RxPlaceInv'
<1>1. /\ rx_axis_start = TRUE /\ rx_start = TRUE /\ rx_buf' = rx_buf
      /\ rx_axis_start' = TRUE /\ rx_start' = TRUE
      /\ rx_m_axi_stop = FALSE
  BY RxRunStream DEF RxStartBurst, RxInv, RxTypeOK
<1>2. /\ m_axi_wvalid' = TRUE /\ m_axi_wcnt' = 0
      /\ m_axi_awaddr' = RxBurstFirst /\ m_axi_awlen' = RxBurstLen
      /\ rx_m_axi_stop0' = rx_m_axi_stop0 /\ rx_m_axi_stop' = rx_m_axi_stop
      /\ rx_pkt_addr' = rx_pkt_addr /\ rx_word_left' = rx_word_left
      /\ rx_wstrb' = rx_wstrb /\ memory' = memory
  BY DEF RxStartBurst, rxWrite
<1>3. rx_word_left >= 1 /\ ~rx_m_axi_stop0 /\ RxNextWord
  BY <1>1 DEF RxInv, RxRoomLeft, RxStartBurst, RxPlaceInv
<1>4. RxNextWord'
  BY <1>1, <1>2, <1>3, RxPlaceKept DEF RxPlace0
<1>5. RxBurstInBuffer'
  <2>1. RxBurstFirst' = RxBurstFirst /\ RxBurstFirst \in Nat
    <3>1. rx_pkt_addr \in Nat /\ WordBytes \in Nat \ {0}
      BY RxConstants DEF RxInv, RxTypeOK
    <3> QED BY <1>2, <3>1, DivMod DEF RxBurstFirst
  <2>2. RxData \in Nat /\ rx_word_left \in Nat \ {0}
    <3>1. rx_word_left \in 0 .. SizeRange - 1 /\ RxData \in 0 .. BurstSize - 1
      BY RxDataType DEF RxInv, RxTypeOK
    <3>2. SizeRange \in Nat /\ BurstSize \in Nat
      BY RxConstants
    <3> QED BY <1>3, <3>1, <3>2
  <2>3. /\ RxBurstWanted \in Fifo /\ RxBurstWanted <= rx_word_left
    <3>1. RxBurstWanted =
            (IF rx_word_left >= RxData THEN RxData ELSE rx_word_left)
               - (IF RxOneMore THEN 0 ELSE 1)
      BY DEF RxBurstWanted
    <3>2. RxData \in 0 .. BurstSize - 1 /\ BurstSize \in Nat \ {0, 1}
      BY RxDataType DEF RxInv, RxTypeOK
    <3>3. CASE RxOneMore
      <4>1. RxBurstWanted =
              (IF rx_word_left >= RxData THEN RxData ELSE rx_word_left) - 0
        BY <3>1, <3>3
      <4> QED BY <2>2, <3>2, <4>1 DEF Fifo
    <3>4. CASE ~RxOneMore
      <4>1. RxBurstWanted =
              (IF rx_word_left >= RxData THEN RxData ELSE rx_word_left) - 1
        BY <3>1, <3>4
      <4>2. RxData # 0
        BY <3>4 DEF RxStartBurst
      <4> QED BY <2>2, <3>2, <4>1, <4>2 DEF Fifo
    <3> QED BY <3>3, <3>4
  <2>4. RxBurstLen \in 0 .. RxBurstWanted
    BY <2>1, <2>3, BurstInPage DEF RxBurstLen
  <2>5. RxBurstWanted \in Nat
    BY <2>3, RxConstants DEF Fifo
  <2>6. /\ m_axi_awaddr' + m_axi_wcnt' = RxBurstFirst'
        /\ m_axi_awlen' - m_axi_wcnt' <= rx_word_left'
    BY <1>2, <2>1, <2>2, <2>3, <2>4, <2>5
  <2> QED BY <1>2, <1>3, <2>6 DEF RxBurstInBuffer
<1> QED
  BY <1>1, <1>2, <1>4, <1>5 DEF RxPlaceInv, RxStaysInBuffer, InBuffer

\* A step of the bus that takes no data word and begins no burst.
LEMMA RxPlaceOther ==
    ASSUME RxInv, RxPlaceInv, RxRun,
           UNCHANGED <<rx_m_axi_stop0, rx_pkt_addr, rx_word_left, rx_wstrb,
                       m_axi_wvalid, m_axi_awaddr, m_axi_awlen, m_axi_wcnt,
                       memory>>
    PROVE  RxPlaceInv'
<1>1. /\ rx_axis_start = TRUE /\ rx_start = TRUE /\ rx_buf' = rx_buf
      /\ rx_axis_start' = TRUE
  BY RxRunStream
<1>2. RxNextWord' = RxNextWord
  BY <1>1, RxPlaceKept DEF RxPlace0
<1>3. RxBurstInBuffer' = RxBurstInBuffer
  BY DEF RxBurstInBuffer, RxBurstFirst
<1> QED
  BY <1>1, <1>2, <1>3 DEF RxPlaceInv, RxStaysInBuffer, InBuffer

LEMMA RxPlaceRun ==
    ASSUME RxInv, RxPlaceInv, RxRun
    PROVE  RxPlaceInv'
<1>1. CASE RxStartBurst
  BY <1>1, RxPlaceStartBurst
<1>2. CASE RxBeat
  BY <1>2, RxPlaceBeat
<1>3. CASE \/ \E error \in BOOLEAN : RxAcknowledge(error)
           \/ RxBusWait
           \/ UNCHANGED <<rxDescriptor, rxFifoOut, rxWrite, m_axi_wr_cyc,
                          m_axi_wvalid, m_axi_awaddr, m_axi_awlen, m_axi_wcnt,
                          m_axi_wr_err, memory>>
  <2>1. UNCHANGED <<rx_m_axi_stop0, rx_pkt_addr, rx_word_left, rx_wstrb,
                    m_axi_wvalid, m_axi_awaddr, m_axi_awlen, m_axi_wcnt, memory>>
    BY <1>3 DEF RxAcknowledge, RxBusWait, rxWrite, rxBus
  <2> QED BY <2>1, RxPlaceOther
<1> QED
  BY <1>1, <1>2, <1>3 DEF RxRun, RxBusStep

LEMMA RxPlaceStutter ==
    ASSUME RxPlaceInv, UNCHANGED rxVars
    PROVE  RxPlaceInv'
<1>1. UNCHANGED <<RxPlace0, rx_start, rx_axis_start, rx_m_axi_stop0,
                  m_axi_wvalid, m_axi_awaddr, m_axi_awlen, m_axi_wcnt, memory>>
  BY DEF rxVars, rxMac, rxCtl, rxPacket, rxWrite, rxBus, RxPlace0
<1>2. RxNextWord' = RxNextWord
  BY <1>1, RxPlaceKept
<1> QED
  BY <1>1, <1>2 DEF RxPlaceInv, RxPlace0, RxBurstInBuffer, RxBurstFirst,
     RxStaysInBuffer, InBuffer

\* The receive engine never writes a byte outside the buffer of its descriptor,
\* whatever the alignment of the buffer and the length of the frame: rx_wstrb
\* leaves out what is before it, rx_wstrb_last what is after it in its last
\* word, and of the word a burst may have too many nothing is written.  Where
\* the engine is in the buffer and in the burst is the strengthening.
THEOREM RxWritesStayInBuffer == RxSpec => []RxStaysInBuffer
<1>1. RxInit => RxInv /\ RxPlaceInv
  BY RxInvInit, RxPlaceInit
<1>2. RxInv /\ RxPlaceInv /\ [RxNext]_rxVars => (RxInv /\ RxPlaceInv)'
  <2> SUFFICES ASSUME RxInv, RxPlaceInv, [RxNext]_rxVars
               PROVE  (RxInv /\ RxPlaceInv)'
    OBVIOUS
  <2>1. CASE RxIdle
    BY <2>1, RxInvIdle, RxPlaceIdle
  <2>2. CASE RxLoad
    BY <2>2, RxInvLoad, RxPlaceLoad
  <2>3. CASE RxRun
    BY <2>3, RxInvRun, RxPlaceRun
  <2>4. CASE UNCHANGED rxVars
    BY <2>4, RxInvStutter, RxPlaceStutter
  <2> QED BY <2>1, <2>2, <2>3, <2>4 DEF RxNext
<1>3. RxPlaceInv => RxStaysInBuffer
  BY DEF RxPlaceInv
<1> QED BY <1>1, <1>2, <1>3, PTL DEF RxSpec

-----------------------------------------------------------------------------
(* What is in the FIFO and in the buffer.                                  *)

\* The stream begins at byte RxLead of a word: where the buffer does if nothing
\* is shifted at the bus.  RxPut words are in the FIFO or were, RxGone words
\* have gone to memory.
RxLead == RxOffset - RxShift
RxPut == (RxLead + given + (IF rx_axis_stop THEN WordBytes - 1 ELSE 0)) \div WordBytes
RxGone == RxBufferWords - rx_word_left

\* The byte of the frame that is at byte k of word m of the stream; of memory,
\* counted from the first word of the buffer.
RxStreamByte(m, k) == WordBytes * m + k - RxLead + 1
RxMemoryByte(m, k) == WordBytes * m + k - RxOffset + 1

\* The stream is at a byte of a word, or has ended in a word of which
\* rx_axis_byte_offs + rx_axis_keep bytes count.
RxStreamPlace ==
    IF rx_axis_stop
        THEN /\ given = frame.size /\ rx_bad_frame = frame.bad
             /\ rx_axis_keep >= 1 /\ rx_axis_byte_offs + rx_axis_keep <= WordBytes
             /\ RxLead + given
                  = WordBytes * RxPut - WordBytes + rx_axis_byte_offs + rx_axis_keep
             /\ axisBytes > 1 => rx_axis_byte_offs = 0
        ELSE /\ given < frame.size
             /\ rx_axis_byte_offs = (RxLead + given) % WordBytes
             /\ axisBytes > 1 => rx_axis_byte_offs = 0

\* Until the bus side stops the FIFO holds what the MAC gave and memory has not.
RxFifoPlace ==
    /\ RxGone <= RxPut /\ RxPut - RxGone < BurstSize
    /\ rx_burst_inp = RxPut % BurstSize
    /\ rx_burst_out = RxGone % BurstSize

RxFifoHolds ==
    \A m \in RxGone .. RxPut : \A k \in Bytes :
       RxStreamByte(m, k) \in 1 .. given =>
          rx_burst_buf[m % BurstSize][k] = RxStreamByte(m, k)

\* What the shift has kept back of the last word.
RxTailHolds ==
    \A k \in Bytes :
       IF k < RxShift
           THEN RxMemoryByte(RxGone, k) \in 1 .. frame.size =>
                   rx_burst_tail[k] = RxMemoryByte(RxGone, k)
           ELSE rx_burst_tail[k] = 0

RxGoesOn ==
    /\ RxFifoPlace /\ RxFifoHolds /\ RxTailHolds
    /\ rx_wstrb = IF RxGone = 0 THEN {k \in Bytes : k >= RxOffset} ELSE Bytes
    /\ rx_pkt_addr = IF RxGone = 0 THEN rx_buf.addr
                     ELSE WordBytes * (RxBufferFirst + RxGone)

\* Memory holds what has gone there, all that fits when the bus side has stopped.
RxStored ==
    \A i \in 1 .. Smaller(frame.size, rx_buf.size) :
       rx_m_axi_stop0 \/ rx_buf.addr + i - 1 < WordBytes * (RxBufferFirst + RxGone)
          => memory[rx_buf.addr + i - 1] = i

\* A frame that fits ends where the descriptor will say.
RxLength ==
    /\ rx_axis_stop /\ ~m_axi_wvalid
    /\ rx_pkt_addr = rx_buf.addr + frame.size
    /\ rx_m_axi_stop => rx_done = frame.size /\ rx_status.bad = frame.bad

RxDataInv ==
    /\ DOMAIN rx_burst_buf = Fifo
    /\ rx_start \/ rx_axis_start => frame.size \in FrameSizes
    /\ rx_start /\ ~rx_axis_start =>
          /\ given = 0 /\ rx_burst_inp = 0 /\ rx_burst_out = 0
          /\ ~rx_axis_stop /\ ~rx_m_axi_stop
    /\ rx_axis_start => RxStreamPlace /\ RxStored
    /\ rx_axis_start /\ rx_m_axi_stop => rx_m_axi_stop0
    /\ rx_start /\ rx_axis_start /\ ~rx_m_axi_stop0 => RxGoesOn
    /\ rx_axis_start /\ rx_m_axi_stop0 /\ frame.size <= rx_buf.size => RxLength

\* What the numbers of a frame in progress are, and what no edge changes.
LEMMA RxRunNumbers ==
    ASSUME RxInv, RxPlaceInv, RxDataInv, RxRun
    PROVE  /\ WordBytes \in Nat \ {0} /\ BurstSize \in Nat \ {0, 1}
           /\ RxShift \in 0 .. WordBytes - 1 /\ RxLead \in 0 .. WordBytes - 1
           /\ RxOffset = RxLead + RxShift
           /\ axisBytes \in Nat \ {0}
           /\ axisBytes = 1 \/ (axisBytes = WordBytes /\ RxLead = 0)
           /\ RxShift # 0 => axisBytes > 1
           /\ RxBufferFirst \in Nat /\ rx_buf.addr \in Nat /\ rx_buf.size \in Nat \ {0}
           /\ rx_buf.addr = WordBytes * RxBufferFirst + RxOffset
           /\ frame.size \in Nat /\ frame.size > WordBytes
           /\ given \in 0 .. frame.size
           /\ RxBufferWords \in Nat \ {0} /\ rx_word_left \in Nat
           /\ rx_burst_inp \in Fifo /\ rx_burst_out \in Fifo
<1>1. /\ rx_buf \in RxBuffers /\ frame.size \in FrameSizes
      /\ axisBytes \in AxisWidths /\ given \in 0 .. frame.size
      /\ rx_burst_inp \in Fifo /\ rx_burst_out \in Fifo
      /\ rx_word_left \in 0 .. SizeRange - 1
  BY DEF RxRun, RxPlaceInv, RxDataInv, RxInv, RxTypeOK
<1>2. /\ RxBufferFirst \in Nat /\ rx_buf.addr \in Nat /\ rx_buf.size \in Nat \ {0}
      /\ rx_buf.addr = WordBytes * RxBufferFirst + RxOffset
      /\ RxOffset \in 0 .. WordBytes - 1 /\ WordBytes \in Nat \ {0}
  BY <1>1, RxBufferNumbers
<1>3. /\ BurstSize \in Nat \ {0, 1} /\ SizeRange \in Nat
  BY RxConstants
<1>4. axisBytes = 1 \/ axisBytes = WordBytes
  BY <1>1, DmaAssumption
<1>5. frame.size \in Nat /\ frame.size > WordBytes
  BY <1>1, RxAssumption
<1>6. RxBufferWords \in Nat \ {0} /\ rx_word_left \in Nat
  <2>1. RxBufferWords \in 1 .. SizeRange - 1
    BY <1>1, RxBufferHolds
  <2> QED BY <1>1, <1>3, <2>1
<1>7. /\ RxShift = IF axisBytes > 1 THEN RxOffset ELSE 0
      /\ RxLead = RxOffset - RxShift
  BY DEF RxShift, RxLead
<1> DEFINE off == RxOffset
           w == axisBytes
<1>8. /\ RxShift \in 0 .. WordBytes - 1 /\ RxLead \in 0 .. WordBytes - 1
      /\ RxOffset = RxLead + RxShift
      /\ axisBytes \in Nat \ {0}
      /\ axisBytes = 1 \/ (axisBytes = WordBytes /\ RxLead = 0)
      /\ RxShift # 0 => axisBytes > 1
  <2>1. off \in 0 .. WordBytes - 1 /\ WordBytes \in Nat \ {0}
        /\ (w = 1 \/ w = WordBytes)
    BY <1>2, <1>4
  <2> HIDE DEF off, w
  <2>2. CASE w > 1
    <3>1. RxShift = off /\ RxLead = off - off /\ w = WordBytes
      BY <1>7, <2>1, <2>2 DEF off, w
    <3>2. RxLead = 0 /\ off = RxLead + RxShift
      BY <2>1, <3>1
    <3> QED BY <2>1, <2>2, <3>1, <3>2 DEF off, w
  <2>3. CASE ~(w > 1)
    <3>1. RxShift = 0 /\ RxLead = off - 0
      BY <1>7, <2>3 DEF off, w
    <3>2. w = 1 /\ RxLead = off
      BY <2>1, <2>3, <3>1
    <3>3. off = RxLead + RxShift
      BY <2>1, <3>1, <3>2
    <3> QED BY <2>1, <3>1, <3>2, <3>3 DEF off, w
  <2> QED BY <2>2, <2>3
<1> QED BY <1>1, <1>2, <1>3, <1>5, <1>6, <1>8

LEMMA RxRunFrame ==
    ASSUME RxInv, RxPlaceInv, RxDataInv, RxRun
    PROVE  /\ rx_start = TRUE /\ rx_axis_start = TRUE /\ rx_axis_start' = TRUE
           /\ rx_buf' = rx_buf /\ axisBytes' = axisBytes /\ frame' = frame
           /\ rx_buf \in RxBuffers /\ frame.size \in FrameSizes
           /\ RxOffset' = RxOffset /\ RxShift' = RxShift /\ RxLead' = RxLead
           /\ RxBufferFirst' = RxBufferFirst /\ RxBufferWords' = RxBufferWords
           /\ DOMAIN rx_burst_buf = Fifo
           /\ RxStreamPlace /\ RxStored
           /\ ~rx_m_axi_stop0 => RxGoesOn /\ RxNextWord /\ ~rx_m_axi_stop
           /\ rx_axis_stop \in BOOLEAN /\ rx_m_axi_stop0 \in BOOLEAN
           /\ rx_m_axi_stop \in BOOLEAN
<1>1. /\ rx_start = TRUE /\ rx_axis_start = TRUE /\ rx_axis_start' = TRUE
      /\ rx_buf' = rx_buf /\ axisBytes' = axisBytes /\ frame' = frame
  BY RxRunStream
<1>2. RxOffset' = RxOffset /\ RxBufferFirst' = RxBufferFirst
  BY <1>1 DEF RxOffset, RxBufferFirst
<1>3. RxShift' = RxShift /\ RxBufferWords' = RxBufferWords
  BY <1>1, <1>2 DEF RxShift, RxBufferWords
<1>4. RxLead' = RxLead
  BY <1>2, <1>3 DEF RxLead
<1>5. /\ rx_buf \in RxBuffers /\ frame.size \in FrameSizes
      /\ DOMAIN rx_burst_buf = Fifo
      /\ RxStreamPlace /\ RxStored
      /\ ~rx_m_axi_stop0 => RxGoesOn /\ RxNextWord /\ ~rx_m_axi_stop
      /\ rx_axis_stop \in BOOLEAN /\ rx_m_axi_stop0 \in BOOLEAN
      /\ rx_m_axi_stop \in BOOLEAN
  BY <1>1 DEF RxDataInv, RxPlaceInv, RxInv, RxTypeOK
<1> QED BY <1>1, <1>2, <1>3, <1>4, <1>5

\* The words of the stream, and where it is in the last one.
LEMMA RxPutNumbers ==
    ASSUME RxInv, RxPlaceInv, RxDataInv, RxRun
    PROVE  /\ RxPut \in Nat
           /\ ~rx_axis_stop =>
                /\ given < frame.size
                /\ rx_axis_byte_offs \in 0 .. WordBytes - 1
                /\ RxLead + given = WordBytes * RxPut + rx_axis_byte_offs
           /\ rx_axis_stop =>
                /\ given = frame.size /\ rx_axis_byte_offs \in Nat
                /\ rx_axis_keep \in 1 .. WordBytes
                /\ rx_axis_byte_offs + rx_axis_keep <= WordBytes
                /\ RxLead + given = WordBytes * RxPut - WordBytes
                                      + rx_axis_byte_offs + rx_axis_keep
                /\ RxPut >= 2
           /\ axisBytes > 1 => rx_axis_byte_offs = 0
<1> DEFINE W == WordBytes
           x == RxLead + given
           I == RxPut
           o == rx_axis_byte_offs
           keep == rx_axis_keep
<1>1. W \in Nat \ {0} /\ x \in Nat /\ RxLead \in Nat /\ frame.size > W
      /\ frame.size \in Nat /\ given \in Nat
  BY RxRunNumbers
<1>2. RxStreamPlace /\ o \in Nat /\ keep \in Nat
  BY RxRunFrame DEF RxInv, RxTypeOK
<1>3. CASE rx_axis_stop
  <2>1. /\ given = frame.size /\ keep >= 1 /\ o + keep <= W
        /\ x = W * I - W + o + keep
        /\ axisBytes > 1 => o = 0
    BY <1>2, <1>3 DEF RxStreamPlace
  <2>2. I = (x + (W - 1)) \div W
    BY <1>3 DEF RxPut
  <2> HIDE DEF W, I, o, keep
  <2>a. x + (W - 1) \in Nat /\ x > W
    BY <1>1, <2>1
  <2> HIDE DEF x
  <2>3. I \in Nat
    <3> DEFINE n == x + (W - 1)
    <3>1. n \in Nat /\ I = n \div W
      BY <2>a, <2>2
    <3> HIDE DEF n
    <3> QED BY <1>1, <3>1, DivMod
  <2>4. I >= 2
    <3> SUFFICES ASSUME I < 2 PROVE FALSE
      BY <2>3
    <3>1. I = 0 \/ I = 1
      BY <2>3
    <3>2. W * I <= W
      BY <1>1, <3>1
    <3>3. W * I \in Int
      BY <1>1, <2>3
    <3> QED BY <1>1, <1>2, <2>1, <2>a, <3>2, <3>3
  <2> QED BY <1>1, <1>2, <1>3, <2>1, <2>3, <2>4 DEF W, x, I, o, keep
<1>4. CASE ~rx_axis_stop
  <2>1. given < frame.size /\ o = x % W /\ (axisBytes > 1 => o = 0)
    BY <1>2, <1>4 DEF RxStreamPlace
  <2>2. I = x \div W
    <3>1. I = (x + 0) \div W
      BY <1>4 DEF RxPut
    <3>2. x + 0 = x
      BY <1>1
    <3> QED BY <3>1, <3>2
  <2> HIDE DEF x, W, I, o
  <2>3. I \in Nat /\ o \in 0 .. W - 1 /\ x = W * I + o
    BY <1>1, <2>1, <2>2, DivMod
  <2> QED BY <1>4, <2>1, <2>3 DEF W, x, I, o
<1> QED BY <1>3, <1>4

-----------------------------------------------------------------------------
(* The stream side of an edge.                                             *)

\* The stream side puts bytes into the word it is at, and may finish with it, or
\* does nothing.
RxPutsNothing ==
    /\ RxPut' = RxPut /\ given' = given
    /\ UNCHANGED <<rx_burst_inp, rx_burst_buf>>
RxPutsBytes ==
    /\ ~rx_axis_stop /\ (NextPtr(rx_burst_inp) # rx_burst_out \/ rx_m_axi_stop)
    /\ given <= given' /\ given' <= given + axisBytes
    /\ rx_burst_buf' = [rx_burst_buf EXCEPT ![rx_burst_inp] = RxPlace(@)]
    /\ \/ RxPut' = RxPut /\ rx_burst_inp' = rx_burst_inp
       \/ /\ RxPut' = RxPut + 1 /\ rx_burst_inp' = NextPtr(rx_burst_inp)
          /\ RxLead + given' <= WordBytes * RxPut'

LEMMA RxTakeGoesOn ==
    ASSUME RxInv, RxPlaceInv, RxDataInv, RxRun, RxTake,
           given + axisBytes < frame.size
    PROVE  RxStreamPlace' /\ RxPutsBytes
<1> DEFINE W == WordBytes
           x == RxLead + given
           I == RxPut
           o == rx_axis_byte_offs
           w == axisBytes
           x1 == RxLead + given'
<1>1. /\ ~rx_axis_stop /\ (NextPtr(rx_burst_inp) # rx_burst_out \/ rx_m_axi_stop)
      /\ rx_burst_buf' = [rx_burst_buf EXCEPT ![rx_burst_inp] = RxPlace(@)]
  BY DEF RxTake, RxReady
<1>2. /\ W \in Nat \ {0} /\ x \in Nat
      /\ w = 1 \/ (w = W /\ RxLead = 0)
      /\ I \in Nat /\ o \in 0 .. W - 1 /\ x = W * I + o
      /\ given \in Nat /\ RxLead \in Nat /\ frame.size \in Nat /\ w \in Nat \ {0}
  BY <1>1, RxRunNumbers, RxPutNumbers
<1>3. w > 1 => o = 0
  BY RxPutNumbers
<1>4. ~(given + w >= frame.size)
  BY <1>2
<1>5. /\ given' = given + w /\ rx_axis_stop' = FALSE
      /\ o >= W - w => rx_burst_inp' = NextPtr(rx_burst_inp) /\ rx_axis_byte_offs' = 0
      /\ ~(o >= W - w) => /\ rx_burst_inp' = rx_burst_inp
                          /\ rx_axis_byte_offs' = o + w
  <2> DEFINE last == given + w >= frame.size
             full == o >= W - w
  <2>0. /\ given' = IF last THEN frame.size ELSE given + w
        /\ rx_burst_inp' = IF last \/ full THEN NextPtr(rx_burst_inp)
                              ELSE rx_burst_inp
        /\ rx_axis_byte_offs' =
                CASE last -> o [] ~last /\ full -> 0 [] OTHER -> o + w
        /\ rx_axis_stop' = last
    BY DEF RxTake
  <2>1. ~last
    BY <1>4
  <2> HIDE DEF last
  <2> QED BY <2>0, <2>1
<1>6. x1 = x + w /\ RxLead' = RxLead /\ frame' = frame /\ axisBytes' = w
  BY <1>2, <1>5, RxRunFrame
<1>7. RxPut' = x1 \div W
  <2>1. RxPut' = (x1 + 0) \div W
    BY <1>5, <1>6 DEF RxPut
  <2>2. x1 + 0 = x1
    BY <1>2, <1>6
  <2> QED BY <2>1, <2>2
<1>8. given' < frame'.size
  BY <1>2, <1>4, <1>5, <1>6
<1>9. given <= given' /\ given' <= given + axisBytes
  BY <1>2, <1>5
<1>10. CASE o >= W - w
  <2> HIDE DEF W, x, I, o, w, x1
  <2>1. o = W - w
    BY <1>2, <1>3, <1>10
  <2>2. W * (I + 1) = W * I + W /\ W * I \in Nat
    BY <1>2
  <2>3. x1 = W * (I + 1) + 0 /\ x1 \in Nat /\ I + 1 \in Nat /\ 0 \in 0 .. W - 1
    BY <1>2, <1>6, <2>1, <2>2
  <2>4. x1 % W = 0 /\ x1 \div W = I + 1
    BY <1>2, <2>3, QuotientUnique
  <2>5. RxPut' = I + 1 /\ x1 <= W * RxPut'
    <3>1. RxPut' = I + 1
      BY <1>7, <2>4
    <3>2. W * RxPut' = W * (I + 1)
      BY <3>1
    <3>3. x1 <= W * (I + 1)
      BY <1>2, <2>2, <2>3
    <3> QED BY <3>1, <3>2, <3>3
  <2>6. RxStreamPlace'
    BY <1>5, <1>6, <1>8, <1>10, <2>4 DEF RxStreamPlace, W, x1
  <2> QED
    BY <1>1, <1>5, <1>9, <1>10, <2>5, <2>6 DEF RxPutsBytes, W, I, x1
<1>11. CASE ~(o >= W - w)
  <2> HIDE DEF W, x, I, o, w, x1
  <2>1. w = 1 /\ o + 1 \in 0 .. W - 1
    BY <1>2, <1>3, <1>11
  <2>2. W * I \in Nat
    BY <1>2
  <2>3. x1 = W * I + (o + 1) /\ x1 \in Nat
    BY <1>2, <1>6, <2>1, <2>2
  <2>4. x1 % W = o + 1 /\ x1 \div W = I
    BY <1>2, <2>1, <2>3, QuotientUnique
  <2>5. RxPut' = I
    BY <1>7, <2>4
  <2>6. RxStreamPlace'
    BY <1>5, <1>6, <1>8, <1>11, <2>1, <2>4 DEF RxStreamPlace, W, x1
  <2> QED
    BY <1>1, <1>5, <1>9, <1>11, <2>5, <2>6 DEF RxPutsBytes, I
<1> QED BY <1>10, <1>11

LEMMA RxTakeEnds ==
    ASSUME RxInv, RxPlaceInv, RxDataInv, RxRun, RxTake,
           given + axisBytes >= frame.size
    PROVE  RxStreamPlace' /\ RxPutsBytes
<1> DEFINE W == WordBytes
           x == RxLead + given
           I == RxPut
           o == rx_axis_byte_offs
           w == axisBytes
           x1 == RxLead + given'
           keep1 == frame.size - given
<1>1. /\ ~rx_axis_stop /\ (NextPtr(rx_burst_inp) # rx_burst_out \/ rx_m_axi_stop)
      /\ rx_burst_buf' = [rx_burst_buf EXCEPT ![rx_burst_inp] = RxPlace(@)]
  BY DEF RxTake, RxReady
<1>2. /\ W \in Nat \ {0} /\ x \in Nat
      /\ w = 1 \/ (w = W /\ RxLead = 0)
      /\ I \in Nat /\ o \in 0 .. W - 1 /\ x = W * I + o
      /\ given \in Nat /\ RxLead \in Nat /\ frame.size \in Nat /\ w \in Nat \ {0}
      /\ given < frame.size
  BY <1>1, RxRunNumbers, RxPutNumbers
<1>3. w > 1 => o = 0
  BY RxPutNumbers
<1>4. given + w >= frame.size
  OBVIOUS
<1>5. /\ given' = frame.size /\ rx_axis_stop' = TRUE
      /\ rx_burst_inp' = NextPtr(rx_burst_inp) /\ rx_axis_byte_offs' = o
      /\ rx_axis_keep' = frame.size - given /\ rx_bad_frame' = frame.bad
  <2> DEFINE last == given + w >= frame.size
             full == o >= W - w
  <2>0. /\ given' = IF last THEN frame.size ELSE given + w
        /\ rx_burst_inp' = IF last \/ full THEN NextPtr(rx_burst_inp)
                              ELSE rx_burst_inp
        /\ rx_axis_byte_offs' =
                CASE last -> o [] ~last /\ full -> 0 [] OTHER -> o + w
        /\ rx_axis_stop' = last
        /\ rx_axis_keep' = IF last THEN frame.size - given ELSE rx_axis_keep
        /\ rx_bad_frame' = IF last THEN frame.bad ELSE rx_bad_frame
    BY DEF RxTake
  <2>1. last
    BY <1>4
  <2> HIDE DEF last
  <2> QED BY <2>0, <2>1
<1>6. RxLead' = RxLead /\ frame' = frame /\ axisBytes' = w
  BY RxRunFrame
<1>7. RxPut' = (x1 + (W - 1)) \div W
  BY <1>5, <1>6 DEF RxPut
<1>8. keep1 >= 1 /\ o + keep1 <= W /\ keep1 \in Int /\ x1 = x + keep1
      /\ given <= given' /\ given' <= given + w
  <2> HIDE DEF W, o, w
  <2> QED BY <1>2, <1>3, <1>4, <1>5
<1> HIDE DEF W, x, I, o, w, x1, keep1
<1>9. W * (I + 1) = W * I + W /\ W * I \in Nat
  BY <1>2
<1>10. RxPut' = I + 1
  <2> DEFINE n == x1 + (W - 1)
             r == o + keep1 - 1
  <2>1. n = W * (I + 1) + r /\ r \in 0 .. W - 1 /\ n \in Nat /\ I + 1 \in Nat
    BY <1>2, <1>8, <1>9
  <2>2. RxPut' = n \div W
    BY <1>7
  <2> HIDE DEF n, r
  <2> QED BY <1>2, <2>1, <2>2, QuotientUnique
<1>11. x1 = W * RxPut' - W + o + keep1 /\ x1 <= W * RxPut'
  <2>1. W * RxPut' = W * I + W
    BY <1>9, <1>10
  <2> QED BY <1>2, <1>8, <1>9, <2>1
<1>12. RxStreamPlace'
  BY <1>3, <1>5, <1>6, <1>8, <1>11 DEF RxStreamPlace, W, o, w, x1, keep1
<1> QED
  BY <1>1, <1>5, <1>8, <1>10, <1>11, <1>12 DEF RxPutsBytes, I, x1, W, w

LEMMA RxStreamMoves ==
    ASSUME RxInv, RxPlaceInv, RxDataInv, RxRun
    PROVE  /\ RxStreamPlace' /\ (RxPutsNothing \/ RxPutsBytes)
           /\ rx_axis_stop => RxPutsNothing /\ UNCHANGED rxStream
<1>1. CASE RxNoWord
  <2>1. UNCHANGED rxStream
    BY <1>1 DEF RxNoWord
  <2>2. /\ given' = given /\ rx_axis_stop' = rx_axis_stop
        /\ rx_burst_inp' = rx_burst_inp /\ rx_burst_buf' = rx_burst_buf
        /\ rx_axis_byte_offs' = rx_axis_byte_offs
        /\ rx_axis_keep' = rx_axis_keep /\ rx_bad_frame' = rx_bad_frame
    BY <2>1 DEF rxStream
  <2>3. RxPut' = RxPut
    BY <2>2, RxRunFrame DEF RxPut
  <2>4. RxStreamPlace'
    BY <2>2, <2>3, RxRunFrame DEF RxStreamPlace
  <2> QED BY <2>1, <2>2, <2>3, <2>4 DEF RxPutsNothing
<1>2. CASE RxTake
  <2>1. ~rx_axis_stop
    BY <1>2 DEF RxTake, RxReady
  <2>2. given \in Nat /\ axisBytes \in Nat /\ frame.size \in Nat
    BY RxRunNumbers
  <2>3. given + axisBytes < frame.size \/ given + axisBytes >= frame.size
    BY <2>2
  <2> QED BY <1>2, <2>1, <2>3, RxTakeGoesOn, RxTakeEnds
<1> QED BY <1>1, <1>2 DEF RxRun

\* The word the stream is at holds the bytes given so far.
LEMMA RxPlacedBytes ==
    ASSUME RxInv, RxPlaceInv, RxDataInv, RxRun, ~rx_m_axi_stop0, RxPutsBytes,
           NEW k \in Bytes, RxStreamByte(RxPut, k) \in 1 .. given'
    PROVE  RxPlace(rx_burst_buf[rx_burst_inp])[k] = RxStreamByte(RxPut, k)
<1> DEFINE W == WordBytes
           I == RxPut
           o == rx_axis_byte_offs
           w == axisBytes
           byte == RxStreamByte(RxPut, k)
           word == rx_burst_buf[rx_burst_inp]
           i == k - o
           x == W * I
<1>1. /\ W \in Nat \ {0} /\ I \in Nat /\ o \in 0 .. W - 1
      /\ RxLead + given = x + o
      /\ given \in Nat /\ RxLead \in Nat /\ frame.size \in Nat /\ w \in Nat \ {0}
      /\ given' \in 0 .. frame.size /\ given' <= given + w
  BY RxRunNumbers, RxPutNumbers, RxRunStream DEF RxPutsBytes
<1>2. k \in 0 .. W - 1
  BY DEF Bytes
<1>3. byte = x + k - RxLead + 1 /\ x \in Nat
  BY <1>1 DEF RxStreamByte
<1>4. RxPlace(word)[k] = IF i \notin 0 .. w - 1 THEN word[k]
                         ELSE IF given + i < frame.size THEN given + i + 1 ELSE Junk
  BY DEF RxPlace
<1>5. byte \in 1 .. given'
  OBVIOUS
<1>6. byte \in 1 .. given => word[k] = byte
  <2>1. RxFifoHolds /\ RxGone <= RxPut /\ rx_burst_inp = RxPut % BurstSize
        /\ RxGone \in Int
    BY RxRunFrame, RxRunNumbers DEF RxGoesOn, RxFifoPlace, RxGone
  <2>2. RxPut \in RxGone .. RxPut
    BY <1>1, <2>1
  <2> QED BY <2>1, <2>2 DEF RxFifoHolds
<1> HIDE DEF W, I, o, w, byte, word, x, i
<1>7. i = k - o
  BY DEF i
<1>8. byte = given + i + 1 /\ i \in Int
  BY <1>1, <1>2, <1>3, <1>7
<1>9. RxPlace(word)[k] = byte
  <2>1. CASE i < 0
    <3>1. byte \in 1 .. given
      BY <1>1, <1>5, <1>8, <2>1
    <3>2. i \notin 0 .. w - 1
      BY <1>8, <2>1
    <3> QED BY <1>4, <1>6, <3>1, <3>2
  <2>2. CASE ~(i < 0)
    <3>1. i \in 0 .. w - 1 /\ given + i < frame.size
      BY <1>1, <1>5, <1>8, <2>2
    <3> QED BY <1>4, <1>8, <3>1
  <2> QED BY <2>1, <2>2
<1> QED BY <1>9 DEF byte, word

\* The FIFO holds the right bytes after the stream side and the bus side.
LEMMA RxFifoMoves ==
    ASSUME RxInv, RxPlaceInv, RxDataInv, RxRun, ~rx_m_axi_stop0,
           RxGone' \in {RxGone, RxGone + 1}, RxGone' <= RxPut,
           rx_burst_out' = RxGone' % BurstSize
    PROVE  RxFifoPlace' /\ RxFifoHolds' /\ DOMAIN rx_burst_buf' = Fifo
<1> DEFINE J == RxGone
           J1 == RxGone'
           I == RxPut
           I1 == RxPut'
           B == BurstSize
           g == given
           g1 == given'
<1>1. /\ I \in Nat /\ J \in Nat /\ J <= I /\ I - J < B /\ B \in Nat \ {0, 1}
      /\ rx_burst_inp = I % B /\ rx_burst_out = J % B
      /\ J1 \in {J, J + 1} /\ J1 <= I /\ rx_burst_out' = J1 % B
  <2>1. RxNextWord /\ RxFifoPlace /\ RxPut \in Nat /\ BurstSize \in Nat \ {0, 1}
        /\ RxBufferWords \in Nat /\ rx_word_left \in Nat
    BY RxRunFrame, RxRunNumbers, RxPutNumbers DEF RxGoesOn
  <2>2. J \in Nat
    BY <2>1 DEF RxNextWord, RxGone
  <2> QED BY <2>1, <2>2 DEF RxFifoPlace
<1>2. /\ DOMAIN rx_burst_buf = Fifo /\ RxFifoHolds /\ ~rx_m_axi_stop
      /\ RxLead' = RxLead
  BY RxRunFrame DEF RxGoesOn
<1>3. ASSUME NEW m \in Int, NEW k \in Bytes
      PROVE  RxStreamByte(m, k)' = RxStreamByte(m, k)
  BY <1>2 DEF RxStreamByte
<1>4. \A m \in J .. I : \A k \in Bytes :
         RxStreamByte(m, k) \in 1 .. g => rx_burst_buf[m % B][k] = RxStreamByte(m, k)
  BY <1>2 DEF RxFifoHolds
<1>5. g \in Nat /\ RxLead \in Nat
  BY RxRunNumbers
<1>6. CASE RxPutsNothing
  <2>1. /\ RxPut' = I /\ given' = g /\ rx_burst_inp' = rx_burst_inp
        /\ rx_burst_buf' = rx_burst_buf
    BY <1>6 DEF RxPutsNothing
  <2> HIDE DEF J, J1, I, B, g
  <2>2. J1 \in Nat /\ I - J1 < B
    BY <1>1
  <2>3. RxFifoPlace'
    BY <1>1, <2>1, <2>2 DEF RxFifoPlace, J1, B
  <2>4. J1 .. I \subseteq J .. I
    BY <1>1
  <2>5. RxFifoHolds'
    <3> SUFFICES ASSUME NEW m \in J1 .. I, NEW k \in Bytes,
                        RxStreamByte(m, k) \in 1 .. g
                 PROVE  rx_burst_buf[m % B][k] = RxStreamByte(m, k)
      BY <1>2, <2>1 DEF RxFifoHolds, J1, B, RxStreamByte
    <3> QED BY <1>4, <2>4
  <2> QED BY <1>2, <2>1, <2>3, <2>5
<1>7. CASE RxPutsBytes
  <2>1. /\ NextPtr(rx_burst_inp) # rx_burst_out
        /\ rx_burst_buf' = [rx_burst_buf EXCEPT ![rx_burst_inp] = RxPlace(@)]
        /\ \/ I1 = I /\ rx_burst_inp' = rx_burst_inp
           \/ /\ I1 = I + 1 /\ rx_burst_inp' = NextPtr(rx_burst_inp)
              /\ RxLead + g1 <= WordBytes * I1
        /\ g <= g1
    BY <1>2, <1>7 DEF RxPutsBytes
  <2>2. g1 \in Nat
    <3>1. given' \in 0 .. frame'.size /\ frame' = frame /\ frame.size \in Nat
      BY RxRunStream, RxRunNumbers
    <3> QED BY <3>1
  <2>3. ASSUME NEW k \in Bytes, RxStreamByte(I, k) \in 1 .. g1
        PROVE  RxPlace(rx_burst_buf[rx_burst_inp])[k] = RxStreamByte(I, k)
    BY <1>7, <2>3, RxPlacedBytes
  <2> HIDE DEF J, J1, I, I1, B, g, g1
  <2>4. I - J + 1 < B
    <3>1. DataLen(I % B, J % B) = I - J
      BY <1>1, FifoDistance DEF B
    <3>2. I % B \in Fifo /\ J % B \in Fifo
      BY <1>1, FifoNext DEF B
    <3>3. I - J # B - 1
      BY <1>1, <2>1, <3>1, <3>2 DEF DataLen, NextPtr, Fifo, B
    <3> QED BY <1>1, <3>3
  <2>5. rx_burst_inp' = I1 % B
    BY <1>1, <2>1, FifoNext DEF B
  <2>6. I1 \in {I, I + 1} /\ J1 <= I1 /\ I1 - J1 < B
    <3>1. I1 \in {I, I + 1}
      BY <2>1
    <3> QED BY <1>1, <2>4, <3>1
  <2>7. RxFifoPlace'
    BY <1>1, <2>5, <2>6 DEF RxFifoPlace, I1, J1, B
  <2>8. I % B \in Fifo
    BY <1>1, FifoNext DEF B
  <2>9. DOMAIN rx_burst_buf' = Fifo
    BY <1>2, <2>1
  <2>10. ASSUME NEW m \in J1 .. I1, NEW k \in Bytes, RxStreamByte(m, k) \in 1 .. g1
         PROVE  rx_burst_buf'[m % B][k] = RxStreamByte(m, k)
    <3>1. CASE m = I
      <4>1. rx_burst_buf'[m % B] = RxPlace(rx_burst_buf[rx_burst_inp])
        BY <1>1, <1>2, <2>1, <2>8, <3>1
      <4> QED BY <2>3, <2>10, <3>1, <4>1
    <3>2. CASE m < I
      <4>1. m \in J .. I /\ m \in Nat /\ m <= I /\ I - m < B
        BY <1>1, <2>6, <3>2
      <4>2. I % B # m % B
        <5>1. m # I
          BY <1>1, <3>2, <4>1
        <5> QED BY <1>1, <4>1, <5>1, FifoDistance DEF B
      <4>3. m % B \in Fifo
        BY <4>1, FifoNext DEF B
      <4>4. rx_burst_buf'[m % B] = rx_burst_buf[m % B]
        BY <1>1, <1>2, <2>1, <4>2, <4>3
      <4>5. RxStreamByte(m, k) \in 1 .. g
        <5> DEFINE W == WordBytes
                   x == W * m
                   y == W * I
        <5>1. RxStreamByte(m, k) = x + k - RxLead + 1
          BY DEF RxStreamByte
        <5>2. /\ k \in 0 .. W - 1 /\ x \in Nat /\ y \in Nat /\ x + W <= y
              /\ W \in Nat /\ RxLead \in Nat
          <6>1. W \in Nat \ {0} /\ m \in Nat /\ I \in Nat /\ m < I
                /\ RxLead \in Nat
            BY <1>1, <3>2, <4>1, RxRunNumbers
          <6>2. x + W <= y
            BY <6>1, Multiples
          <6> QED BY <6>1, <6>2 DEF Bytes
        <5>3. RxLead + g >= y /\ g \in Nat
          <6>1. ~rx_axis_stop
            BY <1>7 DEF RxPutsBytes
          <6>2. RxLead + given = WordBytes * RxPut + rx_axis_byte_offs
                /\ rx_axis_byte_offs \in 0 .. WordBytes - 1
            BY <6>1, RxPutNumbers
          <6>3. RxLead + g = y + rx_axis_byte_offs
            BY <6>2 DEF g, I
          <6> QED BY <1>5, <5>2, <6>2, <6>3
        <5> HIDE DEF W, x, y
        <5>4. x + k - RxLead + 1 <= g
          BY <5>2, <5>3
        <5>5. x + k - RxLead + 1 \in 1 .. g1
          BY <2>10, <5>1
        <5>6. x + k - RxLead + 1 \in 1 .. g
          BY <2>2, <5>3, <5>4, <5>5
        <5> QED BY <5>1, <5>6
      <4> QED BY <1>4, <4>1, <4>4, <4>5
    <3>3. ~(m > I)
      <4> SUFFICES ASSUME m > I PROVE FALSE
        OBVIOUS
      <4>1. m = I + 1 /\ I1 = I + 1
        BY <1>1, <2>6
      <4>2. RxLead + g1 <= WordBytes * I1
        BY <1>1, <2>1, <4>1
      <4>3. RxStreamByte(m, k) = WordBytes * I1 + k - RxLead + 1
        BY <4>1 DEF RxStreamByte
      <4>4. WordBytes * I1 \in Int /\ k \in Nat /\ RxLead \in Nat
        BY <1>1, <4>1, RxRunNumbers DEF Bytes
      <4>5. RxStreamByte(m, k) > g1
        BY <2>2, <4>2, <4>3, <4>4
      <4>6. RxStreamByte(m, k) <= g1
        BY <2>10, <2>2
      <4>7. RxStreamByte(m, k) \in Int
        BY <4>3, <4>4
      <4> QED BY <2>2, <4>5, <4>6, <4>7
    <3> QED BY <1>1, <2>6, <3>1, <3>2, <3>3
  <2>11. RxFifoHolds'
    <3> SUFFICES ASSUME NEW m \in J1 .. I1, NEW k \in Bytes,
                        RxStreamByte(m, k) \in 1 .. g1
                 PROVE  rx_burst_buf'[m % B][k] = RxStreamByte(m, k)
      BY <1>2 DEF RxFifoHolds, J1, I1, B, g1, RxStreamByte
    <3> QED BY <2>10
  <2> QED BY <2>7, <2>9, <2>11
<1> QED BY <1>6, <1>7, RxStreamMoves

-----------------------------------------------------------------------------
(* The bus side of an edge.                                                *)

\* Where the bus side is, while it goes on.
LEMMA RxGoneNumbers ==
    ASSUME RxInv, RxPlaceInv, RxDataInv, RxRun, ~rx_m_axi_stop0
    PROVE  /\ RxGone \in Nat /\ RxGone <= RxPut /\ RxPut - RxGone < BurstSize
           /\ rx_word_left \in Nat \ {0} /\ RxGone = RxBufferWords - rx_word_left
           /\ rx_burst_inp = RxPut % BurstSize
           /\ rx_burst_out = RxGone % BurstSize
           /\ NextPtr(rx_burst_out) = (RxGone + 1) % BurstSize
           /\ RxData = RxPut - RxGone
           /\ RxBurstFirst = RxBufferFirst + RxGone
<1>1. /\ RxNextWord /\ RxFifoPlace /\ RxPut \in Nat
      /\ RxBufferWords \in Nat \ {0} /\ rx_word_left \in Nat /\ rx_word_left >= 1
      /\ RxBufferFirst \in Nat
  BY RxRunFrame, RxRunNumbers, RxPutNumbers DEF RxGoesOn, RxInv, RxRoomLeft
<1>2. RxGone \in Nat /\ RxGone = RxBufferWords - rx_word_left
      /\ RxBurstFirst = RxBufferFirst + RxGone
  BY <1>1 DEF RxNextWord, RxGone
<1>3. /\ RxGone <= RxPut /\ RxPut - RxGone < BurstSize
      /\ rx_burst_inp = RxPut % BurstSize
      /\ rx_burst_out = RxGone % BurstSize
  BY <1>1 DEF RxFifoPlace
<1>4. RxData = RxPut - RxGone
  BY <1>1, <1>2, <1>3, FifoDistance DEF RxData
<1>5. NextPtr(rx_burst_out) = (RxGone + 1) % BurstSize
  BY <1>2, <1>3, FifoNext
<1> QED BY <1>1, <1>2, <1>3, <1>4, <1>5

\* The one word more: a wide stream that has ended.
LEMMA RxOneMoreNumbers ==
    ASSUME RxInv, RxPlaceInv, RxDataInv, RxRun
    PROVE  RxOneMore <=> /\ rx_axis_stop /\ RxShift # 0
                         /\ rx_axis_keep + RxShift > WordBytes
  BY DEF RxOneMore, RxKeepCount

\* A data word of a burst: the FIFO has one, or it is the one more.
LEMMA RxBeatWord ==
    ASSUME RxInv, RxPlaceInv, RxDataInv, RxRun, RxBeat, ~rx_m_axi_stop0
    PROVE  /\ m_axi_wvalid = TRUE /\ ~rx_m_axi_stop
           /\ RxPut = RxGone => RxOneMore
           /\ RxBurstFirst = m_axi_awaddr + m_axi_wcnt
           /\ RxLastWord => m_axi_wcnt = m_axi_awlen
<1>1. /\ m_axi_wvalid = TRUE /\ RxWords > m_axi_awlen - m_axi_wcnt
      /\ m_axi_wcnt <= m_axi_awlen
      /\ m_axi_wcnt \in Fifo /\ m_axi_awlen \in Fifo /\ ~rx_m_axi_stop
      /\ RxBurstFirst = m_axi_awaddr + m_axi_wcnt
  BY RxRunFrame DEF RxBeat, RxInv, RxTypeOK, RxBurstIsLegal, RxBusAtRest, RxWords,
     RxPlaceInv, RxBurstInBuffer
<1>2. RxData \in Nat /\ m_axi_wcnt \in Nat /\ m_axi_awlen \in Nat
  BY <1>1, RxDataType, RxRunNumbers DEF Fifo
<1>3. RxWords = RxData + (IF RxOneMore THEN 1 ELSE 0)
  BY DEF RxWords
<1>4. RxPut = RxGone => RxOneMore
  <2> SUFFICES ASSUME RxPut = RxGone, ~RxOneMore PROVE FALSE
    OBVIOUS
  <2>1. RxData = 0
    BY RxGoneNumbers, RxPutNumbers
  <2>2. RxWords = 0 + 0
    BY <1>3, <2>1
  <2> QED BY <1>1, <1>2, <2>2
<1>5. RxLastWord => m_axi_wcnt = m_axi_awlen
  <2> SUFFICES ASSUME RxLastWord PROVE m_axi_wcnt = m_axi_awlen
    OBVIOUS
  <2>1. RxWords <= 1
    BY RxLastWordIsLast DEF RxInv
  <2>2. RxWords \in Nat
    BY <1>2, <1>3
  <2> QED BY <1>1, <1>2, <2>1, <2>2
<1> QED BY <1>1, <1>4, <1>5

\* Every word of the FIFO but the last is full, and the last one of a frame ends
\* with it: the bytes of a word that has been put are given.
LEMMA RxWordGiven ==
    ASSUME RxInv, RxPlaceInv, RxDataInv, RxRun, ~rx_m_axi_stop0, RxGone < RxPut,
           NEW k \in Bytes, RxStreamByte(RxGone, k) \in 1 .. frame.size
    PROVE  rx_burst_buf[rx_burst_out][k] = RxStreamByte(RxGone, k)
<1> DEFINE W == WordBytes
           x == W * RxGone
           y == W * RxPut
           byte == RxStreamByte(RxGone, k)
<1>1. /\ W \in Nat \ {0} /\ RxLead \in Nat /\ given \in Nat
      /\ RxGone \in Nat /\ RxPut \in Nat
  BY RxRunNumbers, RxGoneNumbers, RxPutNumbers
<1>2. x + W <= y /\ x \in Nat /\ y \in Nat
  <2>1. x + W <= y
    BY <1>1, Multiples
  <2> QED BY <1>1, <2>1
<1>3. byte = x + k - RxLead + 1 /\ k \in 0 .. W - 1 /\ byte \in 1 .. frame.size
  BY DEF RxStreamByte, Bytes
<1>4. byte \in 1 .. given
  <2>1. CASE rx_axis_stop
    BY <1>3, <2>1, RxPutNumbers
  <2>2. CASE ~rx_axis_stop
    <3>1. RxLead + given = y + rx_axis_byte_offs /\ rx_axis_byte_offs \in 0 .. W - 1
      BY <2>2, RxPutNumbers
    <3> HIDE DEF W, x, y, byte
    <3>2. byte <= given
      BY <1>1, <1>2, <1>3, <3>1
    <3>3. byte \in Int
      BY <1>1, <1>2, <1>3
    <3> QED BY <1>1, <1>3, <3>2, <3>3
  <2> QED BY <2>1, <2>2
<1>5. /\ RxFifoHolds /\ rx_burst_out = RxGone % BurstSize
      /\ RxGone \in RxGone .. RxPut
  BY <1>1, RxRunFrame, RxGoneNumbers DEF RxGoesOn
<1> QED BY <1>4, <1>5 DEF RxFifoHolds

\* The bytes of a shifted word: what was kept back and the next of the FIFO.
LEMMA OrByte ==
    ASSUME NEW u, NEW v, NEW k \in Bytes
    PROVE  /\ v[k] = 0 => Or(u, v)[k] = u[k]
           /\ u[k] = 0 => Or(u, v)[k] = v[k]
<1>1. Or(u, v)[k] = CASE u[k] = 0 -> v[k] [] v[k] = 0 -> u[k] [] OTHER -> Junk
  BY DEF Or
<1>2. CASE u[k] = 0
  BY <1>1, <1>2
<1>3. CASE u[k] # 0
  BY <1>1, <1>3
<1> QED BY <1>2, <1>3

\* What the bus gets is the bytes of the frame that belong there.
LEMMA RxBeatData ==
    ASSUME RxInv, RxPlaceInv, RxDataInv, RxRun, RxBeat, ~rx_m_axi_stop0,
           NEW k \in Bytes, RxMemoryByte(RxGone, k) \in 1 .. frame.size
    PROVE  RxWriteData[k] = RxMemoryByte(RxGone, k)
<1> DEFINE W == WordBytes
           J == RxGone
           x == W * J
           sh == RxShift
           byte == RxMemoryByte(RxGone, k)
           fifo == rx_burst_buf[rx_burst_out]
           up == ShiftUp(fifo, sh)
<1>1. /\ W \in Nat \ {0} /\ sh \in 0 .. W - 1 /\ RxLead \in 0 .. W - 1
      /\ RxOffset = RxLead + sh /\ J \in Nat /\ x \in Nat
      /\ frame.size \in Nat
  <2>1. /\ W \in Nat \ {0} /\ sh \in 0 .. W - 1 /\ RxLead \in 0 .. W - 1
        /\ RxOffset = RxLead + sh /\ J \in Nat
        /\ frame.size \in Nat
    BY RxRunNumbers, RxGoneNumbers
  <2> QED BY <2>1
<1>2. k \in 0 .. W - 1
  BY DEF Bytes
<1>3. byte = x + k - RxOffset + 1
  BY DEF RxMemoryByte
<1>4. ASSUME NEW j \in Bytes PROVE RxStreamByte(J, j) = x + j - RxLead + 1
  BY DEF RxStreamByte
<1>5. byte \in 1 .. frame.size
  OBVIOUS
<1>6. ASSUME NEW j \in Bytes, byte = x + j - RxLead + 1, J < RxPut
      PROVE  fifo[j] = byte
  BY <1>4, <1>5, <1>6, RxWordGiven
<1>7. RxWriteData = IF sh = 0 THEN fifo ELSE Or(rx_burst_tail, up)
  BY DEF RxWriteData
<1>8. up[k] = IF k >= sh THEN fifo[k - sh] ELSE 0
  BY DEF ShiftUp
<1>9. /\ k < sh => rx_burst_tail[k] = byte
      /\ ~(k < sh) => rx_burst_tail[k] = 0
  BY <1>5, RxRunFrame DEF RxGoesOn, RxTailHolds
<1>10. J = RxPut => /\ RxLead = 0 /\ sh # 0 /\ frame.size <= x
  <2> SUFFICES ASSUME J = RxPut PROVE RxLead = 0 /\ sh # 0 /\ frame.size <= x
    OBVIOUS
  <2>1. RxOneMore
    BY RxBeatWord
  <2>2. rx_axis_stop /\ sh # 0
    BY <2>1, RxOneMoreNumbers
  <2>3. axisBytes > 1 /\ RxLead = 0
    BY <2>2, RxRunNumbers
  <2>4. /\ given = frame.size /\ rx_axis_keep \in 1 .. W /\ rx_axis_byte_offs = 0
        /\ RxLead + given = W * RxPut - W + rx_axis_byte_offs + rx_axis_keep
    BY <2>2, <2>3, RxPutNumbers
  <2>5. W * RxPut = x
    OBVIOUS
  <2> HIDE DEF W, x
  <2> QED BY <1>1, <2>2, <2>3, <2>4, <2>5
<1>11. J < RxPut \/ J = RxPut
  BY RxGoneNumbers, RxPutNumbers
<1> HIDE DEF W, J, x, sh, byte, fifo, up
<1>12. CASE sh = 0
  <2>1. J < RxPut
    BY <1>10, <1>11, <1>12
  <2>2. byte = x + k - RxLead + 1
    BY <1>1, <1>2, <1>3, <1>12
  <2>3. fifo[k] = byte
    BY <1>6, <2>1, <2>2
  <2> QED BY <1>7, <1>12, <2>3 DEF byte
<1>13. CASE sh # 0 /\ k < sh
  <2>1. up[k] = 0
    BY <1>1, <1>2, <1>8, <1>13
  <2>2. rx_burst_tail[k] = byte
    BY <1>9, <1>13
  <2>3. Or(rx_burst_tail, up)[k] = byte
    BY <2>1, <2>2, OrByte
  <2> QED BY <1>7, <1>13, <2>3 DEF byte
<1>14. CASE sh # 0 /\ ~(k < sh)
  <2>1. k - sh \in Bytes /\ up[k] = fifo[k - sh]
    BY <1>1, <1>2, <1>8, <1>14 DEF Bytes, W
  <2>2. byte = x + (k - sh) - RxLead + 1
    BY <1>1, <1>2, <1>3
  <2>3. J < RxPut
    <3> SUFFICES ASSUME J = RxPut PROVE FALSE
      BY <1>11
    <3>1. RxLead = 0 /\ frame.size <= x
      BY <1>10
    <3> QED BY <1>1, <1>2, <1>3, <1>5, <1>14, <3>1
  <2>4. up[k] = byte
    BY <1>6, <2>1, <2>2, <2>3
  <2>5. rx_burst_tail[k] = 0
    BY <1>9, <1>14
  <2>6. Or(rx_burst_tail, up)[k] = byte
    BY <2>4, <2>5, OrByte
  <2> QED BY <1>7, <1>14, <2>6 DEF byte
<1> QED BY <1>12, <1>13, <1>14

\* What is kept back of the word that has gone.
LEMMA RxTailMoves ==
    ASSUME RxInv, RxPlaceInv, RxDataInv, RxRun, RxBeat, ~rx_m_axi_stop0,
           RxGone < RxPut, RxGone' = RxGone + 1
    PROVE  RxTailHolds'
<1> DEFINE W == WordBytes
           J == RxGone
           x == W * J
           sh == RxShift
           fifo == rx_burst_buf[rx_burst_out]
<1>1. /\ W \in Nat \ {0} /\ sh \in 0 .. W - 1 /\ RxLead \in 0 .. W - 1
      /\ RxOffset = RxLead + sh /\ J \in Nat /\ x \in Nat
      /\ W * (J + 1) = x + W
  <2>1. /\ W \in Nat \ {0} /\ sh \in 0 .. W - 1 /\ RxLead \in 0 .. W - 1
        /\ RxOffset = RxLead + sh /\ J \in Nat
    BY RxRunNumbers, RxGoneNumbers
  <2> QED BY <2>1
<1>2. RxShift' = sh /\ RxOffset' = RxOffset /\ frame' = frame
  BY RxRunFrame
<1>3. rx_burst_tail' = ShiftDown(fifo, W - sh)
  <2>1. RxData # 0
    BY RxGoneNumbers, RxPutNumbers
  <2> QED BY <2>1 DEF RxBeat
<1>4. ASSUME NEW j \in Bytes, RxStreamByte(J, j) \in 1 .. frame.size
      PROVE  fifo[j] = RxStreamByte(J, j)
  BY <1>4, RxWordGiven
<1>5. ASSUME NEW k \in Bytes
      PROVE  IF k < sh
                 THEN x + W + k - RxOffset + 1 \in 1 .. frame.size =>
                         rx_burst_tail'[k] = x + W + k - RxOffset + 1
                 ELSE rx_burst_tail'[k] = 0
  <2>1. k \in 0 .. W - 1
    BY DEF Bytes
  <2>2. rx_burst_tail'[k] = IF k + (W - sh) < W THEN fifo[k + (W - sh)] ELSE 0
    BY <1>3 DEF ShiftDown
  <2>3. CASE k < sh
    <3> DEFINE j == k + (W - sh)
    <3>1. j \in 0 .. W - 1 /\ x + j - RxLead + 1 = x + W + k - RxOffset + 1
      <4> HIDE DEF W, x, sh
      <4> QED BY <1>1, <2>1, <2>3
    <3>2. RxStreamByte(J, j) = x + j - RxLead + 1
      BY DEF RxStreamByte
    <3>3. j \in Bytes /\ j < W
      <4>1. j \in Bytes
        BY <3>1 DEF Bytes
      <4> HIDE DEF j, W
      <4> QED BY <1>1, <3>1, <4>1
    <3>4. rx_burst_tail'[k] = fifo[j]
      BY <2>2, <3>3
    <3> HIDE DEF j, W, x, sh, fifo
    <3>5. x + W + k - RxOffset + 1 \in 1 .. frame.size =>
             rx_burst_tail'[k] = x + W + k - RxOffset + 1
      BY <1>4, <3>1, <3>2, <3>3, <3>4
    <3> QED BY <2>3, <3>5
  <2>4. CASE ~(k < sh)
    <3>1. ~(k + (W - sh) < W)
      <4> HIDE DEF W, sh
      <4> QED BY <1>1, <2>1, <2>4
    <3> QED BY <2>2, <2>4, <3>1
  <2> QED BY <2>3, <2>4
<1> HIDE DEF W, J, x, sh, fifo
<1>6. ASSUME NEW k \in Bytes
      PROVE  RxMemoryByte(RxGone, k)' = x + W + k - RxOffset + 1
  <2>1. RxMemoryByte(RxGone, k)' = W * RxGone' + k - RxOffset' + 1
    BY DEF RxMemoryByte, W
  <2>2. W * RxGone' = x + W
    BY <1>1 DEF J
  <2> QED BY <1>2, <2>1, <2>2
<1>7. ASSUME NEW k \in Bytes
      PROVE  IF k < RxShift'
                 THEN RxMemoryByte(RxGone, k)' \in 1 .. frame'.size =>
                         rx_burst_tail'[k] = RxMemoryByte(RxGone, k)'
                 ELSE rx_burst_tail'[k] = 0
  BY <1>2, <1>5, <1>6
<1> QED BY <1>7 DEF RxTailHolds

\* After the last word the engine is at the end of the frame.
LEMMA RxLastWordEnds ==
    ASSUME RxInv, RxPlaceInv, RxDataInv, RxRun, RxBeat, ~rx_m_axi_stop0,
           RxLastWord
    PROVE  /\ frame.size + RxOffset <= WordBytes * (RxGone + 1)
           /\ rx_pkt_addr' = rx_buf.addr + frame.size
<1> DEFINE W == WordBytes
           J == RxGone
           I == RxPut
           x == W * J
           first == W * RxBufferFirst
           sh == RxShift
           o == rx_axis_byte_offs
           keep == rx_axis_keep
           z == frame.size
<1>1. /\ W \in Nat \ {0} /\ sh \in 0 .. W - 1 /\ RxLead \in Nat
      /\ RxOffset = RxLead + sh /\ J \in Nat /\ I \in Nat
      /\ RxBufferFirst \in Nat
      /\ z \in Nat /\ rx_buf.addr = first + RxOffset
      /\ sh # 0 => axisBytes > 1 /\ RxLead = 0
      /\ J <= I /\ I - J < BurstSize /\ BurstSize \in Nat \ {0, 1}
  BY RxRunNumbers, RxGoneNumbers, RxPutNumbers
<1>2. rx_axis_stop /\ rx_burst_inp = IF RxOneMore THEN rx_burst_out
                                     ELSE NextPtr(rx_burst_out)
  BY DEF RxLastWord
<1>3. /\ o \in Nat /\ keep \in 1 .. W /\ o + keep <= W
      /\ RxLead + z = W * I - W + o + keep /\ I >= 2
      /\ axisBytes > 1 => o = 0
  BY <1>2, RxPutNumbers
<1>4. /\ rx_burst_inp = I % BurstSize /\ rx_burst_out = J % BurstSize
      /\ NextPtr(rx_burst_out) = (J + 1) % BurstSize
      /\ rx_burst_inp \in Fifo /\ rx_burst_out \in Fifo
      /\ RxData = I - J
  BY RxGoneNumbers, RxRunNumbers
<1>5. IF RxOneMore THEN I = J ELSE I = J + 1
  <2>1. CASE RxOneMore
    <3>1. RxData = 0
      BY <1>2, <1>4, <2>1, FifoTypes DEF RxData
    <3> QED BY <1>1, <1>4, <2>1, <3>1
  <2>2. CASE ~RxOneMore
    <3>1. I # J
      <4> SUFFICES ASSUME I = J PROVE FALSE
        OBVIOUS
      <4>1. NextPtr(rx_burst_out) = rx_burst_out
        BY <1>2, <1>4, <2>2
      <4> QED BY <1>1, <1>4, <4>1 DEF NextPtr, Fifo
    <3>2. J + 1 \in Nat /\ J + 1 <= I /\ I - (J + 1) < BurstSize
      <4> HIDE DEF I, J
      <4> QED BY <1>1, <3>1
    <3>3. I % BurstSize = (J + 1) % BurstSize
      BY <1>2, <1>4, <2>2
    <3>4. I = J + 1
      BY <1>1, <3>2, <3>3, FifoDistance
    <3> QED BY <2>2, <3>4
  <2> QED BY <2>1, <2>2
<1>6. RxOneMore <=> sh # 0 /\ keep + sh > W
  BY <1>2, RxOneMoreNumbers
<1>7. rx_pkt_addr' = rx_pkt_addr + o + (keep + sh) - (IF RxOneMore THEN W ELSE 0)
  BY DEF RxBeat, RxKeepCount
<1>8. J >= 1
  BY <1>1, <1>3, <1>5
<1>9. rx_pkt_addr = W * (RxBufferFirst + J)
  BY <1>1, <1>8, RxRunFrame DEF RxGoesOn
<1> HIDE DEF W, J, I, sh, o, keep, z
<1>10. /\ rx_pkt_addr = first + x /\ first \in Nat /\ x \in Nat
       /\ W * (J + 1) = x + W
  BY <1>1, <1>9
<1>11. CASE RxOneMore
  <2>1. W * I = x
    BY <1>5, <1>11
  <2>2. sh # 0 /\ keep + sh > W /\ RxLead = 0 /\ o = 0
    BY <1>1, <1>3, <1>6, <1>11
  <2>3. rx_pkt_addr' = rx_pkt_addr + o + (keep + sh) - W
    BY <1>7, <1>11
  <2> HIDE DEF x, first
  <2>4. /\ z + RxOffset <= W * (J + 1)
        /\ rx_pkt_addr' = rx_buf.addr + z
    BY <1>1, <1>3, <1>10, <2>1, <2>2, <2>3
  <2> QED BY <2>4 DEF W, J, z
<1>12. CASE ~RxOneMore
  <2>1. W * I = x + W
    BY <1>5, <1>10, <1>12
  <2>2. sh = 0 \/ (keep + sh <= W /\ o = 0 /\ RxLead = 0)
    BY <1>1, <1>3, <1>6, <1>12
  <2>3. rx_pkt_addr' = rx_pkt_addr + o + (keep + sh) - 0
    BY <1>7, <1>12
  <2> HIDE DEF x, first
  <2>4. /\ z + RxOffset <= W * (J + 1)
        /\ rx_pkt_addr' = rx_buf.addr + z
    BY <1>1, <1>3, <1>10, <2>1, <2>2, <2>3
  <2> QED BY <2>4 DEF W, J, z
<1> QED BY <1>11, <1>12

\* If the frame fits, the last word of the buffer is reached with the last word
\* of the frame, at the latest.
LEMMA RxFitsEnds ==
    ASSUME RxInv, RxPlaceInv, RxDataInv, RxRun, RxBeat, ~rx_m_axi_stop0,
           rx_word_left <= 1, frame.size <= rx_buf.size
    PROVE  RxLastWord
<1> DEFINE W == WordBytes
           J == RxGone
           I == RxPut
           x == W * J
           y == W * I
           N == RxBufferWords
           sh == RxShift
           o == rx_axis_byte_offs
           keep == rx_axis_keep
           z == frame.size
<1>1. /\ W \in Nat \ {0} /\ sh \in 0 .. W - 1 /\ RxLead \in Nat
      /\ RxOffset = RxLead + sh /\ J \in Nat /\ I \in Nat
      /\ z \in Nat /\ given \in Nat /\ J <= I /\ N \in Nat
      /\ sh # 0 => axisBytes > 1 /\ RxLead = 0
      /\ rx_word_left \in Nat \ {0} /\ J = N - rx_word_left
      /\ rx_buf.size \in Nat /\ z <= rx_buf.size
  BY RxRunNumbers, RxGoneNumbers, RxPutNumbers
<1>2. N = J + 1
  <2>1. rx_word_left = 1
    BY <1>1
  <2> QED BY <1>1, <2>1
<1>3. z + RxOffset <= W * N
  <2>1. RxSizeAligned <= W * N /\ RxSizeAligned = rx_buf.size + RxOffset
    BY RxRunFrame, RxBufferHolds DEF RxSizeAligned
  <2>2. W * N \in Int
    BY <1>1
  <2> HIDE DEF W, N, z
  <2> QED BY <1>1, <2>1, <2>2
<1>4. J = I => RxOneMore
  BY RxBeatWord
<1>5. /\ rx_axis_stop => /\ o \in Nat /\ keep \in 1 .. W /\ RxLead + z = y - W + o + keep
                         /\ given = z
      /\ ~rx_axis_stop => o \in 0 .. W - 1 /\ RxLead + given = y + o /\ given < z
      /\ axisBytes > 1 => o = 0
  BY RxPutNumbers
<1>6. /\ rx_burst_inp = I % BurstSize /\ rx_burst_out = J % BurstSize
      /\ NextPtr(rx_burst_out) = (J + 1) % BurstSize
  BY RxGoneNumbers
<1>7. RxOneMore <=> rx_axis_stop /\ sh # 0 /\ keep + sh > W
  BY RxOneMoreNumbers
<1>8. W * N = x + W /\ x \in Nat /\ y \in Nat
  BY <1>1, <1>2
<1>9. J < I => x + W <= y
  BY <1>1, Multiples
<1>10. J + 2 <= I => x + W + W <= y
  <2> SUFFICES ASSUME J + 2 <= I PROVE x + W + W <= y
    OBVIOUS
  <2>1. J + 1 \in Int /\ J + 1 < I
    BY <1>1
  <2>2. W * (J + 1) + W <= y
    BY <1>1, <2>1, Multiples
  <2>3. W * (J + 1) = x + W
    BY <1>1
  <2> QED BY <2>2, <2>3
<1>11. CASE J = I
  <2>1. RxOneMore
    BY <1>4, <1>11
  <2>2. rx_axis_stop
    BY <1>7, <2>1
  <2> QED BY <1>6, <1>11, <2>1, <2>2 DEF RxLastWord
<1>12. CASE J # I
  <2> HIDE DEF W, J, I, x, y, N, sh, o, keep, z
  <2>0. J < I
    BY <1>1, <1>12
  <2>1. rx_axis_stop
    <3> SUFFICES ASSUME ~rx_axis_stop PROVE FALSE
      OBVIOUS
    <3>1. o \in 0 .. W - 1 /\ RxLead + given = y + o /\ given < z
      BY <1>5
    <3> QED BY <1>1, <1>3, <1>8, <1>9, <2>0, <3>1
  <2>2. /\ o \in Nat /\ keep \in 1 .. W /\ RxLead + z = y - W + o + keep
    BY <1>5, <2>1
  <2>3. I = J + 1
    <3> SUFFICES ASSUME J + 2 <= I PROVE FALSE
      BY <1>1, <2>0
    <3> QED BY <1>1, <1>3, <1>8, <1>10, <2>2
  <2>4. ~RxOneMore
    <3> SUFFICES ASSUME RxOneMore PROVE FALSE
      OBVIOUS
    <3>1. sh # 0 /\ keep + sh > W /\ RxLead = 0 /\ o = 0
      BY <1>1, <1>5, <1>7
    <3> QED BY <1>1, <1>3, <1>8, <1>9, <2>0, <2>2, <3>1
  <2> QED BY <1>6, <2>1, <2>3, <2>4 DEF RxLastWord
<1> QED BY <1>11, <1>12

\* The bytes of the frame up to the end of the word that goes are in memory.
LEMMA RxBeatStores ==
    ASSUME RxInv, RxPlaceInv, RxDataInv, RxRun, RxBeat, ~rx_m_axi_stop0,
           NEW i \in 1 .. Smaller(frame.size, rx_buf.size),
           rx_buf.addr + i - 1 < WordBytes * (RxBufferFirst + RxGone + 1)
    PROVE  memory'[rx_buf.addr + i - 1] = i
<1> DEFINE W == WordBytes
           J == RxGone
           F == RxBufferFirst
           n == F + J
           x == W * J
           first == W * F
           A == rx_buf.addr
           S == rx_buf.size
           z == frame.size
           off == RxOffset
           a == A + i - 1
           size == RxSizeAligned
<1>1. /\ W \in Nat \ {0} /\ J \in Nat /\ F \in Nat /\ n \in Nat
      /\ A \in Nat /\ S \in Nat \ {0} /\ z \in Nat /\ off \in Nat
      /\ A = first + off /\ size = S + off
      /\ rx_word_left \in Nat \ {0} /\ J = RxBufferWords - rx_word_left
      /\ RxBufferWords \in Nat
  <2>1. /\ W \in Nat \ {0} /\ J \in Nat /\ F \in Nat
        /\ A \in Nat /\ S \in Nat \ {0} /\ z \in Nat
        /\ RxLead \in Nat /\ RxShift \in Nat /\ off = RxLead + RxShift
        /\ A = first + off
        /\ rx_word_left \in Nat \ {0} /\ J = RxBufferWords - rx_word_left
        /\ RxBufferWords \in Nat
    BY RxRunNumbers, RxGoneNumbers
  <2>2. size = S + off
    BY DEF RxSizeAligned
  <2> HIDE DEF W, J, F, A, S, z, first, off, size
  <2>3. off \in Nat
    BY <2>1
  <2> QED BY <2>1, <2>2, <2>3
<1>2. i \in Nat /\ i >= 1 /\ i <= z /\ i <= S
  <2> HIDE DEF W, J, F, n, x, first, A, off, a, size
  <2> QED BY <1>1 DEF Smaller
<1>3. a < W * (n + 1)
  OBVIOUS
<1>a. a = A + i - 1
  OBVIOUS
<1>b. n = F + J
  OBVIOUS
<1>4. W * (n + 1) = first + x + W /\ W * n = first + x /\ x \in Nat /\ first \in Nat
  BY <1>1
<1>5. /\ memory' = [b \in DOMAIN memory |->
                      IF b \div WordBytes = m_axi_awaddr + m_axi_wcnt
                         /\ b % WordBytes \in RxStrobe
                          THEN RxWriteData[b % WordBytes] ELSE memory[b]]
      /\ DOMAIN memory = 0 .. MemoryBytes - 1
      /\ m_axi_awaddr + m_axi_wcnt = n
  BY RxBeatWord, RxGoneNumbers DEF RxBeat, RxPlaceInv
<1>6. a \in DOMAIN memory /\ a \in Nat
  <2>1. A + S <= MemoryBytes /\ MemoryBytes \in Nat
    BY RxRunFrame, RxAssumption
  <2>2. A \in Nat /\ S \in Nat /\ DOMAIN memory = 0 .. MemoryBytes - 1
    BY <1>1, <1>5
  <2> HIDE DEF a, A, S
  <2>3. a \in 0 .. MemoryBytes - 1
    BY <1>2, <1>a, <2>1, <2>2
  <2> QED BY <2>1, <2>2, <2>3
<1>7. memory'[a] = IF a \div W = n /\ a % W \in RxStrobe
                       THEN RxWriteData[a % W] ELSE memory[a]
  BY <1>5, <1>6
<1>8. a < W * n => memory[a] = i
  BY RxRunFrame DEF RxStored
<1>9. RxStrobe = IF rx_word_left <= 1
                     THEN {k \in rx_wstrb : size % W = 0 \/ k < size % W}
                     ELSE rx_wstrb
  <2>1. rx_wstrb \subseteq Bytes
    BY RxRunFrame DEF RxNextWord
  <2> QED BY <2>1 DEF RxStrobe, RxStrobeLast
<1>10. rx_wstrb = IF J = 0 THEN {k \in Bytes : k >= off} ELSE Bytes
  BY RxRunFrame DEF RxGoesOn
<1>11. size % W # 0 => size = W * RxBufferWords - W + (size % W)
  BY RxRunFrame, RxBufferHolds
<1>12. ASSUME NEW k \in Bytes, x + k - off + 1 \in 1 .. z
       PROVE  RxWriteData[k] = x + k - off + 1
  <2>1. RxMemoryByte(RxGone, k) = x + k - off + 1
    BY DEF RxMemoryByte
  <2> HIDE DEF x, off
  <2> QED BY <1>12, <2>1, RxBeatData
<1>13. size % W \in Int
  <2>1. size \in Nat
    <3> HIDE DEF size
    <3> QED BY <1>1
  <2> HIDE DEF size
  <2> QED BY <1>1, <2>1, DivMod
<1> DEFINE rest == size % W
<1> HIDE DEF W, J, F, n, x, first, A, S, z, off, a, size, rest
<1>14. CASE a < W * n
  <2>1. a \div W # n
    <3> SUFFICES ASSUME a \div W = n PROVE FALSE
      OBVIOUS
    <3>1. a = W * n + (a % W) /\ a % W \in 0 .. W - 1
      BY <1>1, <1>6, DivMod
    <3>2. W * n \in Nat
      BY <1>1
    <3> DEFINE r == a % W
    <3> HIDE DEF r
    <3>3. a = W * n + r /\ r \in 0 .. W - 1
      BY <3>1 DEF r
    <3> QED BY <1>1, <1>14, <3>2, <3>3
  <2> QED BY <1>7, <1>8, <1>14, <2>1 DEF a, A
<1>15. CASE ~(a < W * n)
  <2> DEFINE k == a - W * n
  <2>1. k \in 0 .. W - 1 /\ a = W * n + k
    <3>1. W * n \in Nat
      BY <1>1
    <3> QED BY <1>1, <1>3, <1>4, <1>6, <1>15, <3>1
  <2> HIDE DEF k
  <2>2. a \div W = n /\ a % W = k
    BY <1>1, <1>6, <2>1, QuotientUnique
  <2>4. x + k - off + 1 = i /\ k \in Bytes
    <3>1. k \in Bytes
      BY <2>1 DEF Bytes, W
    <3>2. a = first + x + k
      BY <1>4, <2>1
    <3>3. x + k - off + 1 = i
      BY <1>1, <1>2, <1>4, <1>a, <2>1, <3>2
    <3> QED BY <3>1, <3>3
  <2>5. k \in rx_wstrb
    <3>1. CASE J = 0
      <4>1. x = 0
        BY <1>1, <3>1 DEF x
      <4>2. k >= off
        BY <1>1, <1>2, <2>1, <2>4, <4>1
      <4> QED BY <1>10, <2>4, <3>1, <4>2
    <3>2. CASE J # 0
      BY <1>10, <2>4, <3>2
    <3> QED BY <3>1, <3>2
  <2>6. k \in RxStrobe
    <3>1. CASE rx_word_left <= 1 /\ rest # 0
      <4>1. RxBufferWords = J + 1
        <5>1. rx_word_left = 1
          BY <1>1, <3>1
        <5> QED BY <1>1, <5>1
      <4>2. W * RxBufferWords = x + W
        <5>1. W * (J + 1) = W * J + W
          BY <1>1
        <5> QED BY <4>1, <5>1 DEF x
      <4>3. size = x + rest
        <5>1. size = W * RxBufferWords - W + rest
          BY <1>11, <3>1 DEF rest
        <5>2. rest \in Int
          BY <1>13 DEF rest
        <5> QED BY <1>1, <1>4, <4>2, <5>1, <5>2
      <4>4. k < rest
        <5>1. rest \in Int
          BY <1>13 DEF rest
        <5> QED BY <1>1, <1>2, <1>4, <2>1, <2>4, <4>3, <5>1
      <4> QED BY <1>9, <2>5, <3>1, <4>4 DEF rest
    <3>2. CASE rx_word_left <= 1 /\ rest = 0
      BY <1>9, <2>5, <3>2 DEF rest
    <3>3. CASE ~(rx_word_left <= 1)
      BY <1>9, <2>5, <3>3
    <3> QED BY <3>1, <3>2, <3>3
  <2>7. RxWriteData[k] = i
    BY <1>1, <1>2, <1>12, <2>4
  <2> QED BY <1>7, <2>2, <2>6, <2>7 DEF a, A
<1> QED BY <1>14, <1>15

-----------------------------------------------------------------------------
(* The engine.                                                             *)

LEMMA RxDataInit ==
    ASSUME RxInit PROVE RxDataInv
  BY DEF RxInit, RxDataInv

LEMMA RxDataIdle ==
    ASSUME RxInv, RxDataInv, RxIdle
    PROVE  RxDataInv'
<1>1. /\ rx_axis_start' = FALSE /\ rx_burst_buf' = rx_burst_buf
      /\ rx_burst_inp' = 0 /\ rx_burst_out' = 0
      /\ rx_axis_stop' = FALSE /\ rx_m_axi_stop' = FALSE
      /\ rx_start' => frame' \in [size : FrameSizes, bad : BOOLEAN] /\ given' = 0
  BY DEF RxIdle
<1> QED BY <1>1 DEF RxDataInv

LEMMA RxDataLoad ==
    ASSUME RxInv, RxPlaceInv, RxDataInv, RxLoad
    PROVE  RxDataInv'
<1>1. PICK b \in RxBuffers :
        /\ rx_buf' = b /\ rx_pkt_addr' = b.addr
        /\ rx_axis_byte_offs' = IF axisBytes > 1 THEN 0 ELSE b.addr % WordBytes
        /\ rx_wstrb' = {k \in Bytes : k >= b.addr % WordBytes}
        /\ rx_word_left' =
              (b.size + (b.addr % WordBytes) + WordBytes - 1) \div WordBytes
  BY DEF RxLoad
<1>2. /\ rx_axis_start' = TRUE /\ rx_start' = rx_start /\ rx_start = TRUE
      /\ given' = 0 /\ frame' = frame /\ axisBytes' = axisBytes
      /\ rx_burst_inp' = 0 /\ rx_burst_out' = 0
      /\ rx_axis_stop' = FALSE /\ rx_m_axi_stop' = FALSE
      /\ rx_m_axi_stop0' = FALSE
      /\ rx_burst_buf' = rx_burst_buf /\ rx_burst_tail' = ZeroWord
      /\ DOMAIN rx_burst_buf = Fifo /\ frame.size \in FrameSizes
      /\ axisBytes \in AxisWidths
  BY DEF RxLoad, rxMac, RxDataInv, RxInv, RxTypeOK, RxRoomLeft
<1>3. /\ WordBytes \in Nat \ {0} /\ BurstSize \in Nat \ {0}
      /\ frame.size \in Nat /\ frame.size > 0 /\ b.addr \in Nat /\ b.size \in Nat
  <2>1. WordBytes \in Nat \ {0} /\ BurstSize \in Nat \ {0}
    BY RxConstants
  <2>2. frame.size \in Nat /\ frame.size > WordBytes
    BY <1>2, RxAssumption
  <2>3. b.addr \in Nat /\ b.size \in Nat
    BY RxAssumption
  <2> QED BY <2>1, <2>2, <2>3
<1>4. axisBytes = 1 \/ axisBytes = WordBytes
  BY <1>2, DmaAssumption
<1>5. RxOffset' = b.addr % WordBytes /\ RxOffset' \in 0 .. WordBytes - 1
  BY <1>1, <1>3, DivMod DEF RxOffset
<1>6. RxShift' = IF axisBytes > 1 THEN RxOffset' ELSE 0
  BY <1>2 DEF RxShift
<1>7. RxLead' = RxOffset' - RxShift'
  BY DEF RxLead
<1> DEFINE W == WordBytes
           off == RxOffset'
           sh == RxShift'
           lead == RxLead'
<1>8. /\ lead \in 0 .. W - 1 /\ sh \in 0 .. W - 1 /\ off = lead + sh
      /\ sh = 0 \/ sh = off
      /\ rx_axis_byte_offs' = lead
      /\ axisBytes > 1 => lead = 0
  <2>1. /\ off \in 0 .. W - 1 /\ W \in Nat \ {0}
        /\ sh = IF axisBytes > 1 THEN off ELSE 0
        /\ lead = off - sh
        /\ rx_axis_byte_offs' = IF axisBytes > 1 THEN 0 ELSE off
    BY <1>1, <1>3, <1>5, <1>6, <1>7
  <2> HIDE DEF W, off, sh, lead
  <2>2. CASE axisBytes > 1
    <3>1. sh = off /\ lead = off - off /\ rx_axis_byte_offs' = 0
      BY <2>1, <2>2
    <3>2. lead = 0
      BY <2>1, <3>1
    <3> QED BY <2>1, <3>1, <3>2
  <2>3. CASE ~(axisBytes > 1)
    <3>1. sh = 0 /\ lead = off - 0 /\ rx_axis_byte_offs' = off
      BY <2>1, <2>3
    <3>2. lead = off
      BY <2>1, <3>1
    <3> QED BY <2>1, <2>3, <3>1, <3>2
  <2> QED BY <2>2, <2>3
<1>9. RxPut' = 0 /\ (lead + 0) % W = lead
  <2>1. RxPut' = (lead + 0 + 0) \div W
    BY <1>2 DEF RxPut
  <2> HIDE DEF lead, W, off, sh
  <2>2. lead \in Nat /\ lead + 0 = lead /\ lead + 0 + 0 = lead /\ lead = W * 0 + lead
        /\ W \in Nat \ {0} /\ 0 \in Nat
    BY <1>3, <1>8 DEF W
  <2>3. lead \div W = 0 /\ lead % W = lead
    BY <1>8, <2>2, QuotientUnique
  <2> QED BY <2>1, <2>2, <2>3
<1>10. RxGone' = 0
  <2>1. RxBufferWords' = rx_word_left'
    BY <1>1 DEF RxBufferWords, RxOffset
  <2>2. RxBufferWords' \in Nat
    <3>1. RxBufferWords' \in 1 .. SizeRange - 1
      BY <1>1, <2>1, RxLoadWords
    <3> QED BY <3>1, RxConstants
  <2>3. RxGone' = RxBufferWords' - rx_word_left'
    BY DEF RxGone
  <2> DEFINE m == RxBufferWords'
  <2>4. m \in Nat /\ RxGone' = m - m
    BY <2>1, <2>2, <2>3
  <2> HIDE DEF m
  <2> QED BY <2>4
<1>11. RxStreamPlace'
  BY <1>2, <1>3, <1>8, <1>9 DEF RxStreamPlace, W, lead
<1>12. b.addr = W * RxBufferFirst' + off /\ RxBufferFirst' \in Nat
  BY <1>1, <1>3, <1>5, DivMod DEF RxBufferFirst
<1>13. RxStored'
  <2> SUFFICES ASSUME NEW i \in 1 .. Smaller(frame'.size, rx_buf'.size),
                      b.addr + i - 1 < W * (RxBufferFirst' + RxGone')
               PROVE  FALSE
    BY <1>1, <1>2 DEF RxStored
  <2>1. W * (RxBufferFirst' + RxGone') = W * RxBufferFirst'
    BY <1>10, <1>12
  <2>2. W * RxBufferFirst' \in Nat
    <3> DEFINE q == RxBufferFirst'
    <3>1. q \in Nat /\ W \in Nat
      BY <1>3, <1>12
    <3> HIDE DEF q, W
    <3>2. W * q \in Nat
      BY <3>1
    <3> QED BY <3>2 DEF q
  <2> DEFINE top == Smaller(frame'.size, rx_buf'.size)
             f == W * RxBufferFirst'
             a == b.addr
  <2>3. i \in Int /\ i >= 1
    <3>1. top \in Nat
      BY <1>1, <1>2, <1>3 DEF Smaller
    <3> HIDE DEF top
    <3> QED BY <3>1
  <2>4. a = f + off /\ f \in Nat /\ a + i - 1 < f
    BY <1>12, <2>1, <2>2
  <2>5. off \in Nat
    <3>1. off \in 0 .. W - 1 /\ W \in Nat
      BY <1>3, <1>5
    <3> HIDE DEF off, W
    <3> QED BY <3>1
  <2> HIDE DEF f, off, W, a
  <2> QED BY <2>3, <2>4, <2>5
<1>14. RxFifoPlace'
  <2>1. 0 % BurstSize = 0
    <3>1. 0 \in Nat /\ 0 = BurstSize * 0 + 0 /\ 0 \in 0 .. BurstSize - 1
      BY <1>3
    <3> QED BY <1>3, <3>1, QuotientUnique
  <2> QED BY <1>2, <1>3, <1>9, <1>10, <2>1 DEF RxFifoPlace
<1>15. RxFifoHolds'
  BY <1>2 DEF RxFifoHolds
<1>16. RxTailHolds'
  <2> SUFFICES ASSUME NEW k \in Bytes
               PROVE  IF k < sh
                          THEN RxMemoryByte(RxGone, k)' \in 1 .. frame'.size =>
                                  rx_burst_tail'[k] = RxMemoryByte(RxGone, k)'
                          ELSE rx_burst_tail'[k] = 0
    BY DEF RxTailHolds
  <2>1. RxMemoryByte(RxGone, k)' = W * RxGone' + k - off + 1
    BY DEF RxMemoryByte
  <2>2. rx_burst_tail'[k] = 0
    BY <1>2 DEF ZeroWord
  <2>3. k \in 0 .. W - 1
    BY DEF Bytes
  <2>4. W * RxGone' = 0
    BY <1>3, <1>10
  <2> DEFINE byte == RxMemoryByte(RxGone, k)'
  <2>5. byte = 0 + k - off + 1
    BY <2>1, <2>4
  <2>6. frame'.size \in Nat
    BY <1>2, <1>3
  <2> HIDE DEF W, sh, off, lead, byte
  <2>7. k < sh => byte \notin 1 .. frame'.size
    BY <1>8, <2>3, <2>5, <2>6
  <2> QED BY <2>2, <2>7 DEF byte
<1>17. RxGoesOn'
  BY <1>1, <1>5, <1>10, <1>14, <1>15, <1>16 DEF RxGoesOn
<1> QED
  BY <1>2, <1>11, <1>13, <1>17 DEF RxDataInv

\* Steps of the bus that take no data word.
LEMMA RxDataStill ==
    ASSUME RxInv, RxPlaceInv, RxDataInv, RxRun,
           UNCHANGED <<rxFifoOut, rx_m_axi_stop0, rx_pkt_addr, rx_word_left,
                       rx_wstrb, memory>>
    PROVE  /\ DOMAIN rx_burst_buf' = Fifo
           /\ RxStreamPlace' /\ RxStored'
           /\ ~rx_m_axi_stop0' => RxGoesOn'
<1>1. /\ rx_burst_out' = rx_burst_out /\ rx_burst_tail' = rx_burst_tail
      /\ rx_m_axi_stop0' = rx_m_axi_stop0 /\ rx_pkt_addr' = rx_pkt_addr
      /\ rx_word_left' = rx_word_left /\ rx_wstrb' = rx_wstrb
      /\ memory' = memory
  BY DEF rxFifoOut
<1>2. RxGone' = RxGone
  BY <1>1, RxRunFrame DEF RxGone
<1>3. RxStreamPlace' /\ (RxPutsNothing \/ RxPutsBytes)
  BY RxStreamMoves
<1>4. DOMAIN rx_burst_buf' = Fifo
  BY <1>3, RxRunFrame DEF RxPutsNothing, RxPutsBytes
<1>5. RxStored'
  BY <1>1, <1>2, RxRunFrame DEF RxStored
<1>6. ASSUME ~rx_m_axi_stop0 PROVE RxGoesOn'
  <2>1. RxGoesOn
    BY <1>6, RxRunFrame
  <2>2. RxFifoPlace' /\ RxFifoHolds'
    <3>1. /\ RxGone' \in {RxGone, RxGone + 1} /\ RxGone' <= RxPut
          /\ rx_burst_out' = RxGone' % BurstSize
      BY <1>1, <1>2, <1>6, RxGoneNumbers
    <3> QED BY <1>6, <3>1, RxFifoMoves
  <2>3. RxTailHolds'
    BY <1>1, <1>2, <2>1, RxRunFrame DEF RxGoesOn, RxTailHolds, RxMemoryByte
  <2> QED
    BY <1>1, <1>2, <2>1, <2>2, <2>3, RxRunFrame DEF RxGoesOn
<1> QED BY <1>1, <1>3, <1>4, <1>5, <1>6

\* What every edge of a frame in progress comes to.
LEMMA RxDataNext ==
    ASSUME RxInv, RxPlaceInv, RxDataInv, RxRun,
           DOMAIN rx_burst_buf' = Fifo, RxStored', RxStreamPlace',
           rx_m_axi_stop' => rx_m_axi_stop0',
           ~rx_m_axi_stop0' => RxGoesOn',
           rx_m_axi_stop0' /\ frame'.size <= rx_buf'.size => RxLength'
    PROVE  RxDataInv'
  BY RxRunFrame DEF RxDataInv

\* The stream has stopped for good.
LEMMA RxStopStays ==
    ASSUME RxInv, RxPlaceInv, RxDataInv, RxRun, rx_axis_stop
    PROVE  rx_axis_stop' = TRUE
<1>1. UNCHANGED rxStream /\ rx_axis_stop = TRUE
  BY RxStreamMoves, RxRunFrame
<1> QED BY <1>1 DEF rxStream

LEMMA RxDataStartBurst ==
    ASSUME RxInv, RxPlaceInv, RxDataInv, RxRun, RxStartBurst
    PROVE  RxDataInv'
<1>1. /\ ~m_axi_wr_cyc /\ ~rx_m_axi_stop
      /\ UNCHANGED <<rxFifoOut, rx_m_axi_stop0, rx_pkt_addr, rx_word_left,
                     rx_wstrb, memory>>
      /\ rx_m_axi_stop' = rx_m_axi_stop
  BY DEF RxStartBurst, rxWrite
<1>2. ~rx_m_axi_stop0
  BY <1>1, RxRunFrame DEF RxInv, RxRoomLeft
<1>3. ~rx_m_axi_stop0' /\ ~rx_m_axi_stop'
  BY <1>1, <1>2
<1> QED BY <1>1, <1>3, RxDataStill, RxDataNext

\* A step of the bus that moves nothing: the address, or a wait.
LEMMA RxDataWait ==
    ASSUME RxInv, RxPlaceInv, RxDataInv, RxRun,
           UNCHANGED <<rxDescriptor, rxFifoOut, rxWrite, m_axi_wvalid, memory>>
    PROVE  RxDataInv'
<1>1. /\ UNCHANGED <<rxFifoOut, rx_m_axi_stop0, rx_pkt_addr, rx_word_left,
                     rx_wstrb, memory>>
      /\ rx_m_axi_stop' = rx_m_axi_stop /\ rx_m_axi_stop0' = rx_m_axi_stop0
      /\ rx_done' = rx_done /\ rx_status' = rx_status
      /\ rx_pkt_addr' = rx_pkt_addr /\ m_axi_wvalid' = m_axi_wvalid
  BY DEF rxWrite, rxDescriptor
<1>2. rx_m_axi_stop' => rx_m_axi_stop0'
  BY <1>1, RxRunFrame
<1>3. ASSUME rx_m_axi_stop0', frame'.size <= rx_buf'.size PROVE RxLength'
  <2>0. frame' = frame /\ rx_buf' = rx_buf /\ rx_axis_start = TRUE
    BY RxRunFrame
  <2>1. RxLength
    BY <1>1, <1>3, <2>0 DEF RxDataInv
  <2>2. rx_axis_stop' = TRUE
    BY <2>1, RxStopStays DEF RxLength
  <2> QED BY <1>1, <2>1, <2>2, RxRunFrame DEF RxLength
<1> QED BY <1>1, <1>2, <1>3, RxDataStill, RxDataNext

\* The acknowledgement of the last burst reports the frame.
LEMMA RxDataAcknowledge ==
    ASSUME RxInv, RxPlaceInv, RxDataInv, RxRun,
           NEW error \in BOOLEAN, RxAcknowledge(error)
    PROVE  RxDataInv'
<1>1. /\ UNCHANGED <<rxFifoOut, rx_m_axi_stop0, rx_pkt_addr, rx_word_left,
                     rx_wstrb, memory>>
      /\ rx_m_axi_stop' = (rx_m_axi_stop \/ rx_m_axi_stop0)
      /\ rx_m_axi_stop0' = rx_m_axi_stop0 /\ rx_pkt_addr' = rx_pkt_addr
      /\ ~m_axi_wvalid /\ m_axi_wvalid' = m_axi_wvalid
      /\ rx_done' = rx_pkt_addr - rx_buf.addr
      /\ rx_status'.bad = rx_bad_frame
  BY DEF RxAcknowledge
<1>2. rx_m_axi_stop' => rx_m_axi_stop0'
  BY <1>1, RxRunFrame
<1>3. ASSUME rx_m_axi_stop0', frame'.size <= rx_buf'.size PROVE RxLength'
  <2>0. frame' = frame /\ rx_buf' = rx_buf /\ rx_axis_start = TRUE
    BY RxRunFrame
  <2>1. RxLength
    BY <1>1, <1>3, <2>0 DEF RxDataInv
  <2>2. rx_axis_stop' = TRUE
    BY <2>1, RxStopStays DEF RxLength
  <2>3. rx_bad_frame = frame.bad
    BY <2>1, RxRunFrame DEF RxStreamPlace, RxLength
  <2>4. rx_done' = frame.size
    <3>1. rx_pkt_addr = rx_buf.addr + frame.size
      BY <2>1 DEF RxLength
    <3> DEFINE a == rx_buf.addr
               z == frame.size
    <3>2. a \in Nat /\ z \in Nat /\ rx_done' = a + z - a
      BY <1>1, <3>1, RxRunNumbers
    <3> HIDE DEF a, z
    <3>3. rx_done' = z
      BY <3>2
    <3> QED BY <3>3 DEF z
  <2> QED BY <1>1, <2>1, <2>2, <2>3, <2>4, RxRunFrame DEF RxLength
<1> QED BY <1>1, <1>2, <1>3, RxDataStill, RxDataNext

\* A data word of the burst after the last one that counts: nothing is written.
LEMMA RxDataBeatStopped ==
    ASSUME RxInv, RxPlaceInv, RxDataInv, RxRun, RxBeat, rx_m_axi_stop0
    PROVE  RxDataInv'
<1>1. /\ m_axi_wvalid = TRUE /\ rx_wstrb = {} /\ rx_axis_start = TRUE
      /\ ~rx_m_axi_stop
  BY RxRunFrame DEF RxBeat, RxPlaceInv, RxBurstInBuffer, RxInv, RxTypeOK,
     RxBusAtRest
<1>2. ~(frame.size <= rx_buf.size)
  BY <1>1 DEF RxDataInv, RxLength
<1>3. RxStrobe = {}
  BY <1>1 DEF RxStrobe
<1>4. rx_m_axi_stop0' = TRUE /\ rx_m_axi_stop' = rx_m_axi_stop
  <2>1. rx_m_axi_stop0 = TRUE
    BY RxRunFrame
  <2>2. IF RxLastWord \/ rx_word_left <= 1 THEN rx_m_axi_stop0' = TRUE
          ELSE rx_m_axi_stop0' = rx_m_axi_stop0
    BY DEF RxBeat
  <2> QED BY <2>1, <2>2 DEF RxBeat
<1>5. \A a \in DOMAIN memory : memory'[a] = memory[a]
  BY <1>3 DEF RxBeat
<1>6. frame' = frame /\ rx_buf' = rx_buf /\ RxStored
      /\ RxBufferFirst' = RxBufferFirst /\ rx_buf \in RxBuffers
  BY RxRunFrame
<1>7. ASSUME NEW i \in 1 .. Smaller(frame.size, rx_buf.size)
      PROVE  memory'[rx_buf.addr + i - 1] = i
  <2> DEFINE A == rx_buf.addr
             S == rx_buf.size
             a == A + i - 1
             top == Smaller(frame.size, rx_buf.size)
  <2>1. /\ A \in Nat /\ S \in Nat /\ A + S <= MemoryBytes /\ MemoryBytes \in Nat
        /\ top \in Nat /\ top <= S
    <3>1. A \in Nat /\ S \in Nat /\ frame.size \in Nat
      BY RxRunNumbers
    <3>2. A + S <= MemoryBytes /\ MemoryBytes \in Nat
      BY <1>6, RxAssumption
    <3>3. top \in Nat /\ top <= S
      <4> HIDE DEF S
      <4> QED BY <3>1 DEF Smaller, S
    <3> QED BY <3>1, <3>2, <3>3
  <2>2. a \in 0 .. MemoryBytes - 1
    <3>1. i \in 1 .. top /\ a = A + i - 1
      OBVIOUS
    <3> HIDE DEF A, S, a, top
    <3> QED BY <2>1, <3>1
  <2>3. DOMAIN memory = 0 .. MemoryBytes - 1
    BY DEF RxPlaceInv
  <2>4. memory'[a] = memory[a]
    BY <1>5, <2>2, <2>3
  <2>5. memory[a] = i
    BY <1>6 DEF RxStored
  <2> QED BY <2>4, <2>5
<1>8. RxStored'
  BY <1>6, <1>7 DEF RxStored
<1>9. RxStreamPlace' /\ DOMAIN rx_burst_buf' = Fifo
  BY RxStreamMoves, RxRunFrame DEF RxPutsNothing, RxPutsBytes
<1> QED BY <1>2, <1>4, <1>6, <1>8, <1>9, RxDataNext

\* A data word that counts.
LEMMA RxDataBeatCounts ==
    ASSUME RxInv, RxPlaceInv, RxDataInv, RxRun, RxBeat, ~rx_m_axi_stop0
    PROVE  RxDataInv'
<1>1. /\ RxStreamPlace'
      /\ RxPutsNothing \/ RxPutsBytes
  BY RxStreamMoves
<1>2. DOMAIN rx_burst_buf' = Fifo
  BY <1>1, RxRunFrame DEF RxPutsNothing, RxPutsBytes
<1>3. frame' = frame /\ rx_buf' = rx_buf /\ RxBufferFirst' = RxBufferFirst
      /\ RxBufferWords' = RxBufferWords
  BY RxRunFrame
<1>4. ~rx_m_axi_stop /\ rx_m_axi_stop' = rx_m_axi_stop
  BY RxBeatWord DEF RxBeat
<1>5. IF RxLastWord \/ rx_word_left <= 1
          THEN rx_m_axi_stop0' = TRUE
          ELSE rx_m_axi_stop0' = rx_m_axi_stop0
  BY DEF RxBeat
<1> DEFINE W == WordBytes
           F == RxBufferFirst
           J == RxGone
           A == rx_buf.addr
           top == Smaller(frame.size, rx_buf.size)
<1>6. ASSUME NEW i \in 1 .. top, A + i - 1 < W * (F + J + 1)
      PROVE  memory'[A + i - 1] = i
  BY <1>6, RxBeatStores
<1>7. CASE RxLastWord \/ rx_word_left <= 1
  <2>1. rx_m_axi_stop0' = TRUE
    BY <1>5, <1>7
  <2>2. \A i \in 1 .. top : A + i - 1 < W * (F + J + 1)
    <3> DEFINE z == frame.size
               S == rx_buf.size
               off == RxOffset
               first == W * F
    <3>1. /\ W \in Nat \ {0} /\ F \in Nat /\ J \in Nat /\ z \in Nat
          /\ S \in Nat /\ off \in Nat /\ A = first + off
      <4>1. /\ W \in Nat \ {0} /\ F \in Nat /\ J \in Nat /\ z \in Nat
            /\ S \in Nat /\ A = first + off
            /\ RxLead \in Nat /\ RxShift \in Nat /\ off = RxLead + RxShift
        BY RxRunNumbers, RxGoneNumbers
      <4> HIDE DEF W, F, J, z, S, off, first, A
      <4>2. off \in Nat
        BY <4>1
      <4> QED BY <4>1, <4>2
    <3>2. RxLastWord => z + off <= W * (J + 1)
      BY RxLastWordEnds
    <3>3. rx_word_left <= 1 => S + off <= W * (J + 1)
      <4> SUFFICES ASSUME rx_word_left <= 1 PROVE S + off <= W * (J + 1)
        OBVIOUS
      <4>1. /\ rx_word_left \in Nat \ {0} /\ J = RxBufferWords - rx_word_left
            /\ RxBufferWords \in Nat
        BY RxGoneNumbers, RxRunNumbers
      <4>2. rx_word_left = 1
        BY <4>1
      <4>3. RxBufferWords = J + 1
        <5> HIDE DEF J
        <5> QED BY <3>1, <4>1, <4>2
      <4>4. RxSizeAligned <= W * RxBufferWords /\ RxSizeAligned = S + off
        BY RxRunFrame, RxBufferHolds DEF RxSizeAligned
      <4> QED BY <4>3, <4>4
    <3>4. top \in Nat /\ top <= z /\ top <= S
      <4> HIDE DEF z, S
      <4> QED BY <3>1 DEF Smaller, z, S
    <3> HIDE DEF W, F, J, A, z, S, off, first, top
    <3>5. W * (F + J + 1) = first + W * (J + 1)
      BY <3>1 DEF first
    <3>6. first \in Nat /\ W * (J + 1) \in Nat
      BY <3>1 DEF first
    <3>7. top + off <= W * (J + 1)
      BY <1>7, <3>1, <3>2, <3>3, <3>4, <3>6
    <3> SUFFICES ASSUME NEW i \in 1 .. top PROVE A + i - 1 < W * (F + J + 1)
      OBVIOUS
    <3>8. i \in Nat /\ i <= top
      BY <3>4
    <3> QED BY <3>1, <3>4, <3>5, <3>6, <3>7, <3>8
  <2>3. RxStored'
    BY <1>3, <1>6, <2>2 DEF RxStored
  <2>4. ASSUME frame.size <= rx_buf.size PROVE RxLength'
    <3>1. RxLastWord
      BY <1>7, <2>4, RxFitsEnds
    <3>2. rx_axis_stop
      BY <3>1 DEF RxLastWord
    <3>3. rx_axis_stop' = TRUE
      BY <3>2, RxStopStays
    <3>4. m_axi_wcnt = m_axi_awlen
      BY <3>1, RxBeatWord
    <3>5. m_axi_wvalid' = FALSE
      BY <3>4 DEF RxBeat
    <3>6. rx_pkt_addr' = rx_buf.addr + frame.size
      BY <3>1, RxLastWordEnds
    <3> QED BY <1>3, <1>4, <3>3, <3>5, <3>6 DEF RxLength
  <2> QED BY <1>1, <1>2, <1>3, <1>4, <2>1, <2>3, <2>4, RxDataNext
<1>8. CASE ~(RxLastWord \/ rx_word_left <= 1)
  <2>1. ~rx_m_axi_stop0' /\ rx_wstrb' = Bytes
        /\ rx_pkt_addr' = (RxBurstFirst + 1) * W
    BY <1>5, <1>8 DEF RxBeat
  <2>2. rx_word_left' = rx_word_left - 1
    BY <2>1, RxBeatNextWord
  <2>3. /\ J \in Nat /\ rx_word_left \in Nat /\ RxBufferWords \in Nat
        /\ J = RxBufferWords - rx_word_left
        /\ F \in Nat /\ W \in Nat \ {0} /\ RxBurstFirst = F + J
        /\ J <= RxPut /\ RxPut \in Nat
    BY RxGoneNumbers, RxRunNumbers, RxPutNumbers
  <2>4. RxGone' = J + 1
    <3>1. RxGone' = RxBufferWords - rx_word_left'
      BY <1>3 DEF RxGone
    <3>2. RxGone' = RxBufferWords - (rx_word_left - 1)
      BY <2>2, <3>1
    <3> HIDE DEF J
    <3> QED BY <2>3, <3>2
  <2>5. J < RxPut
    <3> SUFFICES ASSUME J = RxPut PROVE FALSE
      BY <2>3
    <3>1. RxOneMore
      BY RxBeatWord
    <3>2. rx_burst_inp = rx_burst_out
      BY RxGoneNumbers
    <3>3. rx_axis_stop
      BY <3>1 DEF RxOneMore
    <3> QED BY <1>8, <3>1, <3>2, <3>3 DEF RxLastWord
  <2>6. RxFifoPlace' /\ RxFifoHolds'
    <3>1. RxData # 0
      BY <2>3, <2>5, RxGoneNumbers
    <3>2. rx_burst_out' = NextPtr(rx_burst_out)
      BY <3>1 DEF RxBeat
    <3>3. rx_burst_out' = RxGone' % BurstSize
      BY <2>4, <3>2, RxGoneNumbers
    <3>4. RxGone' \in {RxGone, RxGone + 1} /\ RxGone' <= RxPut
      BY <2>3, <2>4, <2>5
    <3> QED BY <3>3, <3>4, RxFifoMoves
  <2>7. RxTailHolds'
    BY <2>4, <2>5, RxTailMoves
  <2>8. RxGone' # 0
    <3> HIDE DEF J
    <3> QED BY <2>3, <2>4
  <2>9. rx_pkt_addr' = W * (RxBufferFirst' + RxGone')
    <3>1. rx_pkt_addr' = (F + J + 1) * W
      BY <2>1, <2>3
    <3>2. RxBufferFirst' + RxGone' = F + (J + 1)
      BY <1>3, <2>4
    <3>3. W * (RxBufferFirst' + RxGone') = W * (F + (J + 1))
      BY <3>2
    <3> HIDE DEF W, F, J
    <3>4. (F + J + 1) * W = W * (F + (J + 1))
      BY <2>3
    <3> QED BY <3>1, <3>3, <3>4
  <2>10. RxGoesOn'
    BY <2>1, <2>6, <2>7, <2>8, <2>9 DEF RxGoesOn, W
  <2>11. RxStored'
    <3>1. W * (RxBufferFirst' + RxGone') = W * (F + J + 1)
      <4>1. RxBufferFirst' + RxGone' = F + J + 1
        <5>1. RxBufferFirst' + RxGone' = F + (J + 1)
          BY <1>3, <2>4
        <5> HIDE DEF F, J
        <5> QED BY <2>3, <5>1
      <4> QED BY <4>1
    <3>2. \A i \in 1 .. top :
             A + i - 1 < W * (RxBufferFirst' + RxGone') => memory'[A + i - 1] = i
      BY <1>6, <3>1
    <3> QED BY <1>3, <2>1, <3>2 DEF RxStored
  <2> QED BY <1>1, <1>2, <1>4, <2>1, <2>10, <2>11, RxDataNext
<1> QED BY <1>7, <1>8

LEMMA RxDataRun ==
    ASSUME RxInv, RxPlaceInv, RxDataInv, RxRun
    PROVE  RxDataInv'
<1>1. CASE RxStartBurst
  BY <1>1, RxDataStartBurst
<1>2. CASE RxBeat
  BY <1>2, RxDataBeatStopped, RxDataBeatCounts
<1>3. CASE \E error \in BOOLEAN : RxAcknowledge(error)
  BY <1>3, RxDataAcknowledge
<1>4. CASE \/ RxBusWait
           \/ UNCHANGED <<rxDescriptor, rxFifoOut, rxWrite, m_axi_wr_cyc,
                          m_axi_wvalid, m_axi_awaddr, m_axi_awlen, m_axi_wcnt,
                          m_axi_wr_err, memory>>
  <2>1. UNCHANGED <<rxDescriptor, rxFifoOut, rxWrite, m_axi_wvalid, memory>>
    BY <1>4 DEF RxBusWait, rxBus
  <2> QED BY <2>1, RxDataWait
<1> QED
  BY <1>1, <1>2, <1>3, <1>4 DEF RxRun, RxBusStep

\* When the receive engine is done the buffer holds the frame, or as much of it
\* as fits, and the descriptor of a frame that fits has its length and whether
\* it is bad, whatever the alignment of the buffer, the width of the stream and
\* the pace of the MAC and the bus.  What the FIFO, the shifter and the buffer
\* hold of the frame at every edge is the strengthening.
THEOREM RxStoresFrame == RxSpec => []RxFrameIsStored
<1>1. RxInit => RxInv /\ RxPlaceInv /\ RxDataInv
  BY RxInvInit, RxPlaceInit, RxDataInit
<1>2. RxInv /\ RxPlaceInv /\ RxDataInv /\ [RxNext]_rxVars
        => (RxInv /\ RxPlaceInv /\ RxDataInv)'
  <2> SUFFICES ASSUME RxInv, RxPlaceInv, RxDataInv, [RxNext]_rxVars
               PROVE  (RxInv /\ RxPlaceInv /\ RxDataInv)'
    OBVIOUS
  <2>1. CASE RxIdle
    BY <2>1, RxInvIdle, RxPlaceIdle, RxDataIdle
  <2>2. CASE RxLoad
    BY <2>2, RxInvLoad, RxPlaceLoad, RxDataLoad
  <2>3. CASE RxRun
    BY <2>3, RxInvRun, RxPlaceRun, RxDataRun
  <2>4. CASE UNCHANGED rxVars
    <3>1. RxInv' /\ RxPlaceInv'
      BY <2>4, RxInvStutter, RxPlaceStutter
    <3>2. RxDataInv'
      BY <2>4 DEF rxVars, rxMac, rxCtl, rxDescriptor, rxPacket, rxStream, rxFifoOut,
         rxWrite, rxBus, RxDataInv, RxStreamPlace, RxStored, RxGoesOn, RxLength,
         RxFifoPlace, RxFifoHolds, RxTailHolds, RxGone, RxPut, RxLead, RxOffset,
         RxShift, RxStreamByte, RxMemoryByte, RxBufferWords, RxBufferFirst
    <3> QED BY <3>1, <3>2
  <2> QED BY <2>1, <2>2, <2>3, <2>4 DEF RxNext
<1>3. RxDataInv => RxFrameIsStored
  BY DEF RxDataInv, RxStored, RxLength, RxFrameIsStored
<1> QED BY <1>1, <1>2, <1>3, PTL DEF RxSpec
=============================================================================

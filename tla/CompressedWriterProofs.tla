----------------------- MODULE CompressedWriterProofs -----------------------
(***************************************************************************)
(* Proofs about CompressedWriter for any number of threads, block size and *)
(* length of the stream.                                                   *)
(*                                                                         *)
(* The argument.  The blocks the threads hold are disjoint and end below   *)
(* next_thread_pos; while no error has happened, the blocks not yet        *)
(* written tile the gap between the end of the file and next_thread_pos    *)
(* (Tiled).  So the thread with the smallest position holds exactly the    *)
(* block the file needs next (Turns).  The producer's reservation ends at  *)
(* most one ring size past every position still needed (Reserved), so a    *)
(* copy never lands on such a position (RingIntact).                       *)
(***************************************************************************)
EXTENDS CompressedWriter, FiniteSetTheorems, TLAPS

Busy(t) == tpc[t] \in {"compress", "turn", "write", "wrote"}

Unwritten(t) == tpc[t] \in {"compress", "turn", "write"}

Positions ==
    /\ next_thread_pos <= next_thread_end_pos
    /\ next_thread_end_pos = producer_reserved_pos
    /\ producer_reserved_pos <= producer_reserved_write_pos
    /\ producer_reserved_write_pos <= producer_reserved_upto_pos
    /\ producer_reserved_write_pos + size <= MaxStream

Blocks ==
    \A t \in Threads :
        /\ Busy(t) => /\ thread_pos[t] \in 0 .. MaxStream
                      /\ thread_pos[t] < block_end[t]
                      /\ block_end[t] <= next_thread_pos
        /\ ~Busy(t) => thread_pos[t] = UINT64_MAX

Disjoint ==
    \A t, u \in Threads :
        Busy(t) /\ Busy(u) /\ t # u =>
            \/ block_end[t] <= thread_pos[u]
            \/ block_end[u] <= thread_pos[t]

Reserved ==
    /\ producer_reserved_upto_pos <= next_thread_pos + BufferSize
    /\ \A t \in Threads :
         Busy(t) => producer_reserved_upto_pos <= thread_pos[t] + BufferSize

Turns ==
    \A t \in Threads :
        /\ tpc[t] \in {"write", "wrote"} =>
             \A u \in Threads : thread_pos[t] <= thread_pos[u]
        /\ tpc[t] = "write" => thread_pos[t] = Len(file)
        /\ tpc[t] = "wrote" => block_end[t] = Len(file)

\* p is where the file ends or where a block still to be written ends.
Joint(p) == \/ p = Len(file)
            \/ \E u \in Threads : Unwritten(u) /\ block_end[u] = p

Tiled ==
    ~write_error =>
        /\ Joint(next_thread_pos)
        /\ \A t \in Threads : Unwritten(t) => Joint(thread_pos[t])

\* Positions from .. to - 1 of the stream.
StreamBytes(from, to) == [i \in 1 .. to - from |-> from + i - 1]

Outputs ==
    \A t \in Threads :
        tpc[t] \in {"turn", "write"} =>
            outputbuf[t] = StreamBytes(thread_pos[t], block_end[t])

Ends ==
    /\ closing => ppc \in {"join", "closed"}
    /\ ppc \in {"close", "join", "closed"} =>
         error \/ next_thread_end_pos = producer_reserved_write_pos
    /\ ppc \in {"close", "join"} => size = 0
    /\ ~fd_open => error \/ ppc = "closed"
    /\ \A t \in Threads :
         tpc[t] = "exited" =>
           \/ ~fd_open
           \/ closing /\ (write_error \/ next_thread_pos = next_thread_end_pos)
    /\ ppc = "idle" => size = 0
    /\ ~fd_open => \A t \in Threads : tpc[t] = "exited"
    /\ ppc = "closed" => ~fd_open

IInv == /\ TypeOK /\ Positions /\ Blocks /\ Disjoint /\ Reserved /\ Turns
        /\ Tiled /\ Outputs /\ RingIntact /\ FileIsStreamPrefix /\ Ends
        /\ GoodMeansComplete

-----------------------------------------------------------------------------
\* The ring has room for at least one byte.
LEMMA BufferSizeType == BufferSize \in Nat \ {0}
<1>1. Cardinality(Threads) \in Nat
  BY FS_CardinalityType, ConstantsAssumption
<1>2. QED
  BY <1>1, ConstantsAssumption, SMT DEF BufferSize

\* Euclidean division.
LEMMA DivMod ==
    ASSUME NEW S \in Nat \ {0}, NEW p \in Nat
    PROVE  /\ p \div S \in Nat
           /\ p % S \in 0 .. S - 1
           /\ p = S * (p \div S) + (p % S)
  BY SMT

\* Quotient and remainder are unique.
LEMMA DivModUnique ==
    ASSUME NEW S \in Nat \ {0}, NEW a \in Int, NEW b \in Int,
           NEW r \in 0 .. S - 1, NEW s \in 0 .. S - 1,
           S * a + r = S * b + s
    PROVE  a = b /\ r = s
<1>1. ASSUME NEW k \in Int, k >= 1 PROVE S * k >= S
  BY <1>1, SMT
<1>2. S * (a - b) = s - r
  BY SMT
<1>3. CASE a - b >= 1
  <2>1. S * (a - b) >= S
    BY <1>1, <1>3
  <2>2. QED BY <2>1, <1>2, SMT
<1>4. CASE b - a >= 1
  <2>1. S * (b - a) >= S
    BY <1>1, <1>4
  <2>2. S * (b - a) = r - s
    BY SMT
  <2>3. QED BY <2>1, <2>2, SMT
<1>5. QED BY <1>3, <1>4, SMT

\* Two positions less than one ring size apart have different offsets in the
\* ring, as write() and do_compress() compute them.
LEMMA OffsetsDiffer ==
    ASSUME NEW S \in Nat \ {0}, NEW p \in Nat, NEW q \in Nat,
           p < q, q < p + S
    PROVE  p % S # q % S
<1> SUFFICES ASSUME p % S = q % S PROVE FALSE
  OBVIOUS
<1>1. /\ p \div S \in Nat /\ q \div S \in Nat
      /\ p = S * (p \div S) + (p % S)
      /\ q = S * (q \div S) + (q % S)
      /\ p % S \in 0 .. S - 1 /\ q % S \in 0 .. S - 1
  BY DivMod
<1> DEFINE k == q \div S - p \div S
<1>2. k \in Int /\ q - p = S * k + 0
  BY <1>1, SMT
<1>3. S * 0 + (q - p) = S * k + 0
  BY <1>2, SMT
<1>4. q - p \in 0 .. S - 1 /\ 0 \in 0 .. S - 1
  OBVIOUS
<1> HIDE DEF k
<1>5. q - p = 0
  BY <1>2, <1>3, <1>4, DivModUnique
<1>6. QED BY <1>5

\* Copying forward from an offset without reaching the end of the ring keeps
\* step with the stream position.
LEMMA OffsetAdvances ==
    ASSUME NEW S \in Nat \ {0}, NEW p \in Nat, NEW k \in Nat,
           (p % S) + k < S
    PROVE  (p + k) % S = (p % S) + k
<1>1. PICK m \in Nat : m = p + k
  OBVIOUS
<1>2. /\ p \div S \in Nat /\ m \div S \in Nat
      /\ p = S * (p \div S) + (p % S)
      /\ m = S * (m \div S) + (m % S)
      /\ p % S \in 0 .. S - 1 /\ m % S \in 0 .. S - 1
  BY DivMod
<1>3. S * (p \div S) + ((p % S) + k) = S * (m \div S) + (m % S)
  BY <1>1, <1>2, SMT
<1>4. (p % S) + k \in 0 .. S - 1
  BY <1>2
<1> DEFINE a == p \div S
           b == m \div S
           r == (p % S) + k
           s == m % S
<1>5. a \in Int /\ b \in Int /\ r \in 0 .. S - 1 /\ s \in 0 .. S - 1
  BY <1>2, <1>4
<1>6. S * a + r = S * b + s
  BY <1>3
<1> HIDE DEF a, b, r, s
<1>7. r = s
  BY <1>5, <1>6, DivModUnique
<1>8. QED BY <1>1, <1>7 DEF r, s

-----------------------------------------------------------------------------
USE DEF Producer, NoByte

\* The constructor establishes the invariant.
LEMMA InitIInv == Init => IInv
<1> SUFFICES ASSUME Init PROVE IInv
  OBVIOUS
<1> USE ConstantsAssumption, BufferSizeType DEF Init
<1>1. TypeOK
  BY DEF TypeOK
<1>2. Positions /\ Blocks /\ Disjoint /\ Reserved /\ Turns /\ Outputs
  BY DEF Positions, Blocks, Disjoint, Reserved, Turns, Outputs, Busy
<1>3. Tiled
  BY DEF Tiled, Joint, Unwritten
<1>4. RingIntact /\ FileIsStreamPrefix /\ GoodMeansComplete
  BY DEF RingIntact, Uncompressed, FileIsStreamPrefix, GoodMeansComplete
<1>5. Ends
  <2>1. CASE fd_open
    BY <2>1 DEF Ends
  <2>2. CASE ~fd_open
    BY <2>2 DEF Ends
  <2>3. QED BY <2>1, <2>2
<1>6. QED BY <1>1, <1>2, <1>3, <1>4, <1>5 DEF IInv

\* What one pass of update_reservation()'s loop does: the reservation never
\* shrinks and ends within one ring size of every position still needed.
LEMMA ReservationFacts ==
    ASSUME IInv, NEW wait, NEW resume, NEW others,
           ReservationLoop(wait, resume, others)
    PROVE  /\ producer_reserved_upto_pos' \in Nat
           /\ producer_reserved_upto_pos <= producer_reserved_upto_pos'
           /\ producer_reserved_upto_pos' <= next_thread_pos + BufferSize
           /\ \A t \in Threads : Busy(t) =>
                producer_reserved_upto_pos' <= thread_pos[t] + BufferSize
           /\ error' \in BOOLEAN /\ (error => error')
           /\ ppc' \in {resume, "reserve"}
           /\ ~wait => ppc' = resume
           /\ waiting' \in {others, others \cup {Producer}}
<1> USE ConstantsAssumption, BufferSizeType
<1>0. TypeOK /\ Blocks /\ Reserved
  BY DEF IInv
<1>1. CASE error \/ write_error
  <2>1. /\ error' = TRUE /\ ppc' = resume /\ waiting' = others
        /\ producer_reserved_upto_pos' = producer_reserved_upto_pos
    BY <1>1 DEF ReservationLoop
  <2>2. QED BY <1>0, <2>1 DEF TypeOK, Reserved
<1>2. CASE ~error /\ ~write_error
  <2>1. PICK c \in 0 .. MaxStream :
          /\ IsCompletedPos(c)
          /\ producer_reserved_upto_pos' = c + BufferSize
          /\ IF producer_reserved_pos' < c + BufferSize \/ ~wait
             THEN ppc' = resume /\ waiting' = others
             ELSE ppc' = "reserve" /\ waiting' = others \cup {Producer}
    BY <1>2 DEF ReservationLoop
  <2>2. c <= next_thread_pos /\ \A t \in Threads : c <= thread_pos[t]
    BY <2>1 DEF IsCompletedPos
  <2>3. producer_reserved_upto_pos <= c + BufferSize
    <3>1. CASE c = next_thread_pos
      BY <1>0, <3>1 DEF Reserved
    <3>2. CASE \E t \in Threads : c = thread_pos[t]
      <4>1. PICK t \in Threads : c = thread_pos[t]
        BY <3>2
      <4>2. Busy(t)
        BY <1>0, <4>1 DEF Blocks
      <4>3. QED BY <1>0, <4>1, <4>2 DEF Reserved
    <3>3. QED BY <2>1, <3>1, <3>2 DEF IsCompletedPos
  <2>4. error' = error
    BY <1>2 DEF ReservationLoop
  <2>5. \A t \in Threads : Busy(t) => thread_pos[t] \in 0 .. MaxStream
    BY <1>0 DEF Blocks
  <2>6. QED BY <1>0, <1>2, <2>1, <2>2, <2>3, <2>4, <2>5 DEF TypeOK
<1>3. QED BY <1>1, <1>2

\* The head of the compression thread's loop, reached by a thread that holds
\* no block any more (it held none, wrote it, or drops it after an error),
\* preserves the invariant.
LEMMA LoopHeadInv ==
    ASSUME NEW t \in Threads, NEW werr \in BOOLEAN,
           NEW others \in SUBSET (Threads \cup {Producer})
    PROVE  /\ IInv
           /\ write_error => werr
           /\ tpc[t] \in {"loop", "wrote"} \/ werr
           /\ tpc[t] # "exited"
           /\ LoopHead(t, [thread_pos EXCEPT ![t] = UINT64_MAX], werr, others)
           /\ write_error' = werr
           /\ UNCHANGED <<buffer, next_thread_end_pos, closing, producerV,
                          fileV>>
           /\ outputbuf' \in [Threads -> Seq(Nat \cup {NoByte})]
           /\ \A u \in Threads \ {t} : outputbuf'[u] = outputbuf[u]
           => IInv'
<1> DEFINE dropped == [thread_pos EXCEPT ![t] = UINT64_MAX]
<1>i. SUFFICES ASSUME IInv, LoopHead(t, dropped, werr, others),
                      write_error => werr, write_error' = werr,
                      tpc[t] \in {"loop", "wrote"} \/ werr,
                      tpc[t] # "exited",
                      UNCHANGED <<buffer, next_thread_end_pos, closing,
                                  producerV, fileV>>,
                      outputbuf' \in [Threads -> Seq(Nat \cup {NoByte})],
                      \A u \in Threads \ {t} : outputbuf'[u] = outputbuf[u]
               PROVE  IInv'
  OBVIOUS
<1>t. TypeOK
  BY <1>i DEF IInv
<1>c. /\ Positions /\ Blocks /\ Disjoint /\ Reserved /\ Turns /\ Tiled
      /\ Outputs /\ RingIntact /\ FileIsStreamPrefix /\ Ends
      /\ GoodMeansComplete
  BY <1>i DEF IInv
<1>e. /\ write_error \in BOOLEAN /\ write_error' = werr
      /\ write_error => werr
      /\ tpc[t] \in {"loop", "wrote"} \/ werr
  BY <1>i, <1>t DEF TypeOK
<1>k. /\ next_thread_pos \in Int /\ next_thread_end_pos \in Int
      /\ producer_reserved_write_pos \in Int
      /\ producer_reserved_upto_pos \in Int
      /\ MaxStream \in Int /\ UINT64_MAX \in Int /\ BufferSize \in Int
      /\ next_thread_pos \in 0 .. MaxStream /\ MaxStream < UINT64_MAX
  BY <1>t, ConstantsAssumption, BufferSizeType DEF TypeOK
<1>l. \A u \in Threads : thread_pos[u] \in Int /\ block_end[u] \in Int
  BY <1>t, ConstantsAssumption DEF TypeOK
<1>u. /\ buffer' = buffer /\ next_thread_end_pos' = next_thread_end_pos
      /\ closing' = closing /\ fd_open' = fd_open /\ file' = file
      /\ producer_reserved_pos' = producer_reserved_pos
      /\ producer_reserved_write_pos' = producer_reserved_write_pos
      /\ producer_reserved_upto_pos' = producer_reserved_upto_pos
      /\ error' = error /\ ppc' = ppc /\ size' = size
  BY <1>i DEF producerV, fileV
<1>o. \A u \in Threads \ {t} : outputbuf'[u] = outputbuf[u]
  BY <1>i
<1>g. fd_open /\ fd_open'
  BY <1>c, <1>i, <1>u DEF Ends
<1>f. FileIsStreamPrefix' /\ GoodMeansComplete'
  BY <1>c, <1>u DEF FileIsStreamPrefix, GoodMeansComplete
<1>1. CASE Dispatchable(werr)
  <2>1. /\ thread_pos' = [dropped EXCEPT ![t] = next_thread_pos]
        /\ next_thread_pos' = Least(next_thread_end_pos,
                                    next_thread_pos + BlockSize)
        /\ block_end' = [block_end EXCEPT ![t] = next_thread_pos']
        /\ tpc' = [tpc EXCEPT ![t] = "compress"]
        /\ waiting' = others
    BY <1>i, <1>1 DEF LoopHead
  <2>2. /\ ~werr /\ ~write_error
        /\ next_thread_pos < next_thread_end_pos
    BY <1>e, <1>1 DEF Dispatchable
  <2>3. /\ next_thread_pos < next_thread_pos'
        /\ next_thread_pos' <= next_thread_end_pos
        /\ next_thread_pos' \in 0 .. MaxStream
    BY <1>t, <2>1, <2>2, ConstantsAssumption DEF Least, TypeOK
  <2>4. /\ tpc[t] \in {"loop", "wrote"}
        /\ tpc'[t] = "compress" /\ thread_pos'[t] = next_thread_pos
        /\ block_end'[t] = next_thread_pos'
    BY <1>e, <1>t, <2>1, <2>2 DEF TypeOK
  <2>5. \A u \in Threads \ {t} : /\ tpc'[u] = tpc[u]
                                 /\ thread_pos'[u] = thread_pos[u]
                                 /\ block_end'[u] = block_end[u]
    BY <1>t, <2>1 DEF TypeOK
  <2>b. Busy(t)' /\ \A u \in Threads \ {t} : Busy(u)' <=> Busy(u)
    BY <2>4, <2>5 DEF Busy
  <2>w. ~Unwritten(t) /\ Unwritten(t)'
        /\ \A u \in Threads \ {t} : Unwritten(u)' <=> Unwritten(u)
    BY <2>4, <2>5 DEF Unwritten
  <2>6. TypeOK'
    BY <1>i, <1>t, <1>u, <2>1, <2>3 DEF TypeOK
  <2>7. Positions'
    BY <1>c, <1>t, <1>u, <2>3 DEF Positions, TypeOK
  <2>8. Blocks'
    BY <1>c, <1>k, <1>l, <2>3, <2>4, <2>5, <2>b DEF Blocks
  <2>9. Disjoint'
    BY <1>c, <1>k, <1>l, <2>3, <2>4, <2>5, <2>b DEF Blocks, Disjoint
  <2>10. Reserved'
    <3>1. /\ producer_reserved_upto_pos <= next_thread_pos + BufferSize
          /\ \A u \in Threads : Busy(u) =>
               producer_reserved_upto_pos <= thread_pos[u] + BufferSize
      BY <1>c DEF Reserved
    <3>2. producer_reserved_upto_pos <= next_thread_pos' + BufferSize
      <4>1. ASSUME NEW n \in Int, NEW m \in Int, NEW u \in Int, NEW b \in Int,
                   u <= n + b, n < m
            PROVE  u <= m + b
        BY <4>1
      <4>2. next_thread_pos' \in Int /\ next_thread_pos < next_thread_pos'
        BY <1>k, <2>3
      <4>3. QED BY <1>k, <3>1, <4>1, <4>2, Zenon
    <3>3. \A u \in Threads : Busy(u)' =>
            producer_reserved_upto_pos <= thread_pos'[u] + BufferSize
      BY <2>4, <2>5, <2>b, <3>1
    <3>4. QED BY <1>u, <3>2, <3>3 DEF Reserved, BufferSize
  <2>11. Turns'
    <3>1. \A u \in Threads : tpc[u] \in {"write", "wrote"} => Busy(u)
      BY DEF Busy
    <3>2. \A u \in Threads : Busy(u) => thread_pos[u] < next_thread_pos
      BY <1>c, <1>k, <1>l DEF Blocks
    <3>3. ASSUME NEW u \in Threads, tpc'[u] \in {"write", "wrote"}
          PROVE  u # t /\ tpc'[u] = tpc[u] /\ thread_pos'[u] = thread_pos[u]
                 /\ block_end'[u] = block_end[u]
      BY <2>4, <2>5, <3>3
    <3>4. ASSUME NEW u \in Threads, tpc'[u] \in {"write", "wrote"},
                 NEW v \in Threads
          PROVE  thread_pos'[u] <= thread_pos'[v]
      <4>1. thread_pos[u] <= thread_pos[v]
        BY <1>c, <3>3, <3>4 DEF Turns
      <4>2. thread_pos[u] <= next_thread_pos
        BY <1>k, <1>l, <3>1, <3>2, <3>3, <3>4
      <4>3. QED BY <2>4, <2>5, <3>3, <3>4, <4>1, <4>2
    <3>5. QED BY <1>c, <1>u, <3>3, <3>4 DEF Turns
  <2>12. Tiled'
    <3>1. \A p \in Int :
            Joint(p) => \/ p = Len(file')
                        \/ \E u \in Threads :
                             Unwritten(u)' /\ block_end'[u] = p
      BY <1>u, <2>5, <2>w DEF Joint
    <3>2. (Joint(next_thread_pos))'
      BY <2>4, <2>w DEF Joint
    <3>3. ASSUME NEW u \in Threads, Unwritten(u)'
          PROVE  Joint(thread_pos[u])'
      <4>1. Joint(next_thread_pos) /\ (Unwritten(u) => Joint(thread_pos[u]))
        BY <1>c, <2>2 DEF Tiled
      <4>2. PICK p \in Int : p = thread_pos'[u] /\ Joint(p)
        BY <1>k, <1>l, <2>4, <2>5, <2>w, <3>3, <4>1
      <4>3. QED BY <3>1, <4>2 DEF Joint
    <3>4. QED BY <3>2, <3>3 DEF Tiled
  <2>13. Outputs'
    <3>1. \A u \in Threads : tpc'[u] \in {"turn", "write"} => u # t
      BY <2>4
    <3>2. QED BY <1>c, <1>o, <2>5, <3>1 DEF Outputs, StreamBytes
  <2>14. RingIntact'
    <3>0. producer_reserved_write_pos >= next_thread_pos'
      BY <1>c, <1>t, <2>3 DEF Positions, TypeOK
    <3>1. ASSUME NEW p \in 0 .. MaxStream - 1, Uncompressed(p)'
          PROVE  Uncompressed(p)
      <4>1. CASE next_thread_pos' <= p /\ p < producer_reserved_write_pos
        BY <1>k, <2>3, <4>1 DEF Uncompressed
      <4>2. ASSUME NEW u \in Threads, tpc'[u] = "compress",
                   thread_pos'[u] <= p, p < block_end'[u]
            PROVE  Uncompressed(p)
        <5>1. CASE u = t
          BY <1>k, <2>3, <2>4, <3>0, <4>2, <5>1 DEF Uncompressed
        <5>2. CASE u # t
          BY <2>5, <4>2, <5>2 DEF Uncompressed
        <5>3. QED BY <5>1, <5>2
      <4>3. QED BY <1>u, <3>1, <4>1, <4>2 DEF Uncompressed
    <3>2. QED BY <1>c, <1>u, <3>1 DEF RingIntact, BufferSize
  <2>15. Ends'
    <3>1. \A u \in Threads : tpc'[u] = "exited" => ~fd_open
      BY <1>c, <1>k, <2>2, <2>4, <2>5 DEF Ends
    <3>2. QED BY <1>c, <1>g, <1>u, <3>1 DEF Ends
  <2>16. QED
    BY <1>f, <2>6, <2>7, <2>8, <2>9, <2>10, <2>11, <2>12, <2>13, <2>14,
       <2>15 DEF IInv
<1>2. CASE ~Dispatchable(werr)
  <2>1. /\ thread_pos' = dropped
        /\ next_thread_pos' = next_thread_pos
        /\ block_end' = block_end
        /\ waiting' \in {others, others \cup {t}}
        /\ \/ tpc' = [tpc EXCEPT ![t] = "loop"]
           \/ /\ tpc' = [tpc EXCEPT ![t] = "exited"]
              /\ closing /\ (werr \/ next_thread_pos = next_thread_end_pos)
    BY <1>i, <1>2 DEF LoopHead
  <2>2. tpc'[t] \in {"loop", "exited"} /\ thread_pos'[t] = UINT64_MAX
    BY <1>t, <2>1 DEF TypeOK
  <2>3. \A u \in Threads \ {t} : /\ tpc'[u] = tpc[u]
                                 /\ thread_pos'[u] = thread_pos[u]
    BY <1>t, <2>1 DEF TypeOK
  <2>b. ~Busy(t)' /\ \A u \in Threads \ {t} : Busy(u)' <=> Busy(u)
    BY <2>2, <2>3 DEF Busy
  <2>4. TypeOK'
    <3>1. thread_pos' \in [Threads -> 0 .. MaxStream \cup {UINT64_MAX}]
      BY <1>t, <2>1 DEF TypeOK
    <3>2. waiting' \in SUBSET (Threads \cup {Producer})
      BY <2>1
    <3>3. tpc' \in [Threads ->
              {"loop", "compress", "turn", "write", "wrote", "exited"}]
      BY <1>t, <2>1 DEF TypeOK
    <3>4. QED BY <1>i, <1>t, <1>u, <2>1, <3>1, <3>2, <3>3 DEF TypeOK
  <2>5. Positions'
    BY <1>c, <1>u, <2>1 DEF Positions
  <2>6. Blocks' /\ Disjoint'
    BY <1>c, <2>1, <2>2, <2>3, <2>b DEF Blocks, Disjoint
  <2>7. Outputs'
    <3>1. \A u \in Threads : tpc'[u] \in {"turn", "write"} => u # t
      BY <2>2
    <3>2. QED BY <1>c, <1>o, <2>1, <2>3, <3>1 DEF Outputs, StreamBytes
  <2>8. Reserved'
    BY <1>c, <1>u, <2>1, <2>3, <2>b DEF Reserved, BufferSize
  <2>9. Turns'
    <3>1. \A u \in Threads : tpc'[u] \in {"write", "wrote"} =>
            u # t /\ Busy(u) /\ thread_pos[u] < UINT64_MAX
      BY <1>c, <1>k, <1>l, <2>2, <2>3 DEF Blocks, Busy
    <3>2. ASSUME NEW u \in Threads, tpc'[u] \in {"write", "wrote"},
                 NEW v \in Threads
          PROVE  thread_pos'[u] <= thread_pos'[v]
      <4>1. thread_pos[u] <= thread_pos[v]
        BY <1>c, <2>3, <3>1, <3>2 DEF Turns
      <4>2. thread_pos[u] <= UINT64_MAX
        BY <1>k, <1>l, <3>1, <3>2
      <4>3. QED BY <2>2, <2>3, <3>1, <3>2, <4>1, <4>2
    <3>3. QED BY <1>c, <1>u, <2>1, <2>3, <3>1, <3>2 DEF Turns
  <2>10. Tiled'
    <3>0. SUFFICES ASSUME ~werr PROVE Tiled'
      BY <1>e DEF Tiled
    <3>1. ~Unwritten(t)
      BY <1>e, <3>0 DEF Unwritten
    <3>2. \A u \in Threads : Unwritten(u)' <=> Unwritten(u)
      BY <2>2, <2>3, <3>1 DEF Unwritten
    <3>3. ASSUME NEW p \in Int
          PROVE  Joint(p) => \/ p = Len(file')
                             \/ \E u \in Threads :
                                  Unwritten(u)' /\ block_end'[u] = p
      BY <1>u, <2>1, <3>2 DEF Joint
    <3>4. /\ Joint(next_thread_pos)
          /\ \A u \in Threads : Unwritten(u) => Joint(thread_pos[u])
      BY <1>c, <1>e, <3>0 DEF Tiled
    <3>5. (Joint(next_thread_pos))'
      BY <1>k, <2>1, <3>3, <3>4 DEF Joint
    <3>6. ASSUME NEW u \in Threads, Unwritten(u)'
          PROVE  Joint(thread_pos[u])'
      <4>1. PICK p \in Int : p = thread_pos'[u] /\ Joint(p)
        BY <1>l, <2>3, <3>1, <3>2, <3>4, <3>6
      <4>2. QED BY <3>3, <4>1 DEF Joint
    <3>7. QED BY <3>5, <3>6 DEF Tiled
  <2>11. RingIntact'
    <3>1. ASSUME NEW p \in 0 .. MaxStream - 1, Uncompressed(p)'
          PROVE  Uncompressed(p)
      BY <1>u, <2>1, <2>2, <2>3, <3>1 DEF Uncompressed
    <3>2. QED BY <1>c, <1>u, <3>1 DEF RingIntact, BufferSize
  <2>12. Ends'
    <3>1. ASSUME NEW u \in Threads, tpc'[u] = "exited"
          PROVE  \/ ~fd_open
                 \/ closing /\ (\/ werr
                                \/ next_thread_pos = next_thread_end_pos)
      <4>1. CASE u = t
        BY <1>t, <2>1, <3>1, <4>1 DEF TypeOK
      <4>2. CASE u # t
        BY <1>c, <1>e, <2>3, <3>1, <4>2 DEF Ends
      <4>3. QED BY <4>1, <4>2
    <3>2. \A u \in Threads : tpc'[u] = "exited" =>
            \/ ~fd_open'
            \/ closing' /\ (\/ write_error'
                            \/ next_thread_pos' = next_thread_end_pos')
      BY <1>e, <1>u, <2>1, <3>1
    <3>3. QED BY <1>c, <1>g, <1>u, <3>2 DEF Ends
  <2>13. QED
    BY <1>f, <2>4, <2>5, <2>6, <2>7, <2>8, <2>9, <2>10, <2>11, <2>12
       DEF IInv
<1>3. QED BY <1>1, <1>2

\* The thread no other thread has to write before holds the block that the
\* file needs next.
LEMMA NextToWrite ==
    ASSUME NEW t \in Threads
    PROVE  IInv /\ ~write_error /\ Unwritten(t) /\ ~OtherThreadWriteFirst(t)
           => /\ thread_pos[t] = Len(file)
              /\ \A u \in Threads : thread_pos[t] <= thread_pos[u]
<1>i. SUFFICES ASSUME IInv, ~write_error, Unwritten(t),
                      ~OtherThreadWriteFirst(t)
               PROVE  /\ thread_pos[t] = Len(file)
                      /\ \A u \in Threads : thread_pos[t] <= thread_pos[u]
  OBVIOUS
<1>l. \A u \in Threads : thread_pos[u] \in Int /\ block_end[u] \in Int
  BY <1>i, ConstantsAssumption DEF IInv, TypeOK
<1>1. \A u \in Threads : thread_pos[t] <= thread_pos[u]
  BY <1>i, <1>l DEF OtherThreadWriteFirst
<1>2. Joint(thread_pos[t])
  BY <1>i DEF IInv, Tiled
<1>3. ASSUME NEW u \in Threads, Unwritten(u), block_end[u] = thread_pos[t]
      PROVE  FALSE
  <2>1. Busy(u)
    BY <1>3 DEF Busy, Unwritten
  <2>2. thread_pos[u] < block_end[u]
    BY <1>i, <2>1 DEF IInv, Blocks
  <2>3. QED BY <1>1, <1>3, <1>l, <2>2
<1>4. QED BY <1>1, <1>2, <1>3 DEF Joint

\* Waiting for the turn to write preserves the invariant.
LEMMA AwaitTurnInv ==
    ASSUME NEW t \in Threads
    PROVE  /\ IInv /\ tpc[t] \in {"compress", "turn"} /\ AwaitTurn(t)
           /\ outputbuf' \in [Threads -> Seq(Nat \cup {NoByte})]
           /\ \A u \in Threads \ {t} : outputbuf'[u] = outputbuf[u]
           /\ outputbuf'[t] = StreamBytes(thread_pos[t], block_end[t])
           => IInv'
<1>i. SUFFICES ASSUME IInv, tpc[t] \in {"compress", "turn"}, AwaitTurn(t),
                      outputbuf' \in [Threads -> Seq(Nat \cup {NoByte})],
                      \A u \in Threads \ {t} : outputbuf'[u] = outputbuf[u],
                      outputbuf'[t] = StreamBytes(thread_pos[t], block_end[t])
               PROVE  IInv'
  OBVIOUS
<1>1. CASE write_error
  <2>1. /\ LoopHead(t, [thread_pos EXCEPT ![t] = UINT64_MAX], TRUE, {})
        /\ UNCHANGED <<buffer, next_thread_end_pos, closing, producerV, fileV>>
        /\ write_error' = write_error
    BY <1>i, <1>1 DEF AwaitTurn, FinishBlock
  <2>2. write_error' = TRUE
    BY <1>i, <1>1, <2>1 DEF IInv, TypeOK
  <2>3. QED BY <1>i, <2>1, <2>2, LoopHeadInv
<1>2. CASE ~write_error
  <2>t. TypeOK
    BY <1>i DEF IInv
  <2>c. /\ Positions /\ Blocks /\ Disjoint /\ Reserved /\ Turns /\ Tiled
        /\ Outputs /\ RingIntact /\ FileIsStreamPrefix /\ Ends
        /\ GoodMeansComplete
    BY <1>i DEF IInv
  <2>1. /\ UNCHANGED <<buffer, shared, producerV, block_end, fileV>>
        /\ \/ /\ OtherThreadWriteFirst(t)
              /\ tpc' = [tpc EXCEPT ![t] = "turn"]
              /\ waiting' = waiting \cup {t}
           \/ /\ ~OtherThreadWriteFirst(t)
              /\ tpc' = [tpc EXCEPT ![t] = "write"]
              /\ waiting' = waiting
    BY <1>i, <1>2 DEF AwaitTurn
  <2>u. /\ buffer' = buffer /\ next_thread_end_pos' = next_thread_end_pos
        /\ next_thread_pos' = next_thread_pos /\ thread_pos' = thread_pos
        /\ closing' = closing /\ fd_open' = fd_open /\ file' = file
        /\ producer_reserved_pos' = producer_reserved_pos
        /\ producer_reserved_write_pos' = producer_reserved_write_pos
        /\ producer_reserved_upto_pos' = producer_reserved_upto_pos
        /\ error' = error /\ ppc' = ppc /\ size' = size
        /\ write_error' = write_error /\ block_end' = block_end
    BY <2>1 DEF producerV, fileV, shared
  <2>2. /\ tpc'[t] \in {"turn", "write"}
        /\ tpc'[t] = "write" => ~OtherThreadWriteFirst(t)
        /\ \A u \in Threads \ {t} : tpc'[u] = tpc[u]
        /\ tpc[t] \in {"compress", "turn"}
    BY <1>i, <2>1, <2>t DEF TypeOK
  <2>3. /\ \A u \in Threads : Busy(u)' <=> Busy(u)
        /\ \A u \in Threads : Unwritten(u)' <=> Unwritten(u)
        /\ Unwritten(t)
    BY <2>2 DEF Busy, Unwritten
  <2>4. TypeOK'
    <3>1. waiting' \in SUBSET (Threads \cup {Producer})
      BY <2>1, <2>t DEF TypeOK
    <3>2. tpc' \in [Threads ->
              {"loop", "compress", "turn", "write", "wrote", "exited"}]
      BY <2>1, <2>t DEF TypeOK
    <3>3. QED BY <1>i, <2>t, <2>u, <3>1, <3>2 DEF TypeOK
  <2>5. Positions' /\ Blocks' /\ Disjoint'
    BY <2>3, <2>c, <2>u DEF Positions, Blocks, Disjoint
  <2>6. Reserved'
    BY <2>3, <2>c, <2>u DEF Reserved, BufferSize
  <2>7. Turns'
    <3>1. tpc'[t] = "write" =>
            /\ thread_pos[t] = Len(file)
            /\ \A u \in Threads : thread_pos[t] <= thread_pos[u]
      BY <1>i, <1>2, <2>2, <2>3, NextToWrite
    <3>2. \A u \in Threads \ {t} :
            /\ tpc[u] \in {"write", "wrote"} =>
                 \A v \in Threads : thread_pos[u] <= thread_pos[v]
            /\ tpc[u] = "write" => thread_pos[u] = Len(file)
            /\ tpc[u] = "wrote" => block_end[u] = Len(file)
      BY <2>c DEF Turns
    <3>3. QED BY <2>2, <2>u, <3>1, <3>2 DEF Turns
  <2>8. Tiled'
    <3>1. ASSUME NEW p \in Int
          PROVE  Joint(p) => \/ p = Len(file')
                             \/ \E u \in Threads :
                                  Unwritten(u)' /\ block_end'[u] = p
      BY <2>3, <2>u DEF Joint
    <3>2. next_thread_pos \in Int /\ \A u \in Threads : thread_pos[u] \in Int
      BY <2>t, ConstantsAssumption DEF TypeOK
    <3>3. /\ Joint(next_thread_pos)
          /\ \A u \in Threads : Unwritten(u) => Joint(thread_pos[u])
      BY <1>2, <2>c DEF Tiled
    <3>4. (Joint(next_thread_pos))'
      BY <2>u, <3>1, <3>2, <3>3 DEF Joint
    <3>5. ASSUME NEW u \in Threads, Unwritten(u)'
          PROVE  Joint(thread_pos[u])'
      <4>1. PICK p \in Int : p = thread_pos'[u] /\ Joint(p)
        BY <2>3, <2>u, <3>2, <3>3, <3>5
      <4>2. QED BY <3>1, <4>1 DEF Joint
    <3>6. QED BY <3>4, <3>5 DEF Tiled
  <2>9. Outputs'
    <3>1. \A u \in Threads \ {t} : tpc[u] \in {"turn", "write"} =>
            outputbuf[u] = StreamBytes(thread_pos[u], block_end[u])
      BY <2>c DEF Outputs
    <3>2. ASSUME NEW u \in Threads, tpc'[u] \in {"turn", "write"}
          PROVE  outputbuf'[u] = StreamBytes(thread_pos[u], block_end[u])
      <4>1. CASE u = t
        BY <1>i, <4>1
      <4>2. CASE u # t
        BY <1>i, <2>2, <3>1, <3>2, <4>2
      <4>3. QED BY <4>1, <4>2
    <3>3. QED BY <2>u, <3>2 DEF Outputs, StreamBytes
  <2>10. RingIntact'
    <3>1. ASSUME NEW p \in 0 .. MaxStream - 1, Uncompressed(p)'
          PROVE  Uncompressed(p)
      BY <2>2, <2>u, <3>1 DEF Uncompressed
    <3>2. QED BY <2>c, <2>u, <3>1 DEF RingIntact, BufferSize
  <2>11. FileIsStreamPrefix' /\ GoodMeansComplete'
    BY <2>c, <2>u DEF FileIsStreamPrefix, GoodMeansComplete
  <2>12. Ends'
    <3>1. \A u \in Threads : tpc'[u] = "exited" => tpc[u] = "exited"
      BY <2>2
    <3>2. fd_open
      BY <1>i, <2>c DEF Ends
    <3>3. QED BY <2>c, <2>u, <3>1, <3>2 DEF Ends
  <2>13. QED
    BY <2>4, <2>5, <2>6, <2>7, <2>8, <2>9, <2>10, <2>11, <2>12 DEF IInv
<1>3. QED BY <1>1, <1>2

\* write_all() appends exactly the block the file needs next.
LEMMA WriteAllInv ==
    ASSUME NEW t \in Threads
    PROVE  IInv /\ WriteAll(t) => IInv'
<1>i. SUFFICES ASSUME IInv, WriteAll(t) PROVE IInv'
  OBVIOUS
<1>t. TypeOK
  BY <1>i DEF IInv
<1>c. /\ Positions /\ Blocks /\ Disjoint /\ Reserved /\ Turns /\ Tiled
      /\ Outputs /\ RingIntact /\ FileIsStreamPrefix /\ Ends
      /\ GoodMeansComplete
  BY <1>i DEF IInv
<1>u. /\ buffer' = buffer /\ next_thread_end_pos' = next_thread_end_pos
      /\ next_thread_pos' = next_thread_pos /\ thread_pos' = thread_pos
      /\ closing' = closing /\ fd_open' = fd_open /\ outputbuf' = outputbuf
      /\ producer_reserved_pos' = producer_reserved_pos
      /\ producer_reserved_write_pos' = producer_reserved_write_pos
      /\ producer_reserved_upto_pos' = producer_reserved_upto_pos
      /\ error' = error /\ ppc' = ppc /\ size' = size /\ waiting' = waiting
      /\ write_error' = write_error /\ block_end' = block_end
  BY <1>i DEF WriteAll, producerV, shared
<1>1. /\ tpc[t] = "write" /\ file' = file \o outputbuf[t]
      /\ tpc' = [tpc EXCEPT ![t] = "wrote"]
  BY <1>i DEF WriteAll
<1>l. /\ \A u \in Threads : thread_pos[u] \in Int /\ block_end[u] \in Int
      /\ next_thread_pos \in Int
  BY <1>t, ConstantsAssumption DEF TypeOK
<1>2. tpc'[t] = "wrote" /\ \A u \in Threads \ {t} : tpc'[u] = tpc[u]
  BY <1>1, <1>t DEF TypeOK
<1>b. \A u \in Threads : Busy(u)' <=> Busy(u)
  BY <1>1, <1>2 DEF Busy
<1>w. /\ Unwritten(t) /\ ~Unwritten(t)'
      /\ \A u \in Threads \ {t} : Unwritten(u)' <=> Unwritten(u)
  BY <1>1, <1>2 DEF Unwritten
<1>3. PICK from, to \in Nat :
        /\ from = thread_pos[t] /\ to = block_end[t] /\ from < to
        /\ from = Len(file)
  BY <1>1, <1>c, <1>t, ConstantsAssumption DEF Blocks, Busy, Turns, TypeOK
<1>4. outputbuf[t] = StreamBytes(from, to)
  BY <1>1, <1>3, <1>c DEF Outputs
<1>5. file \in Seq(Nat \cup {NoByte}) /\ outputbuf[t] \in Seq(Nat \cup {NoByte})
  BY <1>t DEF TypeOK
<1>6. /\ Len(outputbuf[t]) = to - from
      /\ \A i \in 1 .. to - from : outputbuf[t][i] = from + i - 1
  BY <1>3, <1>4, <1>5 DEF StreamBytes
<1>7. Len(file') = to /\ file' \in Seq(Nat \cup {NoByte})
  <2>1. Len(file \o outputbuf[t]) = Len(file) + Len(outputbuf[t])
    BY <1>5
  <2>2. file \o outputbuf[t] \in Seq(Nat \cup {NoByte})
    BY <1>5
  <2>3. from + (to - from) = to
    BY <1>3
  <2>4. QED BY <1>1, <1>3, <1>6, <2>1, <2>2, <2>3, Zenon
<1>8. TypeOK'
  <2>1. tpc' \in [Threads ->
              {"loop", "compress", "turn", "write", "wrote", "exited"}]
    BY <1>1, <1>t DEF TypeOK
  <2>2. QED BY <1>t, <1>u, <1>7, <2>1 DEF TypeOK
<1>9. Positions' /\ Blocks' /\ Disjoint'
  BY <1>b, <1>c, <1>u DEF Positions, Blocks, Disjoint
<1>10. Reserved'
  BY <1>b, <1>c, <1>u DEF Reserved, BufferSize
<1>o. \A u \in Threads \ {t} : tpc[u] \notin {"write", "wrote"}
  <2>1. ASSUME NEW u \in Threads \ {t}, tpc[u] \in {"write", "wrote"}
        PROVE  FALSE
    <3>1. Busy(u) /\ Busy(t)
      BY <1>1, <2>1 DEF Busy
    <3>2. thread_pos[t] <= thread_pos[u] /\ thread_pos[u] <= thread_pos[t]
      BY <1>1, <1>c, <2>1 DEF Turns
    <3>3. thread_pos[t] < block_end[t] /\ thread_pos[u] < block_end[u]
      BY <1>c, <3>1 DEF Blocks
    <3>4. block_end[t] <= thread_pos[u] \/ block_end[u] <= thread_pos[t]
      BY <1>c, <2>1, <3>1 DEF Disjoint
    <3>5. QED BY <1>l, <3>2, <3>3, <3>4
  <2>2. QED BY <2>1
<1>11. Turns'
  <2>1. \A u \in Threads : tpc'[u] \in {"write", "wrote"} => u = t
    BY <1>2, <1>o
  <2>2. \A v \in Threads : thread_pos[t] <= thread_pos[v]
    BY <1>1, <1>c DEF Turns
  <2>3. QED BY <1>2, <1>3, <1>7, <1>u, <2>1, <2>2 DEF Turns
<1>12. Tiled'
  <2>0. SUFFICES ASSUME ~write_error PROVE Tiled'
    BY <1>u DEF Tiled
  <2>1. ASSUME NEW p \in Int, p # from, Joint(p)
        PROVE  \/ p = Len(file')
               \/ \E u \in Threads : Unwritten(u)' /\ block_end'[u] = p
    BY <1>3, <1>7, <1>u, <1>w, <2>1 DEF Joint
  <2>2. /\ Joint(next_thread_pos)
        /\ \A u \in Threads : Unwritten(u) => Joint(thread_pos[u])
    BY <1>c, <2>0 DEF Tiled
  <2>3. Busy(t)
    BY <1>1 DEF Busy
  <2>4. next_thread_pos # from
    BY <1>3, <1>c, <1>l, <2>3 DEF Blocks
  <2>5. (Joint(next_thread_pos))'
    BY <1>l, <1>u, <2>1, <2>2, <2>4 DEF Joint
  <2>6. ASSUME NEW u \in Threads, Unwritten(u)'
        PROVE  Joint(thread_pos[u])'
    <3>1. u # t /\ Unwritten(u) /\ Busy(u)
      BY <1>w, <2>6 DEF Unwritten, Busy
    <3>2. thread_pos[u] # from
      <4>1. thread_pos[t] < block_end[t] /\ thread_pos[u] < block_end[u]
        BY <1>c, <2>3, <3>1 DEF Blocks
      <4>2. block_end[t] <= thread_pos[u] \/ block_end[u] <= thread_pos[t]
        BY <1>c, <2>3, <3>1 DEF Disjoint
      <4>3. QED BY <1>3, <1>l, <4>1, <4>2
    <3>3. PICK p \in Int : p = thread_pos'[u] /\ Joint(p) /\ p # from
      BY <1>l, <1>u, <2>2, <3>1, <3>2
    <3>4. QED BY <2>1, <3>3 DEF Joint
  <2>7. QED BY <2>5, <2>6 DEF Tiled
<1>13. Outputs'
  <2>1. ASSUME NEW u \in Threads, tpc'[u] \in {"turn", "write"}
        PROVE  outputbuf'[u] = StreamBytes(thread_pos[u], block_end[u])
    BY <1>2, <1>c, <1>u, <2>1 DEF Outputs
  <2>2. QED BY <1>u, <2>1 DEF Outputs, StreamBytes
<1>14. RingIntact'
  <2>1. ASSUME NEW p \in 0 .. MaxStream - 1, Uncompressed(p)'
        PROVE  Uncompressed(p)
    BY <1>2, <1>u, <2>1 DEF Uncompressed
  <2>2. QED BY <1>c, <1>u, <2>1 DEF RingIntact, BufferSize
<1>15. FileIsStreamPrefix'
  <2>1. ASSUME NEW i \in 1 .. to PROVE file'[i] = i - 1
    <3>1. CASE i <= from
      BY <1>1, <1>3, <1>5, <1>c, <2>1, <3>1 DEF FileIsStreamPrefix
    <3>2. CASE i > from
      <4>1. file'[i] = outputbuf[t][i - from]
        BY <1>1, <1>3, <1>5, <1>6, <2>1, <3>2
      <4>2. i - from \in 1 .. to - from
        BY <1>3, <2>1, <3>2
      <4>3. QED BY <1>6, <1>3, <2>1, <4>1, <4>2
    <3>3. QED BY <1>3, <2>1, <3>1, <3>2
  <2>2. QED BY <1>7, <2>1 DEF FileIsStreamPrefix
<1>16. Ends'
  <2>1. \A u \in Threads : tpc'[u] = "exited" => tpc[u] = "exited"
    BY <1>2
  <2>2. fd_open
    BY <1>1, <1>c DEF Ends
  <2>3. QED BY <1>c, <1>u, <2>1, <2>2 DEF Ends
<1>17. GoodMeansComplete'
  <2>1. fd_open
    BY <1>1, <1>c DEF Ends
  <2>2. ppc # "closed"
    BY <1>c, <2>1 DEF Ends
  <2>3. QED BY <1>u, <2>2 DEF GoodMeansComplete
<1>18. QED
  BY <1>8, <1>9, <1>10, <1>11, <1>12, <1>13, <1>14, <1>15, <1>16, <1>17 DEF IInv

\* A thread in compress, turn or wrote goes on: each of its steps preserves
\* the invariant.
LEMMA ThreadInv ==
    ASSUME NEW t \in Threads
    PROVE  IInv /\ Thread(t) => IInv'
<1>i. SUFFICES ASSUME IInv, Thread(t) PROVE IInv'
  OBVIOUS
<1>t. TypeOK
  BY <1>i DEF IInv
<1>c. Blocks /\ Outputs /\ RingIntact /\ Positions
  BY <1>i DEF IInv
<1>d. ASSUME NEW werr \in BOOLEAN, write_error => werr, write_error' = werr,
             tpc[t] \in {"loop", "wrote"} \/ werr, tpc[t] # "exited",
             FinishBlock(t, werr), outputbuf' = outputbuf
      PROVE  IInv'
  <2>1. /\ LoopHead(t, [thread_pos EXCEPT ![t] = UINT64_MAX], werr, {})
        /\ UNCHANGED <<buffer, next_thread_end_pos, closing, producerV, fileV>>
    BY <1>d DEF FinishBlock
  <2>2. /\ outputbuf' \in [Threads -> Seq(Nat \cup {NoByte})]
        /\ \A u \in Threads \ {t} : outputbuf'[u] = outputbuf[u]
    BY <1>d, <1>t DEF TypeOK
  <2>3. QED BY <1>i, <1>d, <2>1, <2>2, LoopHeadInv
<1>1. CASE ThreadLoop(t)
  <2>1. /\ tpc[t] = "loop" /\ LoopHead(t, thread_pos, write_error, waiting)
        /\ UNCHANGED <<buffer, next_thread_end_pos, closing, producerV, fileV>>
        /\ write_error' = write_error /\ outputbuf' = outputbuf
    BY <1>1 DEF ThreadLoop
  <2>2. thread_pos[t] = UINT64_MAX
    BY <1>c, <2>1 DEF Blocks, Busy
  <2>3. thread_pos = [thread_pos EXCEPT ![t] = UINT64_MAX]
    BY <1>t, <2>2 DEF TypeOK
  <2>4. LoopHead(t, [thread_pos EXCEPT ![t] = UINT64_MAX], write_error, waiting)
    BY <2>1, <2>3
  <2>5. write_error \in BOOLEAN /\ waiting \in SUBSET (Threads \cup {Producer})
    BY <1>t DEF TypeOK
  <2>6. /\ outputbuf' \in [Threads -> Seq(Nat \cup {NoByte})]
        /\ \A u \in Threads \ {t} : outputbuf'[u] = outputbuf[u]
    BY <1>t, <2>1 DEF TypeOK
  <2>7. QED BY <1>i, <2>1, <2>4, <2>5, <2>6, LoopHeadInv
<1>2. CASE Compressed(t)
  <2>1. /\ tpc[t] = "compress" /\ AwaitTurn(t)
        /\ outputbuf' = [outputbuf EXCEPT
                           ![t] = BlockBytes(thread_pos[t], block_end[t])]
    BY <1>2 DEF Compressed
  <2>2. PICK from, to \in 0 .. MaxStream :
          /\ from = thread_pos[t] /\ to = block_end[t] /\ from < to
          /\ to <= next_thread_pos
    BY <1>c, <1>t, <2>1 DEF Blocks, Busy, TypeOK
  <2>3. \A i \in 1 .. to - from :
          buffer[(from + i - 1) % BufferSize] = from + i - 1
    <3>1. ASSUME NEW i \in 1 .. to - from
          PROVE  buffer[(from + i - 1) % BufferSize] = from + i - 1
      <4>1. PICK p \in 0 .. MaxStream - 1 : p = from + i - 1 /\ from <= p /\ p < to
        BY <2>2, <3>1, ConstantsAssumption
      <4>2. Uncompressed(p)
        BY <2>1, <2>2, <4>1 DEF Uncompressed
      <4>3. QED BY <1>c, <4>1, <4>2 DEF RingIntact
    <3>2. QED BY <3>1
  <2>4. BlockBytes(from, to) = StreamBytes(from, to)
    BY <2>3 DEF BlockBytes, StreamBytes
  <2>5. StreamBytes(from, to) \in Seq(Nat \cup {NoByte})
    <3>1. to - from \in Nat /\ \A i \in 1 .. to - from : from + i - 1 \in Nat
      BY <2>2, ConstantsAssumption
    <3>2. QED BY <3>1 DEF StreamBytes
  <2>6. /\ outputbuf' \in [Threads -> Seq(Nat \cup {NoByte})]
        /\ \A u \in Threads \ {t} : outputbuf'[u] = outputbuf[u]
        /\ outputbuf'[t] = StreamBytes(thread_pos[t], block_end[t])
    BY <1>t, <2>1, <2>2, <2>4, <2>5 DEF TypeOK
  <2>7. QED BY <1>i, <2>1, <2>6, AwaitTurnInv
<1>3. CASE CompressFailed(t)
  <2>1. /\ tpc[t] = "compress" /\ write_error' = TRUE
        /\ FinishBlock(t, TRUE) /\ outputbuf' = outputbuf
    BY <1>3 DEF CompressFailed
  <2>2. QED BY <1>d, <2>1
<1>4. CASE Turn(t)
  <2>1. tpc[t] = "turn" /\ AwaitTurn(t) /\ outputbuf' = outputbuf
    BY <1>4 DEF Turn
  <2>2. /\ outputbuf' \in [Threads -> Seq(Nat \cup {NoByte})]
        /\ \A u \in Threads \ {t} : outputbuf'[u] = outputbuf[u]
    BY <1>t, <2>1 DEF TypeOK
  <2>3. outputbuf'[t] = StreamBytes(thread_pos[t], block_end[t])
    BY <1>c, <2>1 DEF Outputs
  <2>4. QED BY <1>i, <2>1, <2>2, <2>3, AwaitTurnInv
<1>5. CASE WriteAll(t)
  BY <1>i, <1>5, WriteAllInv
<1>6. CASE Wrote(t)
  <2>1. write_error \in BOOLEAN
    BY <1>t DEF TypeOK
  <2>2. /\ tpc[t] = "wrote" /\ FinishBlock(t, write_error)
        /\ write_error' = write_error /\ outputbuf' = outputbuf
    BY <1>6 DEF Wrote
  <2>3. QED BY <1>d, <2>1, <2>2
<1>7. QED BY <1>i, <1>1, <1>2, <1>3, <1>4, <1>5, <1>6 DEF Thread

\* A step that leaves the threads, the dispatcher and the file alone preserves
\* what the invariant says of them.
LEMMA ThreadsUntouched ==
    IInv /\ UNCHANGED <<threadV, thread_pos, next_thread_pos, write_error, file>>
    => Blocks' /\ Disjoint' /\ Turns' /\ Tiled' /\ Outputs' /\ FileIsStreamPrefix'
<1>i. SUFFICES ASSUME IInv, UNCHANGED <<threadV, thread_pos, next_thread_pos,
                                        write_error, file>>
               PROVE  /\ Blocks' /\ Disjoint' /\ Turns' /\ Tiled' /\ Outputs'
                      /\ FileIsStreamPrefix'
  OBVIOUS
<1>u. /\ tpc' = tpc /\ block_end' = block_end /\ outputbuf' = outputbuf
      /\ thread_pos' = thread_pos /\ next_thread_pos' = next_thread_pos
      /\ write_error' = write_error /\ file' = file
  BY <1>i DEF threadV
<1>c. Blocks /\ Disjoint /\ Turns /\ Tiled /\ Outputs /\ FileIsStreamPrefix
  BY <1>i DEF IInv
<1>1. Blocks' /\ Disjoint' /\ Turns'
  BY <1>c, <1>u DEF Blocks, Disjoint, Turns, Busy
<1>2. Tiled'
  BY <1>c, <1>u DEF Tiled, Joint, Unwritten
<1>3. Outputs' /\ FileIsStreamPrefix'
  BY <1>c, <1>u DEF Outputs, StreamBytes, FileIsStreamPrefix
<1>4. QED BY <1>1, <1>2, <1>3

\* update_reservation(), and each later pass of its loop, preserve the
\* invariant.
LEMMA ReservationInv ==
    ASSUME NEW wait \in BOOLEAN, NEW resume \in {"write", "idle", "close"},
           NEW others \in SUBSET (Threads \cup {Producer})
    PROVE  /\ IInv
           /\ ReservationLoop(wait, resume, others)
           /\ next_thread_end_pos' = producer_reserved_pos'
           /\ producer_reserved_pos' \in
                {producer_reserved_pos, producer_reserved_write_pos}
           /\ ppc \in {"idle", "write", "reserve"}
           /\ wait => resume = "write"
           /\ resume = "idle" => size' = 0
           /\ resume = "close" => /\ size' = 0 /\ fd_open
                                  /\ producer_reserved_pos' =
                                       producer_reserved_write_pos
           /\ size' \in {0, size}
           /\ UNCHANGED <<buffer, thread_pos, next_thread_pos, closing,
                          write_error, producer_reserved_write_pos, threadV,
                          fileV>>
           => IInv'
<1>i. SUFFICES ASSUME IInv, ReservationLoop(wait, resume, others),
                      next_thread_end_pos' = producer_reserved_pos',
                      producer_reserved_pos' \in
                        {producer_reserved_pos, producer_reserved_write_pos},
                      ppc \in {"idle", "write", "reserve"},
                      wait => resume = "write",
                      resume = "idle" => size' = 0,
                      resume = "close" =>
                        /\ size' = 0 /\ fd_open
                        /\ producer_reserved_pos' = producer_reserved_write_pos,
                      size' \in {0, size},
                      UNCHANGED <<buffer, thread_pos, next_thread_pos, closing,
                                  write_error, producer_reserved_write_pos,
                                  threadV, fileV>>
               PROVE  IInv'
  OBVIOUS
<1>t. TypeOK
  BY <1>i DEF IInv
<1>c. Positions /\ Blocks /\ Reserved /\ RingIntact /\ Ends
  BY <1>i DEF IInv
<1>u. /\ buffer' = buffer /\ thread_pos' = thread_pos
      /\ next_thread_pos' = next_thread_pos /\ closing' = closing
      /\ write_error' = write_error
      /\ producer_reserved_write_pos' = producer_reserved_write_pos
      /\ tpc' = tpc /\ block_end' = block_end /\ outputbuf' = outputbuf
      /\ fd_open' = fd_open /\ file' = file
  BY <1>i DEF threadV, fileV
<1>r. /\ producer_reserved_upto_pos' \in Nat
      /\ producer_reserved_upto_pos <= producer_reserved_upto_pos'
      /\ producer_reserved_upto_pos' <= next_thread_pos + BufferSize
      /\ \A t \in Threads : Busy(t) =>
           producer_reserved_upto_pos' <= thread_pos[t] + BufferSize
      /\ error' \in BOOLEAN /\ (error => error')
      /\ ppc' \in {resume, "reserve"}
      /\ ~wait => ppc' = resume
      /\ waiting' \in {others, others \cup {Producer}}
  BY <1>i, ReservationFacts
<1>p. /\ ppc \in {"idle", "write", "reserve"}
      /\ ppc' \in {"idle", "write", "close", "reserve"}
      /\ ppc' = "idle" => size' = 0
      /\ ppc' = "close" => /\ size' = 0 /\ fd_open
                           /\ producer_reserved_pos' =
                                producer_reserved_write_pos
      /\ next_thread_end_pos' = producer_reserved_pos'
      /\ producer_reserved_pos' \in
           {producer_reserved_pos, producer_reserved_write_pos}
      /\ size' \in {0, size}
  BY <1>i, <1>r
<1>1. TypeOK'
  <2>1. waiting' \in SUBSET (Threads \cup {Producer})
    BY <1>r
  <2>2. /\ producer_reserved_pos' \in 0 .. MaxStream
        /\ next_thread_end_pos' \in 0 .. MaxStream
        /\ size' \in 0 .. MaxWrite
    BY <1>p, <1>t, ConstantsAssumption DEF TypeOK
  <2>3. QED BY <1>p, <1>r, <1>t, <1>u, <2>1, <2>2 DEF TypeOK
<1>2. Positions'
  <2>1. /\ next_thread_pos \in Int /\ next_thread_end_pos \in Int
        /\ producer_reserved_pos \in Int /\ producer_reserved_write_pos \in Int
        /\ producer_reserved_upto_pos \in Int /\ size \in Nat /\ MaxStream \in Int
        /\ producer_reserved_upto_pos' \in Int
    BY <1>r, <1>t, ConstantsAssumption DEF TypeOK
  <2>2. /\ next_thread_pos <= next_thread_end_pos
        /\ next_thread_end_pos = producer_reserved_pos
        /\ producer_reserved_pos <= producer_reserved_write_pos
        /\ producer_reserved_write_pos <= producer_reserved_upto_pos
        /\ producer_reserved_write_pos + size <= MaxStream
    BY <1>c DEF Positions
  <2>3. /\ next_thread_pos <= producer_reserved_pos'
        /\ producer_reserved_pos' <= producer_reserved_write_pos
    BY <1>p, <2>1, <2>2
  <2>4. producer_reserved_write_pos <= producer_reserved_upto_pos'
    BY <1>r, <2>1, <2>2
  <2>5. producer_reserved_write_pos + size' <= MaxStream
    <3>1. CASE size' = size
      BY <2>2, <3>1
    <3>2. CASE size' = 0
      <4>1. producer_reserved_write_pos + 0 <= MaxStream
        BY <2>1, <2>2
      <4>2. QED BY <3>2, <4>1
    <3>3. QED BY <1>p, <3>1, <3>2
  <2>6. QED BY <1>p, <1>u, <2>3, <2>4, <2>5 DEF Positions
<1>3. Reserved'
  BY <1>r, <1>u DEF Reserved, BufferSize, Busy
<1>4. RingIntact'
  BY <1>c, <1>u DEF RingIntact, Uncompressed, BufferSize
<1>5. /\ Blocks' /\ Disjoint' /\ Turns' /\ Tiled' /\ Outputs'
      /\ FileIsStreamPrefix'
  BY <1>i, ThreadsUntouched DEF fileV
<1>6. Ends'
  <2>1. ~closing /\ (~fd_open => error')
    BY <1>c, <1>p, <1>r DEF Ends
  <2>2. \A t \in Threads : tpc[t] = "exited" => ~fd_open
    BY <1>c, <2>1 DEF Ends
  <2>3. ~fd_open => \A t \in Threads : tpc[t] = "exited"
    BY <1>c DEF Ends
  <2>4. QED BY <1>p, <1>u, <2>1, <2>2, <2>3 DEF Ends
<1>7. GoodMeansComplete'
  BY <1>p DEF GoodMeansComplete
<1>8. QED BY <1>1, <1>2, <1>3, <1>4, <1>5, <1>6, <1>7 DEF IInv

\* A step of the producer that only moves its program counter, or of the
\* sleepers, keeps the data part of the invariant.
LEMMA DataUntouched ==
    /\ IInv
    /\ UNCHANGED <<buffer, thread_pos, next_thread_pos, next_thread_end_pos,
                   write_error, producer_reserved_pos,
                   producer_reserved_write_pos, producer_reserved_upto_pos,
                   threadV, file>>
    => /\ Blocks' /\ Disjoint' /\ Turns' /\ Tiled' /\ Outputs'
       /\ FileIsStreamPrefix' /\ Reserved' /\ RingIntact'
<1>i. SUFFICES ASSUME IInv,
                      UNCHANGED <<buffer, thread_pos, next_thread_pos,
                        next_thread_end_pos, write_error, producer_reserved_pos,
                        producer_reserved_write_pos, producer_reserved_upto_pos,
                        threadV, file>>
               PROVE  /\ Blocks' /\ Disjoint' /\ Turns' /\ Tiled' /\ Outputs'
                      /\ FileIsStreamPrefix' /\ Reserved' /\ RingIntact'
  OBVIOUS
<1>1. Blocks' /\ Disjoint' /\ Turns' /\ Tiled' /\ Outputs' /\ FileIsStreamPrefix'
  BY <1>i, ThreadsUntouched
<1>u. /\ tpc' = tpc /\ block_end' = block_end /\ buffer' = buffer
      /\ thread_pos' = thread_pos /\ next_thread_pos' = next_thread_pos
      /\ producer_reserved_write_pos' = producer_reserved_write_pos
      /\ producer_reserved_upto_pos' = producer_reserved_upto_pos
  BY <1>i DEF threadV
<1>2. Reserved'
  BY <1>i, <1>u DEF IInv, Reserved, BufferSize, Busy
<1>3. RingIntact'
  BY <1>i, <1>u DEF IInv, RingIntact, Uncompressed, BufferSize
<1>4. QED BY <1>1, <1>2, <1>3

\* write() copies only into the part of the ring nobody needs any more.
LEMMA WriteCopyInv == IInv /\ WriteCopy => IInv'
<1>i. SUFFICES ASSUME IInv, WriteCopy PROVE IInv'
  OBVIOUS
<1> DEFINE pos == producer_reserved_write_pos
           offset == pos % BufferSize
<1>t. TypeOK
  BY <1>i DEF IInv
<1>c. Positions /\ Blocks /\ Reserved /\ RingIntact /\ Ends /\ GoodMeansComplete
  BY <1>i DEF IInv
<1>u. /\ thread_pos' = thread_pos /\ next_thread_pos' = next_thread_pos
      /\ next_thread_end_pos' = next_thread_end_pos /\ closing' = closing
      /\ write_error' = write_error /\ error' = error /\ ppc' = ppc
      /\ producer_reserved_pos' = producer_reserved_pos
      /\ producer_reserved_upto_pos' = producer_reserved_upto_pos
      /\ waiting' = waiting /\ tpc' = tpc /\ block_end' = block_end
      /\ outputbuf' = outputbuf /\ fd_open' = fd_open /\ file' = file
      /\ ppc = "write" /\ ~error
  BY <1>i DEF WriteCopy, shared, threadV, fileV
<1>1. PICK amount \in 1 .. MaxWrite :
        /\ CopyAmount(amount, BufferSize - offset,
                      producer_reserved_upto_pos - pos)
        /\ buffer' = [o \in 0 .. BufferSize - 1 |->
                        IF offset <= o /\ o < offset + amount
                        THEN pos + (o - offset) ELSE buffer[o]]
        /\ producer_reserved_write_pos' = pos + amount
        /\ size' = size - amount
  BY <1>i DEF WriteCopy
<1>2. /\ amount <= BufferSize - offset
      /\ amount <= producer_reserved_upto_pos - pos /\ amount <= size
  BY <1>1 DEF CopyAmount
<1>k. /\ amount \in Nat /\ pos \in Nat /\ size \in Nat /\ MaxStream \in Nat
      /\ producer_reserved_upto_pos \in Nat /\ next_thread_pos \in Nat
      /\ producer_reserved_pos \in Nat /\ next_thread_end_pos \in Nat
      /\ size <= MaxWrite /\ pos + size <= MaxStream /\ MaxWrite \in Nat
  BY <1>c, <1>t, ConstantsAssumption DEF TypeOK, Positions
<1>o. offset \in 0 .. BufferSize - 1 /\ BufferSize \in Nat \ {0}
  BY <1>k, BufferSizeType, DivMod
<1>3. TypeOK'
  <2>1. buffer' \in [0 .. BufferSize - 1 -> Nat \cup {NoByte}]
    <3>1. ASSUME NEW o \in 0 .. BufferSize - 1
          PROVE  (IF offset <= o /\ o < offset + amount
                  THEN pos + (o - offset) ELSE buffer[o]) \in Nat \cup {NoByte}
      <4>1. buffer[o] \in Nat \cup {NoByte}
        BY <1>t DEF TypeOK
      <4>2. offset <= o => pos + (o - offset) \in Nat
        BY <1>k, <1>o
      <4>3. QED BY <4>1, <4>2
    <3>2. QED BY <1>1, <3>1
  <2>2. producer_reserved_write_pos' \in 0 .. MaxStream
    BY <1>1, <1>2, <1>k
  <2>3. size' \in 0 .. MaxWrite
    BY <1>1, <1>2, <1>k
  <2>4. QED BY <1>t, <1>u, <2>1, <2>2, <2>3 DEF TypeOK, BufferSize
<1>4. Positions'
  <2>1. /\ next_thread_pos <= next_thread_end_pos
        /\ next_thread_end_pos = producer_reserved_pos
        /\ producer_reserved_pos <= pos
        /\ pos + size <= MaxStream
    BY <1>c DEF Positions
  <2>2. /\ producer_reserved_pos <= pos + amount
        /\ pos + amount <= producer_reserved_upto_pos
        /\ (pos + amount) + (size - amount) <= MaxStream
    BY <1>2, <1>k, <2>1
  <2>3. QED BY <1>1, <1>u, <2>1, <2>2 DEF Positions
<1>5. Reserved'
  BY <1>c, <1>u DEF Reserved, BufferSize, Busy
<1>6. /\ Blocks' /\ Disjoint' /\ Turns' /\ Tiled' /\ Outputs'
      /\ FileIsStreamPrefix'
  BY <1>i, <1>u, ThreadsUntouched DEF threadV
<1>7. RingIntact'
  <2>1. ASSUME NEW p \in 0 .. MaxStream - 1, Uncompressed(p)'
        PROVE  buffer'[p % BufferSize] = p
    <3>0. PICK q \in Nat : q = p
      BY <1>k
    <3>1. p % BufferSize \in 0 .. BufferSize - 1
      BY <1>o, <3>0, DivMod
    <3>2. CASE pos <= p /\ p < pos + amount
      <4>1. PICK k \in Nat : p = pos + k /\ k < amount
        BY <1>k, <3>0, <3>2
      <4>2. offset + k < BufferSize
        BY <1>2, <1>k, <1>o, <4>1
      <4>3. p % BufferSize = offset + k
        BY <1>k, <1>o, <4>1, <4>2, OffsetAdvances
      <4>4. offset <= offset + k /\ offset + k < offset + amount
            /\ pos + ((offset + k) - offset) = p
        BY <1>k, <1>o, <4>1
      <4>5. QED BY <1>1, <3>1, <4>3, <4>4
    <3>3. CASE ~(pos <= p /\ p < pos + amount)
      <4>1. Uncompressed(p) /\ p < pos
        <5>1. CASE next_thread_pos <= p /\ p < pos + amount
          BY <1>k, <3>0, <3>3, <5>1 DEF Uncompressed
        <5>2. ASSUME NEW t \in Threads, tpc[t] = "compress",
                     thread_pos[t] <= p, p < block_end[t]
              PROVE  Uncompressed(p) /\ p < pos
          <6>1. block_end[t] <= next_thread_pos /\ block_end[t] \in Int
            BY <1>c, <1>t, <5>2 DEF Blocks, Busy, TypeOK
          <6>2. next_thread_pos <= pos
            BY <1>c, <1>k DEF Positions
          <6>3. QED BY <1>k, <3>0, <5>2, <6>1, <6>2 DEF Uncompressed
        <5>3. QED BY <1>1, <1>u, <2>1, <5>1, <5>2 DEF Uncompressed
      <4>2. producer_reserved_upto_pos <= p + BufferSize
        <5>1. CASE next_thread_pos <= p
          BY <1>c, <1>k, <1>o, <3>0, <5>1 DEF Reserved
        <5>2. ASSUME NEW t \in Threads, tpc[t] = "compress",
                     thread_pos[t] <= p
              PROVE  producer_reserved_upto_pos <= p + BufferSize
          <6>1. /\ producer_reserved_upto_pos <= thread_pos[t] + BufferSize
                /\ thread_pos[t] \in Int
            BY <1>c, <1>t, <5>2 DEF Reserved, Busy, Blocks
          <6>2. QED BY <1>k, <1>o, <3>0, <5>2, <6>1
        <5>3. QED BY <4>1, <5>1, <5>2 DEF Uncompressed
      <4>3. ASSUME NEW k \in Nat, k < amount
            PROVE  p % BufferSize # offset + k
        <5>1. PICK r \in Nat : r = pos + k /\ p < r /\ r < p + BufferSize
          BY <1>2, <1>k, <1>o, <3>0, <4>1, <4>2, <4>3
        <5>2. p % BufferSize # r % BufferSize
          BY <1>o, <3>0, <5>1, OffsetsDiffer
        <5>3. offset + k < BufferSize
          BY <1>2, <1>k, <1>o, <4>3
        <5>4. (pos + k) % BufferSize = offset + k
          BY <1>k, <1>o, <5>3, OffsetAdvances
        <5>5. QED BY <5>1, <5>2, <5>4
      <4>4. PICK o \in 0 .. BufferSize - 1 : o = p % BufferSize
        BY <3>1
      <4>5. ~(offset <= o /\ o < offset + amount)
        <5>1. SUFFICES ASSUME offset <= o, o < offset + amount PROVE FALSE
          OBVIOUS
        <5>2. PICK k \in Nat : k = o - offset /\ k < amount /\ o = offset + k
          <6>1. ASSUME NEW x \in Int, NEW y \in Int, NEW z \in Int,
                       x <= y, y < x + z
                PROVE  \E k \in Nat : k = y - x /\ k < z /\ y = x + k
            BY <6>1
          <6>2. o \in Int /\ offset \in Int /\ amount \in Int
            BY <1>k, <1>o
          <6>3. QED BY <5>1, <6>1, <6>2, Zenon
        <5>3. QED BY <4>3, <4>4, <5>2
      <4>6. buffer'[o] = buffer[o]
        BY <1>1, <4>5
      <4>7. buffer[o] = p
        BY <1>c, <4>1, <4>4 DEF RingIntact
      <4>8. QED BY <4>4, <4>6, <4>7
    <3>4. QED BY <3>2, <3>3
  <2>2. QED BY <2>1 DEF RingIntact, BufferSize
<1>8. Ends'
  BY <1>c, <1>u DEF Ends
<1>9. GoodMeansComplete'
  BY <1>u DEF GoodMeansComplete
<1>10. QED BY <1>3, <1>4, <1>5, <1>6, <1>7, <1>8, <1>9 DEF IInv

\* The producer's other steps.
LEMMA ProducerInv ==
    /\ IInv
    /\ \/ \E n \in 1 .. MaxWrite : Write(n)
       \/ Close \/ WriteReserve \/ Reserve \/ WriteDone \/ CloseSignal
       \/ \E f \in BOOLEAN : CloseJoin(f)
       \/ \E p \in Threads \cup {Producer} : SpuriousWakeup(p)
    => IInv'
<1>i. SUFFICES ASSUME IInv,
                      \/ \E n \in 1 .. MaxWrite : Write(n)
                      \/ Close \/ WriteReserve \/ Reserve \/ WriteDone
                      \/ CloseSignal
                      \/ \E f \in BOOLEAN : CloseJoin(f)
                      \/ \E p \in Threads \cup {Producer} : SpuriousWakeup(p)
               PROVE  IInv'
  OBVIOUS
<1>t. TypeOK
  BY <1>i DEF IInv
<1>c. Positions /\ Blocks /\ Tiled /\ Ends /\ GoodMeansComplete
  BY <1>i DEF IInv
\* Steps that change only the producer's place, size, error, closing, fd_open
\* and the sleepers.
<1>d. ASSUME UNCHANGED <<buffer, thread_pos, next_thread_pos,
                         next_thread_end_pos, write_error,
                         producer_reserved_pos, producer_reserved_write_pos,
                         producer_reserved_upto_pos, threadV, file>>,
             closing' \in BOOLEAN, error' \in BOOLEAN, fd_open' \in BOOLEAN,
             ppc' \in {"idle", "write", "reserve", "close", "join", "closed"},
             size' \in 0 .. MaxWrite,
             producer_reserved_write_pos + size' <= MaxStream,
             waiting' \in SUBSET (Threads \cup {Producer}),
             Ends', GoodMeansComplete'
      PROVE  IInv'
  <2>1. /\ Blocks' /\ Disjoint' /\ Turns' /\ Tiled' /\ Outputs'
        /\ FileIsStreamPrefix' /\ Reserved' /\ RingIntact'
    BY <1>d, <1>i, DataUntouched
  <2>2. TypeOK'
    BY <1>d, <1>t DEF TypeOK, threadV, BufferSize
  <2>3. Positions'
    BY <1>c, <1>d DEF Positions
  <2>4. QED BY <1>d, <2>1, <2>2, <2>3 DEF IInv
<1>1. ASSUME NEW n \in 1 .. MaxWrite, Write(n) PROVE IInv'
  <2>1. /\ ppc = "idle" /\ producer_reserved_write_pos + n <= MaxStream
        /\ ppc' = "write" /\ size' = n
        /\ UNCHANGED <<buffer, shared, producer_reserved_pos, waiting, threadV,
                       producer_reserved_write_pos, producer_reserved_upto_pos,
                       error, fileV>>
    BY <1>1 DEF Write
  <2>2. Ends'
    BY <1>c, <2>1 DEF Ends, shared, threadV, fileV
  <2>3. GoodMeansComplete'
    BY <2>1 DEF GoodMeansComplete
  <2>4. n \in 0 .. MaxWrite
    BY ConstantsAssumption
  <2>5. QED BY <1>d, <1>t, <2>1, <2>2, <2>3, <2>4 DEF TypeOK, shared, fileV
<1>2. CASE Close
  <2>1. CASE fd_open
    <3>1. /\ ppc = "idle" /\ update_reservation(FALSE, "close")
          /\ UNCHANGED <<buffer, size, threadV, fileV>>
      BY <1>2, <2>1 DEF Close
    <3>2. size = 0
      BY <1>c, <3>1 DEF Ends
    <3>3. ReservationLoop(FALSE, "close", {})
      BY <3>1 DEF update_reservation
    <3>4. /\ next_thread_end_pos' = producer_reserved_pos'
          /\ producer_reserved_pos' = producer_reserved_write_pos
          /\ UNCHANGED <<thread_pos, next_thread_pos, closing, write_error,
                         producer_reserved_write_pos>>
      BY <3>1 DEF update_reservation
    <3>5. QED BY <1>i, <2>1, <3>1, <3>2, <3>3, <3>4, ReservationInv
  <2>2. CASE ~fd_open
    <3>1. /\ ppc = "idle" /\ ppc' = "closed"
          /\ UNCHANGED <<shared, producer_reserved_pos, error, waiting,
                         producer_reserved_write_pos,
                         producer_reserved_upto_pos>>
          /\ UNCHANGED <<buffer, size, threadV, fileV>>
      BY <1>2, <2>2 DEF Close
    <3>2. error
      BY <1>c, <2>2, <3>1 DEF Ends
    <3>3. Ends'
      BY <1>c, <2>2, <3>1, <3>2 DEF Ends, shared, threadV, fileV
    <3>4. GoodMeansComplete'
      BY <3>1, <3>2 DEF GoodMeansComplete
    <3>5. producer_reserved_write_pos + size' <= MaxStream
      BY <1>c, <3>1 DEF Positions
    <3>6. QED BY <1>d, <1>t, <3>1, <3>3, <3>4, <3>5 DEF TypeOK, shared, fileV
  <2>3. QED BY <2>1, <2>2
<1>3. CASE WriteReserve
  <2>1. /\ ppc = "write" /\ update_reservation(TRUE, "write")
        /\ UNCHANGED <<buffer, size, threadV, fileV>>
    BY <1>3 DEF WriteReserve
  <2>2. ReservationLoop(TRUE, "write", {})
    BY <2>1 DEF update_reservation
  <2>3. /\ next_thread_end_pos' = producer_reserved_pos'
        /\ producer_reserved_pos' = producer_reserved_write_pos
        /\ UNCHANGED <<thread_pos, next_thread_pos, closing, write_error,
                       producer_reserved_write_pos>>
    BY <2>1 DEF update_reservation
  <2>4. QED BY <1>i, <2>1, <2>2, <2>3, ReservationInv
<1>4. CASE Reserve
  <2>1. /\ ppc = "reserve" /\ producer_reserved_pos' = producer_reserved_pos
        /\ ReservationLoop(TRUE, "write", waiting)
        /\ UNCHANGED <<buffer, shared, producer_reserved_write_pos, size,
                       threadV, fileV>>
    BY <1>4 DEF Reserve
  <2>2. /\ next_thread_end_pos' = producer_reserved_pos'
        /\ UNCHANGED <<thread_pos, next_thread_pos, closing, write_error>>
    BY <1>c, <2>1 DEF shared, Positions
  <2>3. waiting \in SUBSET (Threads \cup {Producer})
    BY <1>t DEF TypeOK
  <2>4. QED BY <1>i, <2>1, <2>2, <2>3, ReservationInv
<1>5. CASE WriteDone
  <2>0. /\ ppc = "write" /\ size' = 0
        /\ UNCHANGED <<buffer, threadV, fileV>>
    BY <1>5 DEF WriteDone
  <2>1. CASE update_reservation(FALSE, "idle")
    <3>1. ReservationLoop(FALSE, "idle", {})
      BY <2>1 DEF update_reservation
    <3>2. /\ next_thread_end_pos' = producer_reserved_pos'
          /\ producer_reserved_pos' = producer_reserved_write_pos
          /\ UNCHANGED <<thread_pos, next_thread_pos, closing, write_error,
                         producer_reserved_write_pos>>
      BY <2>1 DEF update_reservation
    <3>3. QED BY <1>i, <2>0, <3>1, <3>2, ReservationInv
  <2>2. CASE /\ ppc' = "idle"
             /\ UNCHANGED <<shared, producer_reserved_pos, error, waiting,
                            producer_reserved_write_pos,
                            producer_reserved_upto_pos>>
    <3>1. Ends'
      BY <1>c, <2>0, <2>2 DEF Ends, shared, threadV, fileV
    <3>2. GoodMeansComplete'
      BY <2>2 DEF GoodMeansComplete
    <3>3. producer_reserved_write_pos + size' <= MaxStream
      BY <1>t, <2>0, ConstantsAssumption DEF TypeOK
    <3>4. size' \in 0 .. MaxWrite
      BY <2>0, ConstantsAssumption
    <3>5. QED
      BY <1>d, <1>t, <2>0, <2>2, <3>1, <3>2, <3>3, <3>4
         DEF TypeOK, shared, fileV
  <2>3. QED BY <1>5, <2>1, <2>2 DEF WriteDone
<1>6. CASE CloseSignal
  <2>1. /\ ppc = "close" /\ closing' = TRUE /\ waiting' = {} /\ ppc' = "join"
        /\ UNCHANGED <<buffer, thread_pos, next_thread_pos,
                       next_thread_end_pos, write_error, producer_reserved_pos,
                       size, threadV, fileV, producer_reserved_write_pos,
                       producer_reserved_upto_pos, error>>
    BY <1>6 DEF CloseSignal
  <2>2. Ends'
    BY <1>c, <2>1 DEF Ends, threadV, fileV
  <2>3. GoodMeansComplete'
    BY <2>1 DEF GoodMeansComplete
  <2>4. producer_reserved_write_pos + size' <= MaxStream
    BY <1>c, <2>1 DEF Positions
  <2>5. QED BY <1>d, <1>t, <2>1, <2>2, <2>3, <2>4 DEF TypeOK, fileV
<1>7. ASSUME NEW f \in BOOLEAN, CloseJoin(f) PROVE IInv'
  <2>1. /\ ppc = "join" /\ \A t \in Threads : tpc[t] = "exited"
        /\ error' = (error \/ write_error \/ f)
        /\ fd_open' = FALSE /\ ppc' = "closed"
        /\ UNCHANGED <<buffer, shared, producer_reserved_pos, size, threadV,
                       file, producer_reserved_write_pos,
                       producer_reserved_upto_pos, waiting>>
    BY <1>7 DEF CloseJoin
  <2>2. GoodMeansComplete'
    <3>1. SUFFICES ASSUME ~error, ~write_error
                   PROVE  Len(file) = producer_reserved_write_pos
      BY <2>1 DEF GoodMeansComplete
    <3>2. next_thread_end_pos = producer_reserved_write_pos /\ fd_open
      BY <1>c, <2>1, <3>1 DEF Ends
    <3>3. PICK t \in Threads : tpc[t] = "exited"
      BY <2>1, ConstantsAssumption
    <3>4. next_thread_pos = next_thread_end_pos
      BY <1>c, <3>1, <3>2, <3>3 DEF Ends
    <3>5. Joint(next_thread_pos)
      BY <1>c, <3>1 DEF Tiled
    <3>6. QED BY <2>1, <3>2, <3>4, <3>5 DEF Joint, Unwritten
  <2>3. Ends'
    BY <1>c, <2>1 DEF Ends, shared, threadV
  <2>4. producer_reserved_write_pos + size' <= MaxStream
    BY <1>c, <2>1 DEF Positions
  <2>5. QED BY <1>d, <1>t, <2>1, <2>2, <2>3, <2>4 DEF TypeOK, shared
<1>8. ASSUME NEW p \in Threads \cup {Producer}, SpuriousWakeup(p) PROVE IInv'
  <2>1. /\ waiting' = waiting \ {p}
        /\ UNCHANGED <<buffer, shared, producerV, threadV, fileV>>
    BY <1>8 DEF SpuriousWakeup
  <2>2. Ends'
    BY <1>c, <2>1 DEF Ends, shared, producerV, threadV, fileV
  <2>3. GoodMeansComplete'
    BY <1>c, <2>1 DEF GoodMeansComplete, producerV, fileV
  <2>4. producer_reserved_write_pos + size' <= MaxStream
    BY <1>c, <2>1 DEF Positions, producerV
  <2>5. waiting' \in SUBSET (Threads \cup {Producer})
    BY <1>t, <2>1 DEF TypeOK
  <2>6. QED
    BY <1>d, <1>t, <2>1, <2>2, <2>3, <2>4, <2>5
       DEF TypeOK, shared, producerV, fileV
<1>9. QED BY <1>i, <1>1, <1>2, <1>3, <1>4, <1>5, <1>6, <1>7, <1>8

\* Every step preserves the invariant.
LEMMA NextIInv == IInv /\ [Next]_vars => IInv'
<1>i. SUFFICES ASSUME IInv, [Next]_vars PROVE IInv'
  OBVIOUS
<1>1. CASE UNCHANGED vars
  <2>1. UNCHANGED <<buffer, shared, producerV, threadV, fileV, waiting>>
    BY <1>1 DEF vars
  <2>2. /\ Blocks' /\ Disjoint' /\ Turns' /\ Tiled' /\ Outputs'
        /\ FileIsStreamPrefix' /\ Reserved' /\ RingIntact'
    BY <1>i, <2>1, DataUntouched DEF shared, producerV, fileV
  <2>3. TypeOK' /\ Positions' /\ Ends' /\ GoodMeansComplete'
    BY <1>i, <2>1 DEF IInv, TypeOK, Positions, Ends, GoodMeansComplete,
                      BufferSize, shared, producerV, threadV, fileV
  <2>4. QED BY <2>2, <2>3 DEF IInv
<1>2. ASSUME NEW t \in Threads, Thread(t) PROVE IInv'
  BY <1>i, <1>2, ThreadInv
<1>3. CASE WriteCopy
  BY <1>i, <1>3, WriteCopyInv
<1>4. CASE Closed
  BY <1>1, <1>4 DEF Closed
<1>5. QED
  BY <1>i, <1>1, <1>2, <1>3, <1>4, ProducerInv DEF Next, ProducerStep

-----------------------------------------------------------------------------
\* The inductive invariant, for any number of compression threads, any block
\* size and any stream: CompressedWriter.cc keeps the positions, the blocks
\* and the file in step.
THEOREM Invariant == Spec => []IInv
<1>1. QED BY InitIInv, NextIInv, PTL DEF Spec

\* The variables keep their types; in particular no position runs past the
\* bytes given to write().
THEOREM TypeCorrect == Spec => []TypeOK
<1>1. IInv => TypeOK
  BY DEF IInv
<1>2. QED BY <1>1, Invariant, PTL

\* write() never overwrites a byte of the ring that a compression thread
\* still has to read.
THEOREM RingNeverOverwritten == Spec => []RingIntact
<1>1. IInv => RingIntact
  BY DEF IInv
<1>2. QED BY <1>1, Invariant, PTL

\* Blocks reach the file in stream order, without a gap, whatever the order
\* in which the threads finish compressing them.
THEOREM FileInOrder == Spec => []FileIsStreamPrefix
<1>1. IInv => FileIsStreamPrefix
  BY DEF IInv
<1>2. QED BY <1>1, Invariant, PTL

\* A closed writer that reports good() has stored the whole stream.
THEOREM NoSilentLoss == Spec => []GoodMeansComplete
<1>1. IInv => GoodMeansComplete
  BY DEF IInv
<1>2. QED BY <1>1, Invariant, PTL

\* The unsigned reservation size that write() computes never wraps round.
THEOREM ReservationOrdered == Spec => []ReservationNeverWraps
<1>1. IInv => ReservationNeverWraps
  BY DEF IInv, Positions, ReservationNeverWraps
<1>2. QED BY <1>1, Invariant, PTL

=============================================================================

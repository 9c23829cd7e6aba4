-------------------------- MODULE CompressedWriter --------------------------
(***************************************************************************)
(* The multi-threaded block compressor behind every trace substream        *)
(* (CompressedWriter.cc): one producer copies bytes into a ring buffer, a  *)
(* pool of compression threads takes blocks from it and appends them to    *)
(* the file in stream order.  One mutex and one condition variable protect *)
(* the shared positions.                                                   *)
(*                                                                         *)
(* An action is the code between two points where another thread may run:  *)
(* a stretch under the mutex (up to the unlock or the cond_wait), or a     *)
(* stretch of unlocked code (a memcpy, do_compress, write_all).            *)
(*                                                                         *)
(* The byte at stream position p is represented by p itself, so a byte     *)
(* that ends up in the wrong place, or twice, or never, is visible.        *)
(***************************************************************************)
EXTENDS Integers, Sequences, FiniteSets

CONSTANTS Threads,      \* the compression threads
          BlockSize,    \* block_size
          MaxStream,    \* bound: bytes the producer writes in all
          MaxWrite,     \* bound: bytes in one call of write()
          UINT64_MAX    \* the idle mark of thread_pos

ASSUME ConstantsAssumption ==
    /\ IsFiniteSet(Threads) /\ Threads # {} /\ "producer" \notin Threads
    /\ BlockSize \in Nat \ {0}
    /\ MaxStream \in Nat
    /\ MaxWrite \in Nat \ {0}
    /\ UINT64_MAX \in Nat /\ UINT64_MAX > MaxStream

Producer == "producer"

\* buffer.resize(block_size * (num_threads + 2))
BufferSize == BlockSize * (Cardinality(Threads) + 2)

VARIABLES
    buffer,               \* the ring: offset -> byte
    thread_pos,           \* block each thread works on, or UINT64_MAX
    next_thread_pos,      \* start of the data not yet dispatched
    next_thread_end_pos,  \* end of the data ready to be dispatched
    closing, write_error,
    producer_reserved_pos, producer_reserved_write_pos,
    producer_reserved_upto_pos,
    error,                \* what good() negates
    waiting,              \* who sleeps in pthread_cond_wait
    ppc, size,            \* the producer's place in the code, bytes to write
    tpc,                  \* each thread's place in the code
    block_end,            \* end of each thread's block (uncompressed_length)
    outputbuf,            \* each thread's compressed block
    fd_open, file         \* the output file

shared    == <<thread_pos, next_thread_pos, next_thread_end_pos, closing,
               write_error>>
producerV == <<producer_reserved_pos, producer_reserved_write_pos,
               producer_reserved_upto_pos, error, ppc, size>>
threadV   == <<tpc, block_end, outputbuf>>
fileV     == <<fd_open, file>>
vars      == <<buffer, shared, producerV, threadV, fileV, waiting>>

NoByte == -1

-----------------------------------------------------------------------------
(* The constructor; the open of the file may fail, then no thread starts.  *)
Init ==
    /\ buffer = [o \in 0 .. BufferSize - 1 |-> NoByte]
    /\ thread_pos = [t \in Threads |-> UINT64_MAX]
    /\ next_thread_pos = 0 /\ next_thread_end_pos = 0
    /\ closing = FALSE /\ write_error = FALSE
    /\ producer_reserved_pos = 0
    /\ producer_reserved_write_pos = 0
    /\ producer_reserved_upto_pos = 0
    /\ fd_open \in BOOLEAN
    /\ error = ~fd_open
    /\ waiting = {}
    /\ ppc = "idle" /\ size = 0
    /\ tpc = [t \in Threads |-> IF fd_open THEN "loop" ELSE "exited"]
    /\ block_end = [t \in Threads |-> 0]
    /\ outputbuf = [t \in Threads |-> << >>]
    /\ file = << >>

-----------------------------------------------------------------------------
(* The producer.                                                           *)

\* Mutant: blocks being compressed count as completed.
IsCompletedPos_IgnoresThreads(c) == c = next_thread_pos

\* c is the smallest position some thread or the dispatcher still needs.
IsCompletedPos(c) ==
    /\ c \in {next_thread_pos} \cup {thread_pos[t] : t \in Threads}
    /\ c <= next_thread_pos
    /\ \A t \in Threads : c <= thread_pos[t]

\* The loop of update_reservation(): leave it, or sleep on the condition
\* variable.  others is the set of sleepers the loop finds.
ReservationLoop(wait, resume, others) ==
    \/ /\ error \/ write_error
       /\ error' = TRUE
       /\ ppc' = resume /\ waiting' = others
       /\ UNCHANGED producer_reserved_upto_pos
    \/ /\ ~error /\ ~write_error
       /\ \E c \in 0 .. MaxStream :
            /\ IsCompletedPos(c)
            /\ producer_reserved_upto_pos' = c + BufferSize
            /\ IF producer_reserved_pos' < c + BufferSize \/ ~wait
               THEN ppc' = resume /\ waiting' = others
               ELSE ppc' = "reserve" /\ waiting' = others \cup {Producer}
       /\ UNCHANGED error

\* update_reservation(): publish what was written, wake everybody, reserve.
update_reservation(wait, resume) ==
    /\ next_thread_end_pos' = producer_reserved_write_pos
    /\ producer_reserved_pos' = producer_reserved_write_pos
    /\ ReservationLoop(wait, resume, {})
    /\ UNCHANGED <<thread_pos, next_thread_pos, closing, write_error,
                   producer_reserved_write_pos>>

\* The producer calls write() with n bytes.
Write(n) ==
    /\ ppc = "idle"
    /\ producer_reserved_write_pos + n <= MaxStream
    /\ ppc' = "write" /\ size' = n
    /\ UNCHANGED <<buffer, shared, producer_reserved_pos, waiting, threadV,
                   producer_reserved_write_pos, producer_reserved_upto_pos,
                   error, fileV>>

\* amount is the smallest of the room up to the end of the ring, the
\* reservation and what is left to write.
CopyAmount(amount, room, reservation_size) ==
    /\ amount \in {room, reservation_size, size}
    /\ amount <= room /\ amount <= reservation_size /\ amount <= size

\* One turn of write()'s loop with room left: the memcpy.
WriteCopy ==
    /\ ppc = "write" /\ ~error /\ size > 0
    /\ producer_reserved_upto_pos # producer_reserved_write_pos
    /\ LET pos    == producer_reserved_write_pos
           offset == pos % BufferSize
       IN  \E amount \in 1 .. MaxWrite :
             /\ CopyAmount(amount, BufferSize - offset,
                           producer_reserved_upto_pos - pos)
             /\ buffer' = [o \in 0 .. BufferSize - 1 |->
                             IF offset <= o /\ o < offset + amount
                             THEN pos + (o - offset) ELSE buffer[o]]
             /\ producer_reserved_write_pos' = pos + amount
             /\ size' = size - amount
    /\ UNCHANGED <<shared, producer_reserved_pos, producer_reserved_upto_pos,
                   error, ppc, waiting, threadV, fileV>>

\* One turn of write()'s loop without room: update_reservation(WAIT).
WriteReserve ==
    /\ ppc = "write" /\ ~error /\ size > 0
    /\ producer_reserved_upto_pos = producer_reserved_write_pos
    /\ update_reservation(TRUE, "write")
    /\ UNCHANGED <<buffer, size, threadV, fileV>>

\* update_reservation(WAIT) is woken and goes round its loop again.
Reserve ==
    /\ ppc = "reserve" /\ Producer \notin waiting
    /\ UNCHANGED producer_reserved_pos
    /\ ReservationLoop(TRUE, "write", waiting)
    /\ UNCHANGED <<buffer, shared, producer_reserved_write_pos, size, threadV,
                   fileV>>

\* The end of write(): publish if half of the buffer is unpublished.
WriteDone ==
    /\ ppc = "write" /\ (error \/ size = 0)
    /\ IF /\ ~error
          /\ producer_reserved_write_pos - producer_reserved_pos
                >= BufferSize \div 2
       THEN update_reservation(FALSE, "idle")
       ELSE /\ ppc' = "idle"
            /\ UNCHANGED <<shared, producer_reserved_pos, error, waiting,
                           producer_reserved_write_pos,
                           producer_reserved_upto_pos>>
    /\ size' = 0
    /\ UNCHANGED <<buffer, threadV, fileV>>

\* close() of a file that is not open returns at once; otherwise it
\* publishes everything that was written.
Close ==
    /\ ppc = "idle"
    /\ IF fd_open
       THEN update_reservation(FALSE, "close")
       ELSE /\ ppc' = "closed"
            /\ UNCHANGED <<shared, producer_reserved_pos, error, waiting,
                           producer_reserved_write_pos,
                           producer_reserved_upto_pos>>
    /\ UNCHANGED <<buffer, size, threadV, fileV>>

\* close() announces itself to the threads.
CloseSignal ==
    /\ ppc = "close"
    /\ closing' = TRUE
    /\ waiting' = {}
    /\ ppc' = "join"
    /\ UNCHANGED <<buffer, thread_pos, next_thread_pos, next_thread_end_pos,
                   write_error, producer_reserved_pos, size, threadV, fileV,
                   producer_reserved_write_pos, producer_reserved_upto_pos,
                   error>>

\* Mutant: close() does not look at the threads' error.
CloseJoin_DropsWriteError(fsync_failed) ==
    /\ ppc = "join"
    /\ \A t \in Threads : tpc[t] = "exited"
    /\ error' = (error \/ fsync_failed)
    /\ fd_open' = FALSE
    /\ ppc' = "closed"
    /\ UNCHANGED <<buffer, shared, producer_reserved_pos, size, threadV, file,
                   producer_reserved_write_pos, producer_reserved_upto_pos,
                   waiting>>

\* close() after the last pthread_join; an fsync() may fail.
CloseJoin(fsync_failed) ==
    /\ ppc = "join"
    /\ \A t \in Threads : tpc[t] = "exited"
    /\ error' = (error \/ write_error \/ fsync_failed)
    /\ fd_open' = FALSE
    /\ ppc' = "closed"
    /\ UNCHANGED <<buffer, shared, producer_reserved_pos, size, threadV, file,
                   producer_reserved_write_pos, producer_reserved_upto_pos,
                   waiting>>

-----------------------------------------------------------------------------
(* compression_thread().                                                   *)

Least(a, b) == IF a <= b THEN a ELSE b

Dispatchable(werr) ==
    /\ ~werr
    /\ next_thread_pos < next_thread_end_pos
    /\ closing \/ next_thread_pos + BlockSize <= next_thread_end_pos

\* The head of the thread's loop, reached with the mutex held: take a block,
\* leave, or sleep.  pos and werr are thread_pos and write_error, and others
\* the sleepers, as the thread finds or has just made them.
LoopHead(t, pos, werr, others) ==
    \/ /\ Dispatchable(werr)
       /\ thread_pos' = [pos EXCEPT ![t] = next_thread_pos]
       /\ next_thread_pos' =
            Least(next_thread_end_pos, next_thread_pos + BlockSize)
       /\ block_end' = [block_end EXCEPT ![t] = next_thread_pos']
       /\ tpc' = [tpc EXCEPT ![t] = "compress"]
       /\ waiting' = others
    \/ /\ ~Dispatchable(werr)
       /\ thread_pos' = pos
       /\ IF closing /\ (werr \/ next_thread_pos = next_thread_end_pos)
          THEN /\ tpc' = [tpc EXCEPT ![t] = "exited"]
               /\ waiting' = others
          ELSE /\ tpc' = [tpc EXCEPT ![t] = "loop"]
               /\ waiting' = others \cup {t}
       /\ UNCHANGED <<next_thread_pos, block_end>>

\* The thread starts, or is woken at the bottom of its loop.
ThreadLoop(t) ==
    /\ tpc[t] = "loop" /\ t \notin waiting
    /\ LoopHead(t, thread_pos, write_error, waiting)
    /\ UNCHANGED <<buffer, next_thread_end_pos, closing, write_error,
                   producerV, outputbuf, fileV>>

\* Mutant: nobody is woken.
FinishBlock_NoBroadcast(t, werr) ==
    /\ LoopHead(t, [thread_pos EXCEPT ![t] = UINT64_MAX], werr, waiting)
    /\ UNCHANGED <<buffer, next_thread_end_pos, closing, producerV, fileV>>

\* The thread gives its block up (written, or dropped after an error), wakes
\* everybody and, still holding the mutex, goes round its loop.
FinishBlock(t, werr) ==
    /\ LoopHead(t, [thread_pos EXCEPT ![t] = UINT64_MAX], werr, {})
    /\ UNCHANGED <<buffer, next_thread_end_pos, closing, producerV, fileV>>

\* Mutant: blocks are written as they are ready.
OtherThreadWriteFirst_Never(t) == FALSE

OtherThreadWriteFirst(t) == \E i \in Threads : thread_pos[i] < thread_pos[t]

\* Wait until this thread is the next that needs to write.
AwaitTurn(t) ==
    \/ write_error /\ FinishBlock(t, TRUE) /\ UNCHANGED write_error
    \/ /\ ~write_error
       /\ IF OtherThreadWriteFirst(t)
          THEN /\ tpc' = [tpc EXCEPT ![t] = "turn"]
               /\ waiting' = waiting \cup {t}
          ELSE /\ tpc' = [tpc EXCEPT ![t] = "write"]
               /\ UNCHANGED waiting
       /\ UNCHANGED <<buffer, shared, producerV, block_end, fileV>>

\* What do_compress() reads out of the ring for block [from, to).
BlockBytes(from, to) ==
    [i \in 1 .. to - from |-> buffer[(from + i - 1) % BufferSize]]

\* do_compress() is done; the mutex is taken again.
Compressed(t) ==
    /\ tpc[t] = "compress"
    /\ outputbuf' = [outputbuf EXCEPT
                       ![t] = BlockBytes(thread_pos[t], block_end[t])]
    /\ AwaitTurn(t)

\* do_compress() returned 0.
CompressFailed(t) ==
    /\ tpc[t] = "compress"
    /\ write_error' = TRUE
    /\ FinishBlock(t, TRUE)
    /\ UNCHANGED outputbuf

\* The thread is woken while it waits for its turn.
Turn(t) ==
    /\ tpc[t] = "turn" /\ t \notin waiting
    /\ AwaitTurn(t)
    /\ UNCHANGED outputbuf

\* write_all(), outside the mutex.  (Its failure ends the process.)
WriteAll(t) ==
    /\ tpc[t] = "write"
    /\ file' = file \o outputbuf[t]
    /\ tpc' = [tpc EXCEPT ![t] = "wrote"]
    /\ UNCHANGED <<buffer, shared, producerV, block_end, outputbuf, fd_open,
                   waiting>>

\* The mutex is taken again after write_all().
Wrote(t) ==
    /\ tpc[t] = "wrote"
    /\ FinishBlock(t, write_error)
    /\ UNCHANGED <<write_error, outputbuf>>

-----------------------------------------------------------------------------
Thread(t) == \/ ThreadLoop(t) \/ Compressed(t) \/ CompressFailed(t)
             \/ Turn(t) \/ WriteAll(t) \/ Wrote(t)

ProducerStep == \/ WriteCopy \/ WriteReserve \/ Reserve \/ WriteDone
                \/ CloseSignal \/ \E f \in BOOLEAN : CloseJoin(f)

\* pthread_cond_wait() may return although nobody signalled.
SpuriousWakeup(p) ==
    /\ p \in waiting
    /\ waiting' = waiting \ {p}
    /\ UNCHANGED <<buffer, shared, producerV, threadV, fileV>>

Closed == ppc = "closed" /\ UNCHANGED vars

Next == \/ \E n \in 1 .. MaxWrite : Write(n)
        \/ Close
        \/ ProducerStep
        \/ \E t \in Threads : Thread(t)
        \/ \E p \in Threads \cup {Producer} : SpuriousWakeup(p)
        \/ Closed

Spec == Init /\ [][Next]_vars

\* Every thread that is not asleep keeps running: the kernel schedules it and
\* a mutex that is held only for short stretches is eventually had.
Fairness == WF_vars(ProducerStep) /\ \A t \in Threads : WF_vars(Thread(t))

FairSpec == Spec /\ Fairness

-----------------------------------------------------------------------------
\* The variables have the types of CompressedWriter.h, and every position that
\* write() and the threads advance stays within the stream.
TypeOK ==
    /\ buffer \in [0 .. BufferSize - 1 -> Nat \cup {NoByte}]
    /\ thread_pos \in [Threads -> 0 .. MaxStream \cup {UINT64_MAX}]
    /\ next_thread_pos \in 0 .. MaxStream
    /\ next_thread_end_pos \in 0 .. MaxStream
    /\ closing \in BOOLEAN /\ write_error \in BOOLEAN
    /\ producer_reserved_pos \in 0 .. MaxStream
    /\ producer_reserved_write_pos \in 0 .. MaxStream
    /\ producer_reserved_upto_pos \in Nat
    /\ error \in BOOLEAN
    /\ waiting \in SUBSET (Threads \cup {Producer})
    /\ ppc \in {"idle", "write", "reserve", "close", "join", "closed"}
    /\ size \in 0 .. MaxWrite
    /\ tpc \in [Threads ->
                 {"loop", "compress", "turn", "write", "wrote", "exited"}]
    /\ block_end \in [Threads -> 0 .. MaxStream]
    /\ outputbuf \in [Threads -> Seq(Nat \cup {NoByte})]
    /\ fd_open \in BOOLEAN
    /\ file \in Seq(Nat \cup {NoByte})

\* Stream position p has been written and is not compressed yet: it is past
\* the dispatcher, or in a block a thread is compressing.
Uncompressed(p) ==
    \/ next_thread_pos <= p /\ p < producer_reserved_write_pos
    \/ \E t \in Threads : /\ tpc[t] = "compress"
                          /\ thread_pos[t] <= p /\ p < block_end[t]

\* write() never overwrites a byte of the ring that is still to be compressed
\* or is being compressed outside the mutex: update_reservation() must not
\* reserve more than the slowest thread has completed.
RingIntact ==
    \A p \in 0 .. MaxStream - 1 :
        Uncompressed(p) => buffer[p % BufferSize] = p

\* Whatever the threads' order, an error or a close, the file holds a prefix
\* of the stream: no block is written out of turn, twice or after a gap.
FileIsStreamPrefix ==
    \A i \in 1 .. Len(file) : file[i] = i - 1

\* good() after close() means that the whole stream is in the file; a block
\* that was lost to an error is always reported.
GoodMeansComplete ==
    ppc = "closed" /\ ~error => Len(file) = producer_reserved_write_pos

\* producer_reserved_upto_pos - producer_reserved_write_pos, an unsigned
\* subtraction in write(), never wraps round, although the threads move the
\* completed position under the producer's feet.
ReservationNeverWraps ==
    /\ producer_reserved_pos <= producer_reserved_write_pos
    /\ producer_reserved_write_pos <= producer_reserved_upto_pos

\* A write() that waits for room returns, no wakeup of the producer or of a
\* compression thread is lost; and so does close(), every thread sees closing,
\* drains its blocks and exits.
CallsReturn ==
    /\ (ppc = "write") ~> (ppc = "idle")
    /\ (ppc = "close") ~> (ppc = "closed")

=============================================================================

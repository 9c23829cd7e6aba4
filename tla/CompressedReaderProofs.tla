------------------------ MODULE CompressedReaderProofs ------------------------
(* For every file that is not empty, however many blocks it has and        *)
(* however long they are:                                                  *)
(* a CompressedReader is a stream with a position (Refinement), and        *)
(* reports the end exactly (EndExact).                                     *)
EXTENDS CompressedReader, TLAPS

IsFile ==
  /\ blocks \in Nat /\ ends \in [0..blocks -> Nat] /\ ends[0] = 0
  /\ \A j, k \in 0..blocks : j < k => ends[j] < ends[k]
  /\ tail \in Tails /\ (blocks = 0 => tail # "none")

(* buf is the block before offset, and read_pos a place in it. *)
BufferAt(buf, offset, read_pos) ==
  /\ offset \in 0..blocks
  /\ buf = IF offset = 0 THEN <<>> ELSE BytesOfBlock(offset)
  /\ read_pos \in 0..Len(buf)

CurrentInv ==
  ~read_error => /\ BufferAt(read_buffer, fd_offset, buffer_read_pos)
                 /\ eof <=> fd_offset = blocks /\ tail = "none"

SavedInv ==
  ~read_error /\ have_saved_state =>
    IF have_saved_buffer
    THEN BufferAt(saved_buffer, saved_fd_offset, saved_buffer_read_pos)
         /\ saved_fd_offset < fd_offset
    ELSE BufferAt(read_buffer, saved_fd_offset, saved_buffer_read_pos)
         /\ saved_fd_offset = fd_offset

(* The inductive invariant: until an error, the buffer is the block before *)
(* the file offset, and a saved state, with the buffer set aside for it or *)
(* with the current one, is such a place too.                              *)
IInv ==
  /\ IsFile
  /\ read_error \in BOOLEAN /\ eof \in BOOLEAN
  /\ have_saved_state \in BOOLEAN /\ have_saved_buffer \in BOOLEAN
  /\ pc \in {"idle", "read", "skip"} /\ wanted \in Nat /\ (pc = "idle" => wanted = 0)
  /\ CurrentInv
  /\ SavedInv

(* A decompressed block has the length the file says. *)
LEMMA BlockLength ==
  ASSUME IsFile, NEW k \in 1..blocks
  PROVE  /\ BytesOfBlock(k) \in Seq(Int)
         /\ Len(BytesOfBlock(k)) = ends[k] - ends[k - 1]
         /\ Len(BytesOfBlock(k)) \in Nat \ {0}
<1>1. k - 1 \in 0..blocks /\ k \in 0..blocks /\ k - 1 < k
  BY DEF IsFile
<1>2. ends[k - 1] \in Nat /\ ends[k] \in Nat /\ ends[k - 1] < ends[k]
  BY <1>1 DEF IsFile
<1>3. ends[k] - ends[k - 1] \in Nat \ {0}
  BY <1>2
<1> QED
  BY <1>2, <1>3 DEF BytesOfBlock

(* A place in a buffer is a position at or before the end of its block. *)
LEMMA PositionOf ==
  ASSUME IsFile, NEW buf, NEW offset, NEW read_pos, BufferAt(buf, offset, read_pos)
  PROVE  /\ Position(offset, buf, read_pos) \in Nat
         /\ Position(offset, buf, read_pos) <= ends[offset]
         /\ Position(offset, buf, read_pos) = ends[offset] <=> read_pos = Len(buf)
         /\ Len(buf) \in Nat
         /\ ends[offset] \in Nat
<1>1. CASE offset = 0
  BY <1>1 DEF BufferAt, IsFile, Position
<1>2. CASE offset # 0
  <2>1. offset \in 1..blocks /\ buf = BytesOfBlock(offset)
    BY <1>2 DEF BufferAt, IsFile
  <2>2. ends[offset - 1] \in Nat /\ ends[offset] \in Nat
    BY <2>1 DEF IsFile
  <2> QED
    BY <2>1, <2>2, BlockLength DEF BufferAt, Position
<1> QED
  BY <1>1, <1>2

(* The start of a file, with nothing buffered. *)
LEMMA StartOfFile == IsFile => BufferAt(<<>>, 0, 0)
<1>1. Len(<<>>) = 0
  OBVIOUS
<1> QED
  BY <1>1 DEF BufferAt, IsFile

(* Which is position 0. *)
LEMMA StartPosition == ends[0] = 0 => Position(0, <<>>, 0) = 0
<1> DEFINE n == Len(<<>>)
<1>1. n = 0
  OBVIOUS
<1> HIDE DEF n
<1>2. ends[0] = 0 => ends[0] - n + 0 = 0
  BY <1>1
<1> QED
  BY <1>2 DEF Position, n

(* A sequence is the function of its elements. *)
LEMMA SeqIsFunction ==
  ASSUME NEW n \in Nat, NEW t \in Seq(Int), Len(t) = n
  PROVE  t = [i \in 1..n |-> t[i]]
  OBVIOUS

(* The invariant of a reader just opened. *)
LEMMA InitInv == ReaderInit => IInv
<1> SUFFICES ASSUME ReaderInit PROVE IInv
  OBVIOUS
<1>1. IsFile
  BY DEF ReaderInit, IsFile
<1>2. CurrentInv
  BY <1>1, StartOfFile DEF ReaderInit, CurrentInv, IsFile
<1> QED
  BY <1>1, <1>2 DEF ReaderInit, IInv, SavedInv

(* Reading the next block keeps the invariant, whatever it finds. *)
LEMMA RefillInv ==
  ASSUME IInv, ~read_error, refill_buffer, UNCHANGED contentV, UNCHANGED callV
  PROVE  IInv'
<1>1. IsFile' /\ (pc' \in {"idle", "read", "skip"} /\ wanted' \in Nat /\ (pc' = "idle" => wanted' = 0))
  BY DEF IInv, IsFile, contentV, callV, Tails
<1>2. /\ read_error' \in BOOLEAN /\ eof' \in BOOLEAN
      /\ have_saved_state' \in BOOLEAN /\ have_saved_buffer' \in BOOLEAN
  BY DEF IInv, refill_buffer, SetBufferAside, AtEndOfFile
<1>3. CASE read_error'
  BY <1>1, <1>2, <1>3 DEF IInv, CurrentInv, SavedInv
<1>4. CASE ~read_error'
  <2>1. /\ fd_offset \in 0..(blocks - 1) /\ fd_offset' = fd_offset + 1
        /\ read_buffer' = BytesOfBlock(fd_offset + 1) /\ buffer_read_pos' = 0
        /\ eof' = (eof \/ AtEndOfFile(fd_offset + 1))
    BY <1>4 DEF refill_buffer, IInv, CurrentInv, BufferAt, IsFile
  <2>2. BufferAt(read_buffer, fd_offset, buffer_read_pos)'
    BY <2>1, BlockLength DEF IInv, BufferAt, contentV, BytesOfBlock, IsFile
  <2>3. CurrentInv'
    <3>1. blocks \in Nat /\ blocks' = blocks /\ tail' = tail /\ eof \in BOOLEAN
      BY DEF IInv, IsFile, contentV
    <3>2. eof <=> fd_offset = blocks /\ tail = "none"
      BY DEF IInv, CurrentInv
    <3>3. ~eof
      BY <2>1, <3>1, <3>2
    <3>4. eof' <=> AtEndOfFile(fd_offset + 1)
      BY <2>1, <3>3 DEF AtEndOfFile
    <3>5. AtEndOfFile(fd_offset + 1) <=> fd_offset' = blocks' /\ tail' = "none"
      BY <2>1, <3>1 DEF AtEndOfFile
    <3> QED
      BY <2>2, <3>4, <3>5 DEF CurrentInv
  <2>4. SavedInv'
    <3> SUFFICES ASSUME have_saved_state
                 PROVE  SavedInv'
      BY DEF SavedInv, refill_buffer
    <3>1. /\ have_saved_state' = have_saved_state /\ saved_fd_offset' = saved_fd_offset
          /\ saved_buffer_read_pos' = saved_buffer_read_pos
          /\ blocks' = blocks /\ ends' = ends
      BY DEF refill_buffer, contentV
    <3>2. have_saved_buffer' /\ have_saved_buffer \in BOOLEAN
      BY DEF refill_buffer, SetBufferAside, IInv
    <3>3. /\ BufferAt(saved_buffer', saved_fd_offset, saved_buffer_read_pos)
          /\ saved_fd_offset <= fd_offset
      <4>1. CASE have_saved_buffer
        BY <2>1, <4>1 DEF refill_buffer, SetBufferAside, IInv, SavedInv, BufferAt
      <4>2. CASE ~have_saved_buffer
        BY <2>1, <4>2 DEF refill_buffer, SetBufferAside, IInv, SavedInv
      <4> QED
        BY <3>2, <4>1, <4>2
    <3>4. BufferAt(saved_buffer, saved_fd_offset, saved_buffer_read_pos)'
      BY <3>1, <3>3 DEF BufferAt, BytesOfBlock
    <3>5. saved_fd_offset' < fd_offset'
      BY <2>1, <3>1, <3>3 DEF BufferAt
    <3> QED
      BY <3>2, <3>4, <3>5 DEF SavedInv
  <2> QED
    BY <1>1, <1>2, <2>3, <2>4 DEF IInv
<1> QED
  BY <1>3, <1>4

(* Every step keeps the invariant. *)
LEMMA NextInv == IInv /\ [ReaderNext]_readerV => IInv'
<1> SUFFICES ASSUME IInv, [ReaderNext]_readerV PROVE IInv'
  OBVIOUS
<1> USE DEF IsFile, CurrentInv, SavedInv, BufferAt, BytesOfBlock, contentV, saveV, stateV, callV
<1>1. CASE Call
  BY <1>1 DEF Call, IInv
<1>2. CASE TakeBytes
  <2>1. Len(read_buffer) \in Nat /\ buffer_read_pos \in 0..Len(read_buffer)
    BY <1>2, PositionOf DEF TakeBytes, IInv
  <2>2. /\ buffer_read_pos' \in 0..Len(read_buffer) /\ wanted' \in Nat /\ pc # "idle"
    BY <1>2, <2>1 DEF TakeBytes, Smaller, IInv
  <2> QED
    BY <1>2, <2>2 DEF TakeBytes, IInv
<1>3. CASE Refill
  BY <1>3, RefillInv DEF Refill
<1>4. CASE Return
  BY <1>4 DEF Return, IInv
<1>5. CASE get_buffer
  <2>1. CASE buffer_read_pos >= Len(read_buffer) /\ ~eof
    BY <1>5, <2>1, RefillInv DEF get_buffer
  <2>2. CASE ~(buffer_read_pos >= Len(read_buffer) /\ ~eof)
    BY <1>5, <2>2 DEF get_buffer, IInv
  <2> QED
    BY <2>1, <2>2
<1>6. CASE rewind
  <2>1. BufferAt(<<>>, 0, 0)'
    BY <1>6, StartOfFile DEF rewind, IInv
  <2> QED
    BY <1>6, <2>1 DEF rewind, IInv
<1>7. CASE save_state
  BY <1>7 DEF save_state, IInv
<1>8. CASE restore_state
  <2>1. IsFile' /\ SavedInv' /\ pc' = pc /\ wanted' = wanted
    BY <1>8 DEF restore_state, IInv
  <2>2. ~read_error => BufferAt(read_buffer, fd_offset, buffer_read_pos)'
    BY <1>8 DEF restore_state, IInv
  <2>3. ~read_error => (eof' <=> fd_offset' = blocks' /\ tail' = "none")
    BY <1>8 DEF restore_state, eof_restored, IInv
  <2>4. eof' \in BOOLEAN
    BY <1>8 DEF restore_state, eof_restored, IInv
  <2> QED
    BY <1>8, <2>1, <2>2, <2>3, <2>4 DEF restore_state, IInv
<1>9. CASE discard_state
  BY <1>9 DEF discard_state, IInv
<1>10. CASE copy_constructor
  BY <1>10 DEF copy_constructor, IInv
<1>11. CASE UNCHANGED readerV
  BY <1>11 DEF readerV, IInv
<1> QED
  BY <1>1, <1>2, <1>3, <1>4, <1>5, <1>6, <1>7, <1>8, <1>9, <1>10, <1>11 DEF ReaderNext

(* The invariant holds of every run of a reader. *)
THEOREM Invariant == ReaderSpec => []IInv
<1> QED
  BY InitInv, NextInv, PTL DEF ReaderSpec

-----------------------------------------------------------------------------
(* at_end() is true exactly when every byte of a whole file has been read. *)
THEOREM EndExact == ReaderSpec => []AtEndExact
<1>1. IInv => AtEndExact
  <2> SUFFICES ASSUME IInv, ~read_error
               PROVE  at_end <=> tail = "none" /\ CurrentPosition = ends[blocks]
    BY DEF AtEndExact
  <2>1. IsFile /\ BufferAt(read_buffer, fd_offset, buffer_read_pos)
    BY DEF IInv, CurrentInv
  <2>2. /\ CurrentPosition <= ends[fd_offset] /\ CurrentPosition \in Nat
        /\ CurrentPosition = ends[fd_offset] <=> buffer_read_pos = Len(read_buffer)
        /\ ends[fd_offset] \in Nat
    BY <2>1, PositionOf DEF CurrentPosition
  <2>3. fd_offset # blocks => ends[fd_offset] < ends[blocks]
    BY <2>1 DEF IsFile, BufferAt
  <2>4. ends[blocks] \in Nat
    BY <2>1 DEF IsFile
  <2>5. eof <=> fd_offset = blocks /\ tail = "none"
    BY DEF IInv, CurrentInv
  <2>6. CASE fd_offset = blocks
    BY <2>2, <2>5, <2>6 DEF at_end
  <2>7. CASE fd_offset # blocks
    <3>1. CurrentPosition # ends[blocks]
      BY <2>2, <2>3, <2>4, <2>7
    <3> QED
      BY <2>5, <2>7, <3>1 DEF at_end
  <2> QED
    BY <2>6, <2>7
<1> QED
  BY <1>1, Invariant, PTL

-----------------------------------------------------------------------------
(* The saved position of the stream. *)
AbsSaved == IF read_error \/ ~have_saved_state THEN -1 ELSE SavedPosition

(* A reader just opened is at the start of its stream. *)
LEMMA InitRefines == ReaderInit => Abstract!Init
<1> SUFFICES ASSUME ReaderInit PROVE Abstract!Init
  OBVIOUS
<1>1. IInv
  BY InitInv
<1>2. ends[blocks] \in Nat
  BY <1>1 DEF IInv, IsFile
<1>3. CurrentPosition = 0
  BY <1>1, StartPosition DEF ReaderInit, CurrentPosition, IInv, IsFile
<1> QED
  BY <1>2, <1>3 DEF ReaderInit, Abstract!Init, Abstract!NoPos

(* The bytes taken from the buffer are the ones at the position. *)
LEMMA TakeRefines == ASSUME IInv, TakeBytes PROVE Abstract!Advance
<1> DEFINE amount == Smaller(wanted, Len(read_buffer) - buffer_read_pos)
<1>1. IsFile /\ BufferAt(read_buffer, fd_offset, buffer_read_pos) /\ ~read_error
  BY DEF TakeBytes, IInv, CurrentInv
<1>2. /\ Len(read_buffer) \in Nat /\ buffer_read_pos \in 0..Len(read_buffer)
      /\ ends[fd_offset] \in Nat /\ CurrentPosition \in Nat
  BY <1>1, PositionOf DEF BufferAt, CurrentPosition
<1>3. /\ amount \in 1..wanted /\ buffer_read_pos + amount <= Len(read_buffer)
      /\ wanted \in Nat /\ amount \in Nat \ {0}
  BY <1>2 DEF TakeBytes, Smaller, IInv
<1>4. CurrentPosition' = CurrentPosition + amount
  BY <1>2, <1>3 DEF CurrentPosition, Position, TakeBytes, contentV
<1>5. CurrentPosition + amount <= ends[blocks]
  <2>1. CurrentPosition + amount <= ends[fd_offset]
    BY <1>2, <1>3 DEF CurrentPosition, Position
  <2>2. ends[fd_offset] <= ends[blocks] /\ ends[blocks] \in Nat
    BY <1>1, <1>2 DEF IsFile, BufferAt
  <2> QED
    BY <2>1, <2>2, <1>2, <1>3
<1>6. SubSeq(read_buffer, buffer_read_pos + 1, buffer_read_pos + amount)
        = Abstract!Slice(CurrentPosition, amount)
  <2>1. fd_offset \in 1..blocks /\ read_buffer = BytesOfBlock(fd_offset)
    <3>1. fd_offset # 0
      BY <1>1, <1>2 DEF BufferAt, TakeBytes
    <3> QED
      BY <1>1, <3>1 DEF BufferAt, IsFile
  <2>2. /\ read_buffer \in Seq(Int) /\ Len(read_buffer) = ends[fd_offset] - ends[fd_offset - 1]
        /\ ends[fd_offset - 1] \in Nat
    BY <1>1, <2>1, BlockLength DEF IsFile
  <2>3. CurrentPosition = ends[fd_offset - 1] + buffer_read_pos
    BY <1>2, <2>2 DEF CurrentPosition, Position
  <2>4. \A i \in 1..amount :
          SubSeq(read_buffer, buffer_read_pos + 1, buffer_read_pos + amount)[i]
            = CurrentPosition + i - 1
    <3> SUFFICES ASSUME NEW i \in 1..amount
                 PROVE  SubSeq(read_buffer, buffer_read_pos + 1, buffer_read_pos + amount)[i]
                          = CurrentPosition + i - 1
      OBVIOUS
    <3> HIDE DEF amount
    <3>1. SubSeq(read_buffer, buffer_read_pos + 1, buffer_read_pos + amount)[i]
            = read_buffer[buffer_read_pos + i]
      BY <1>2, <1>3, <2>2
    <3>2. buffer_read_pos + i \in 1..(ends[fd_offset] - ends[fd_offset - 1])
      BY <1>2, <1>3, <2>2
    <3>3. read_buffer[buffer_read_pos + i] = ends[fd_offset - 1] + (buffer_read_pos + i) - 1
      BY <2>1, <3>2 DEF BytesOfBlock
    <3> QED
      BY <3>1, <3>3, <2>2, <2>3, <1>2, <1>3
  <2>5. /\ SubSeq(read_buffer, buffer_read_pos + 1, buffer_read_pos + amount) \in Seq(Int)
        /\ Len(SubSeq(read_buffer, buffer_read_pos + 1, buffer_read_pos + amount)) = amount
    <3> HIDE DEF amount
    <3> QED
      BY <1>2, <1>3, <2>2
  <2>6. SubSeq(read_buffer, buffer_read_pos + 1, buffer_read_pos + amount)
          = [i \in 1..amount |-> CurrentPosition + i - 1]
    <3> HIDE DEF amount
    <3> DEFINE t == SubSeq(read_buffer, buffer_read_pos + 1, buffer_read_pos + amount)
    <3>1. t = [i \in 1..amount |-> t[i]]
      <4> HIDE DEF t
      <4>1. t \in Seq(Int) /\ Len(t) = amount /\ amount \in Nat
        BY <2>5, <1>3 DEF t
      <4> QED
        BY <4>1, SeqIsFunction
    <3> QED
      BY <3>1, <2>4
  <2> QED
    BY <2>6 DEF Abstract!Slice
<1>7. AbsSaved' = AbsSaved
  BY DEF TakeBytes, AbsSaved, SavedPosition, Position, contentV, saveV
<1> HIDE DEF amount
<1>8. data' = IF pc = "read" THEN data \o Abstract!Slice(CurrentPosition, amount) ELSE data
  BY <1>6 DEF TakeBytes, amount, IInv
<1>9. wanted' = wanted - amount /\ pc # "idle" /\ pc' = pc /\ read_error' = read_error /\ contentV' = contentV
  BY DEF TakeBytes, amount
<1> QED
  BY <1>1, <1>3, <1>4, <1>5, <1>7, <1>8, <1>9 DEF Abstract!Advance, AbsSaved, contentV

(* Reading the next block leaves the position where it was, and fails only *)
(* at the end of what the file holds.                                      *)
LEMMA RefillRefines ==
  ASSUME IInv, ~read_error, refill_buffer, UNCHANGED contentV, UNCHANGED callV,
         buffer_read_pos >= Len(read_buffer), wanted > 0 \/ ~eof
  PROVE  Abstract!Fail \/ UNCHANGED Abstract!vars
<1>1. IsFile /\ BufferAt(read_buffer, fd_offset, buffer_read_pos)
  BY DEF IInv, CurrentInv
<1>2. Len(read_buffer) \in Nat /\ buffer_read_pos = Len(read_buffer) /\ ends[fd_offset] \in Nat
      /\ fd_offset \in 0..blocks
  <2>1. Len(read_buffer) \in Nat /\ ends[fd_offset] \in Nat
    BY <1>1, PositionOf
  <2> QED
    BY <1>1, <2>1 DEF BufferAt
<1>3. CurrentPosition = ends[fd_offset]
  BY <1>2 DEF CurrentPosition, Position
<1>4. CASE read_error'
  <2>1. fd_offset = blocks
    <3>1. fd_offset >= blocks
      BY <1>4 DEF refill_buffer
    <3> QED
      BY <1>1, <1>2, <3>1 DEF IsFile
  <2>2. wanted > 0 \/ ~(tail = "none")
    BY <2>1 DEF IInv, CurrentInv
  <2> QED
    BY <1>3, <1>4, <2>1, <2>2 DEF Abstract!Fail, Abstract!NoPos, contentV, callV
<1>5. CASE ~read_error'
  <2>1. /\ fd_offset + 1 \in 1..blocks /\ fd_offset' = fd_offset + 1
        /\ read_buffer' = BytesOfBlock(fd_offset + 1) /\ buffer_read_pos' = 0 /\ ends' = ends
    BY <1>1, <1>2, <1>5 DEF refill_buffer, IsFile, contentV
  <2>2. /\ Len(BytesOfBlock(fd_offset + 1)) = ends[fd_offset + 1] - ends[fd_offset]
        /\ ends[fd_offset + 1] \in Nat
    <3>1. (fd_offset + 1) - 1 = fd_offset
      BY <1>2
    <3>2. Len(BytesOfBlock(fd_offset + 1)) = ends[fd_offset + 1] - ends[(fd_offset + 1) - 1]
      BY <1>1, <2>1, BlockLength
    <3>3. fd_offset + 1 \in 0..blocks
      BY <1>1, <2>1 DEF IsFile
    <3> QED
      BY <1>1, <3>1, <3>2, <3>3 DEF IsFile
  <2>3. CurrentPosition' = CurrentPosition
    BY <1>2, <1>3, <2>1, <2>2 DEF CurrentPosition, Position
  <2>4. have_saved_state => SavedPosition' = SavedPosition
    BY <2>1 DEF refill_buffer, SetBufferAside, SavedPosition, Position, IInv
  <2>5. have_saved_state' = have_saved_state
    BY DEF refill_buffer
  <2> QED
    BY <1>5, <2>3, <2>4, <2>5 DEF Abstract!vars, contentV, callV
<1> QED
  BY <1>4, <1>5 DEF refill_buffer, IInv

(* Every step is a step of the stream, or none. *)
LEMMA NextRefines == IInv /\ [ReaderNext]_readerV => [Abstract!Next]_(Abstract!vars)
<1> SUFFICES ASSUME IInv, [ReaderNext]_readerV
             PROVE  Abstract!Next \/ UNCHANGED Abstract!vars
  OBVIOUS
<1> USE DEF contentV, saveV, stateV, callV, CurrentPosition, SavedPosition, Position
<1>1. CASE Call
  <2>1. wanted' \in Nat
    BY <1>1 DEF Call
  <2> QED
    BY <1>1, <2>1 DEF Call, Abstract!Call, Abstract!Next
<1>2. CASE TakeBytes
  BY <1>2, TakeRefines DEF Abstract!Next
<1>3. CASE Refill
  BY <1>3, RefillRefines DEF Refill, Abstract!Next
<1>4. CASE Return
  BY <1>4 DEF Return, Abstract!Return, Abstract!Next
<1>5. CASE get_buffer
  <2>1. CASE buffer_read_pos >= Len(read_buffer) /\ ~eof
    BY <1>5, <2>1, RefillRefines DEF get_buffer, Abstract!Next
  <2>2. CASE ~(buffer_read_pos >= Len(read_buffer) /\ ~eof)
    BY <1>5, <2>2 DEF get_buffer, Abstract!vars
  <2> QED
    BY <2>1, <2>2
<1>6. CASE rewind
  <2>1. ends[0] = 0
    BY DEF IInv, IsFile
  <2>2. CurrentPosition' = 0
    BY <1>6, <2>1, StartPosition DEF rewind
  <2> QED
    BY <1>6, <2>2 DEF rewind, Abstract!Rewind, Abstract!Next, Abstract!NoPos
<1>7. CASE save_state
  <2>1. ~read_error => CurrentPosition = SavedPosition'
    BY <1>7 DEF save_state
  <2> QED
    BY <1>7, <2>1 DEF save_state, Abstract!Save, Abstract!Next
<1>8. CASE restore_state
  <2>1. CurrentPosition' = SavedPosition
    BY <1>8 DEF restore_state, IInv
  <2> QED
    BY <1>8, <2>1 DEF restore_state, Abstract!Restore, Abstract!Next, Abstract!NoPos
<1>9. CASE discard_state
  BY <1>9 DEF discard_state, Abstract!Discard, Abstract!Next, Abstract!NoPos
<1>10. CASE copy_constructor
  BY <1>10 DEF copy_constructor, Abstract!vars
<1>11. CASE UNCHANGED readerV
  BY <1>11 DEF readerV, Abstract!vars
<1> QED
  BY <1>1, <1>2, <1>3, <1>4, <1>5, <1>6, <1>7, <1>8, <1>9, <1>10, <1>11 DEF ReaderNext

(* The blocks, the buffer and the one set aside implement a stream with a  *)
(* position: read() returns the bytes at it in order, save_state() and     *)
(* restore_state() around any reads go back to it, and errors come only at *)
(* the end of what the file holds.                                         *)
THEOREM Refinement == ReaderSpec => ImplementsStreamReader
<1> QED
  BY InitRefines, NextRefines, Invariant, PTL
     DEF ReaderSpec, ImplementsStreamReader, Abstract!Spec
=============================================================================

--------------------------- MODULE CompressedReader ---------------------------
(***************************************************************************)
(* Reading a trace substream back (CompressedReader.cc): blocks of the     *)
(* file that CompressedWriter wrote are decompressed one at a time into a  *)
(* buffer, which read() and skip() take bytes from.  A position can be     *)
(* saved; the buffer it is in is set aside when the next block is read.    *)
(*                                                                         *)
(* An action is a call, or one turn of the loop of read() and skip().  The *)
(* byte at stream position p is p itself.  A file is its whole blocks and  *)
(* what follows them; fd_offset counts blocks.  read_buffer, read_error    *)
(* and wanted are the code's buffer, error and size.                       *)
(***************************************************************************)
EXTENDS Integers, Sequences

CONSTANTS MaxBlocks,    \* bound: whole blocks in a file
          MaxFile,      \* bound: bytes in them
          MaxRequest    \* bound: bytes in one call of read() or skip()

VARIABLES blocks, ends, \* the file: ends[k] is where its k-th block ends
          tail,         \* what follows: "none", or a block that was cut in
                        \* its header or its data, or is corrupt
          fd_offset, read_error, eof, read_buffer, buffer_read_pos,
          have_saved_state, have_saved_buffer, saved_fd_offset, saved_buffer,
          saved_buffer_read_pos,
          pc, wanted,   \* the call being made, bytes left to read
          data          \* what the last read() copied

contentV == <<blocks, ends, tail>>
saveV    == <<have_saved_state, have_saved_buffer, saved_fd_offset, saved_buffer,
              saved_buffer_read_pos>>
stateV   == <<fd_offset, read_error, eof, read_buffer, buffer_read_pos>>
callV    == <<pc, wanted, data>>
readerV  == <<contentV, saveV, stateV, callV>>

Tails == {"none", "header", "data", "corrupt"}
BytesOfBlock(k) == [i \in 1..(ends[k] - ends[k - 1]) |-> ends[k - 1] + i - 1]
Garbage == <<-1>>

-----------------------------------------------------------------------------
(* The constructor opens a file that is not empty, or fails to. *)
ReaderInit ==
  /\ blocks \in 0..MaxBlocks
  /\ ends \in {e \in [0..blocks -> 0..MaxFile] :
                 e[0] = 0 /\ \A j, k \in 0..blocks : j < k => e[j] < e[k]}
  /\ tail \in Tails /\ (blocks = 0 => tail # "none")
  /\ fd_offset = 0 /\ read_error \in BOOLEAN /\ eof = FALSE
  /\ read_buffer = <<>> /\ buffer_read_pos = 0
  /\ have_saved_state = FALSE /\ have_saved_buffer = FALSE /\ saved_fd_offset = 0
  /\ saved_buffer = <<>> /\ saved_buffer_read_pos = 0
  /\ pc = "idle" /\ wanted = 0 /\ data = <<>>

(* Mutant: the position is saved, and the buffer it is in overwritten. *)
SetBufferAside_Not == UNCHANGED <<have_saved_buffer, saved_buffer>>

SetBufferAside ==
  IF have_saved_state /\ ~have_saved_buffer
  THEN have_saved_buffer' = TRUE /\ saved_buffer' = read_buffer
  ELSE UNCHANGED <<have_saved_buffer, saved_buffer>>

(* pread() of one byte finds nothing. *)
AtEndOfFile(offset) == offset > blocks \/ (offset = blocks /\ tail = "none")

refill_buffer ==
  /\ SetBufferAside
  /\ \/ /\ fd_offset < blocks
        /\ fd_offset' = fd_offset + 1
        /\ read_buffer' = BytesOfBlock(fd_offset + 1) /\ buffer_read_pos' = 0
        /\ eof' = (eof \/ AtEndOfFile(fd_offset + 1))
        /\ UNCHANGED read_error
     \/ /\ fd_offset >= blocks /\ tail = "corrupt"
        /\ fd_offset' = fd_offset + 1
        /\ read_buffer' = Garbage /\ buffer_read_pos' = 0
        /\ eof' = (eof \/ AtEndOfFile(fd_offset + 1))
        /\ read_error' = TRUE
     \/ /\ fd_offset >= blocks /\ tail # "corrupt"
        /\ read_buffer' = IF have_saved_buffer' = have_saved_buffer THEN read_buffer ELSE saved_buffer
        /\ read_error' = TRUE
        /\ UNCHANGED <<fd_offset, buffer_read_pos, eof>>
  /\ UNCHANGED <<have_saved_state, saved_fd_offset, saved_buffer_read_pos>>

-----------------------------------------------------------------------------
Call ==
  /\ pc = "idle"
  /\ pc' \in {"read", "skip"} /\ wanted' \in 0..MaxRequest /\ data' = <<>>
  /\ UNCHANGED <<contentV, saveV, stateV>>

Smaller(a, b) == IF a <= b THEN a ELSE b

TakeBytes ==
  /\ pc # "idle" /\ wanted > 0 /\ ~read_error
  /\ buffer_read_pos < Len(read_buffer)
  /\ LET amount == Smaller(wanted, Len(read_buffer) - buffer_read_pos)
     IN /\ buffer_read_pos' = buffer_read_pos + amount
        /\ wanted' = wanted - amount
        /\ data' = IF pc = "skip" THEN data
                   ELSE data \o SubSeq(read_buffer, buffer_read_pos + 1, buffer_read_pos + amount)
  /\ UNCHANGED <<contentV, saveV, fd_offset, read_error, eof, read_buffer, pc>>

Refill ==
  /\ pc # "idle" /\ wanted > 0 /\ ~read_error
  /\ buffer_read_pos >= Len(read_buffer)
  /\ refill_buffer
  /\ UNCHANGED <<contentV, callV>>

Return ==
  /\ pc # "idle" /\ (wanted = 0 \/ read_error)
  /\ pc' = "idle" /\ wanted' = 0
  /\ UNCHANGED <<contentV, saveV, stateV, data>>

(* Shows the buffered bytes; reads a block if there are none. *)
get_buffer ==
  /\ pc = "idle" /\ ~read_error
  /\ IF buffer_read_pos >= Len(read_buffer) /\ ~eof THEN refill_buffer
     ELSE UNCHANGED <<saveV, stateV>>
  /\ UNCHANGED <<contentV, callV>>

rewind ==
  /\ pc = "idle" /\ ~have_saved_state
  /\ fd_offset' = 0 /\ buffer_read_pos' = 0 /\ read_buffer' = <<>> /\ eof' = FALSE
  /\ UNCHANGED <<contentV, saveV, read_error, callV>>

save_state ==
  /\ pc = "idle" /\ ~have_saved_state
  /\ have_saved_state' = TRUE /\ have_saved_buffer' = FALSE
  /\ saved_fd_offset' = fd_offset /\ saved_buffer_read_pos' = buffer_read_pos
  /\ UNCHANGED <<contentV, stateV, saved_buffer, callV>>

(* Mutant: the end of the file is still remembered. *)
eof_restored_not == eof

eof_restored == IF saved_fd_offset < fd_offset THEN FALSE ELSE eof

restore_state ==
  /\ pc = "idle" /\ have_saved_state
  /\ have_saved_state' = FALSE
  /\ eof' = eof_restored
  /\ fd_offset' = saved_fd_offset
  /\ IF have_saved_buffer THEN read_buffer' = saved_buffer /\ saved_buffer' = <<>>
     ELSE UNCHANGED <<read_buffer, saved_buffer>>
  /\ buffer_read_pos' = saved_buffer_read_pos
  /\ UNCHANGED <<contentV, read_error, have_saved_buffer, saved_fd_offset,
                 saved_buffer_read_pos, callV>>

discard_state ==
  /\ pc = "idle" /\ have_saved_state
  /\ have_saved_state' = FALSE
  /\ saved_buffer' = IF have_saved_buffer THEN <<>> ELSE saved_buffer
  /\ UNCHANGED <<contentV, stateV, have_saved_buffer, saved_fd_offset,
                 saved_buffer_read_pos, callV>>

(* A copied reader, which the cloned session goes on with, has the         *)
(* original's place and nothing saved.                                     *)
copy_constructor ==
  /\ pc = "idle" /\ ~have_saved_state
  /\ have_saved_buffer' = FALSE /\ saved_fd_offset' = 0 /\ saved_buffer' = <<>>
  /\ saved_buffer_read_pos' = 0
  /\ UNCHANGED <<contentV, stateV, have_saved_state, callV>>

ReaderNext ==
  \/ Call \/ TakeBytes \/ Refill \/ Return \/ get_buffer \/ rewind
  \/ save_state \/ restore_state \/ discard_state \/ copy_constructor

ReaderSpec == ReaderInit /\ [][ReaderNext]_readerV

-----------------------------------------------------------------------------
at_end == eof /\ buffer_read_pos = Len(read_buffer)

(* Where in the stream a place in the file and a buffer are. *)
Position(offset, buf, read_pos) == ends[offset] - Len(buf) + read_pos
CurrentPosition == Position(fd_offset, read_buffer, buffer_read_pos)
SavedPosition ==
  Position(saved_fd_offset, IF have_saved_buffer THEN saved_buffer ELSE read_buffer,
           saved_buffer_read_pos)

(* The end is reported exactly when every byte of a whole file has been    *)
(* read: a cut or damaged file never looks complete, and going back to a   *)
(* saved position takes the end back.                                      *)
AtEndExact ==
  ~read_error => (at_end <=> tail = "none" /\ CurrentPosition = ends[blocks])

Abstract == INSTANCE StreamReader WITH
  length <- ends[blocks], whole <- tail = "none", good <- ~read_error,
  pos <- IF read_error THEN -1 ELSE CurrentPosition,
  saved <- IF read_error \/ ~have_saved_state THEN -1 ELSE SavedPosition,
  op <- pc, size <- wanted

(* To the trace reader the blocks, the buffers and the saved ones are a    *)
(* stream with a position: every read returns the bytes at it, in order,   *)
(* looking ahead and back changes nothing, and an error comes only where   *)
(* the file ends.                                                          *)
ImplementsStreamReader == Abstract!Spec
=============================================================================

---------------------------- MODULE WatchRegisters ----------------------------
(***************************************************************************)
(* How a watched range of memory is spread over x86 debug registers.  A    *)
(* register watches 1, 2, 4 or 8 bytes at an address that is a multiple of *)
(* that length, so AddressSpace.cc cuts a range into such pieces, and for  *)
(* a write watchpoint may watch a little more when that saves registers.   *)
(***************************************************************************)
EXTENDS Integers, Sequences, FiniteSets, SequencesExt

WatchTypes == {"exec", "write", "readwrite"}

MemoryRange(s, e) == [start |-> s, end |-> e]
SizeOf(r) == r.end - r.start
BytesOf(r) == r.start..(r.end - 1)

\* try_split_unaligned_range accepts a piece of this length.
CanSplit(start, size, bytes) == start % bytes = 0 /\ size >= bytes

\* The length of the next piece: the first of 8, 4, 2 and 1 that is accepted.
PieceLength(start, size) ==
  IF CanSplit(start, size, 8) THEN 8
  ELSE IF CanSplit(start, size, 4) THEN 4
  ELSE IF CanSplit(start, size, 2) THEN 2
  ELSE 1

\* split_range: pieces from the start of the range until nothing is left.
split_range(r) ==
  LET pieces[start \in r.start..r.end] ==
        IF start = r.end THEN << >>
        ELSE LET n == PieceLength(start, r.end - start)
             IN  <<MemoryRange(start, start + n)>> \o pieces[start + n]
  IN  pieces[r.start]

AlignOf(size) == IF size <= 2 THEN 2 ELSE IF size <= 4 THEN 4 ELSE 8

\* The smallest range around r whose ends are multiples of the alignment.
Widened(r) ==
  LET align == AlignOf(SizeOf(r))
  IN  MemoryRange((r.start \div align) * align,
                  ((r.end + align - 1) \div align) * align)

\* configure_watch_registers: the ranges of the registers for one watchpoint.
configure_watch_registers(r, type) ==
  LET exact == split_range(r)
      wide  == split_range(Widened(r))
  IN  IF type = "write" /\ SizeOf(r) > 1 /\ Len(wide) < Len(exact) THEN wide ELSE exact
=============================================================================

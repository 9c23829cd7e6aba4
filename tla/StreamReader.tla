----------------------------- MODULE StreamReader -----------------------------
(* What a CompressedReader promises to the trace reader: a position in a   *)
(* stream of bytes that reads advance, that can be saved, restored and     *)
(* rewound, and errors only at the end of what the file holds.  The byte   *)
(* at position p is p itself.                                              *)
EXTENDS Integers, Sequences

VARIABLES length,   \* bytes the file holds in whole blocks
          whole,    \* nothing follows them
          good,     \* good()
          pos,      \* where the next read starts, NoPos after an error
          saved,    \* the saved position or NoPos
          op,       \* the call being made: "idle", "read" or "skip"
          size,     \* bytes it still has to read
          data      \* what the last read() has returned so far

vars == <<length, whole, good, pos, saved, op, size, data>>

NoPos == -1
Slice(p, n) == [i \in 1..n |-> p + i - 1]

Init ==
  /\ length \in Nat /\ whole \in BOOLEAN /\ good \in BOOLEAN
  /\ pos = (IF good THEN 0 ELSE NoPos) /\ saved = NoPos
  /\ op = "idle" /\ size = 0 /\ data = <<>>

Call ==
  /\ op = "idle"
  /\ op' \in {"read", "skip"} /\ size' \in Nat /\ data' = <<>>
  /\ UNCHANGED <<length, whole, good, pos, saved>>

Advance ==
  /\ op # "idle" /\ good
  /\ \E n \in 1..size :
       /\ pos + n <= length
       /\ pos' = pos + n /\ size' = size - n
       /\ data' = IF op = "read" THEN data \o Slice(pos, n) ELSE data
  /\ UNCHANGED <<length, whole, good, saved, op>>

(* A read that asks for more than there is; or, of a file that was cut     *)
(* short or damaged, any look at what follows its last whole block.        *)
Fail ==
  /\ good /\ pos = length
  /\ size > 0 \/ ~whole
  /\ good' = FALSE /\ pos' = NoPos /\ saved' = NoPos
  /\ UNCHANGED <<length, whole, op, size, data>>

Return ==
  /\ op # "idle" /\ (size = 0 \/ ~good)
  /\ op' = "idle" /\ size' = 0
  /\ UNCHANGED <<length, whole, good, pos, saved, data>>

Save ==
  /\ op = "idle" /\ saved' = pos
  /\ UNCHANGED <<length, whole, good, pos, op, size, data>>

Restore ==
  /\ op = "idle" /\ pos' = saved /\ saved' = NoPos
  /\ UNCHANGED <<length, whole, good, op, size, data>>

Discard ==
  /\ op = "idle" /\ saved' = NoPos
  /\ UNCHANGED <<length, whole, good, pos, op, size, data>>

Rewind ==
  /\ op = "idle" /\ saved = NoPos
  /\ pos' = IF good THEN 0 ELSE NoPos
  /\ UNCHANGED <<length, whole, good, saved, op, size, data>>

Next == Call \/ Advance \/ Fail \/ Return \/ Save \/ Restore \/ Discard \/ Rewind

Spec == Init /\ [][Next]_vars
=============================================================================

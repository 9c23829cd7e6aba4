-------------------------- MODULE MCCompressedTrace --------------------------
(***************************************************************************)
(* The two ends of a trace substream for TLC.  A behaviour is one of a     *)
(* CompressedWriter or one of a CompressedReader (part), the other one     *)
(* rests: the reader at the start of a file, the writer with a file it     *)
(* could not open, where none of its threads has anything to do.           *)
(***************************************************************************)
EXTENDS CompressedWriter, CompressedReader

VARIABLE part   \* never changes

mcvars == <<vars, readerV, part>>

MCInit ==
  /\ part \in {"writer", "reader"}
  /\ Init /\ ReaderInit
  /\ IF part = "writer" THEN blocks = 0 /\ tail = "header" /\ read_error
     ELSE ~fd_open

MCNext ==
  /\ UNCHANGED part
  /\ \/ part = "writer" /\ Next /\ UNCHANGED readerV
     \/ part = "reader" /\ ReaderNext /\ UNCHANGED vars

MCSpec == MCInit /\ [][MCNext]_mcvars /\ Fairness
=============================================================================

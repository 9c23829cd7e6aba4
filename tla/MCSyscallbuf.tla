---------------------------- MODULE MCSyscallbuf ----------------------------
(* Instances of Syscallbuf for model checking.                             *)
EXTENDS Syscallbuf
=============================================================================

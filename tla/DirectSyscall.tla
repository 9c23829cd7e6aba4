---------------------------- MODULE DirectSyscall ----------------------------
(* What a program may expect of a system call, recorded or not: its        *)
(* arguments are as it left them when the call returns, the memory the     *)
(* kernel filled holds what the kernel put there, and nothing else of its  *)
(* memory changed except by its own threads.  A call that fails, or an     *)
(* output the kernel did not fill, may leave anything in the memory that   *)
(* was passed for output, and nowhere else (record_syscall.cc says as much *)
(* in process_syscall_results).                                            *)
VARIABLES umem,    \* the program's memory
          uargs,   \* its argument registers and system call number
          phase,   \* where the call is
          kout,    \* what the kernel wrote: a function on addresses
          outs     \* the addresses passed for output

vars == <<umem, uargs, phase, kout, outs>>

NoOutput == [a \in {} |-> 0]
OnlyOutputs(new) == \A a \in DOMAIN umem : a \notin outs => new[a] = umem[a]

Init == phase = "user" /\ kout = NoOutput

Enter ==
  /\ phase = "user" /\ phase' = "kernel"
  /\ OnlyOutputs(umem')
  /\ UNCHANGED <<uargs, kout, outs>>

(* An output appears at once, or when the call returns. *)
Complete ==
  /\ phase = "kernel" /\ phase' = "done"
  /\ DOMAIN kout' \subseteq outs
  /\ \A a \in DOMAIN umem : \/ umem'[a] = umem[a]
                            \/ a \in DOMAIN kout' /\ umem'[a] = kout'[a]
  /\ UNCHANGED <<uargs, outs>>

Return ==
  /\ phase = "done" /\ phase' = "returned"
  /\ OnlyOutputs(umem')
  /\ \A a \in DOMAIN kout : umem'[a] = kout[a]
  /\ kout' = NoOutput
  /\ UNCHANGED <<uargs, outs>>

(* A signal ends the call before it is done; it may be made again. *)
Interrupt ==
  /\ phase = "kernel" /\ phase' = "interrupted"
  /\ OnlyOutputs(umem')
  /\ UNCHANGED <<uargs, kout, outs>>

Restart ==
  /\ phase = "interrupted" /\ phase' = "kernel"
  /\ OnlyOutputs(umem')
  /\ UNCHANGED <<uargs, kout, outs>>

GiveUp ==
  /\ phase = "interrupted" /\ phase' = "returned"
  /\ UNCHANGED <<umem, uargs, kout, outs>>

(* A seccomp filter takes the call away. *)
Refuse ==
  /\ phase = "kernel" /\ phase' = "returned"
  /\ UNCHANGED <<umem, uargs, kout, outs>>

OtherThreadWrites ==
  /\ \E a \in DOMAIN umem : umem' = [umem EXCEPT ![a] = umem'[a]]
  /\ UNCHANGED <<uargs, phase, kout, outs>>

Next == \/ Enter \/ Complete \/ Return \/ Interrupt \/ Restart \/ GiveUp \/ Refuse
        \/ OtherThreadWrites

Spec == Init /\ [][Next]_vars
=============================================================================

-------------------------- MODULE BufferedPrograms --------------------------
(* Programs of three calls for BufferedSyscalls: each wrapper between two  *)
(* that return data, with a buffer that holds two records or so and with   *)
(* one that holds all three.                                               *)
EXTENDS SyscallWrappers

Call(c) == [call |-> c, fd_disabled |-> FALSE, refused |-> FALSE, cloned |-> FALSE]
Disabled(c) == [Call(c) EXCEPT !.fd_disabled = TRUE]
Refused(c) == [Call(c) EXCEPT !.refused = TRUE]
Cloned == [Call(sys_read) EXCEPT !.cloned = TRUE]
Probe == Call(sys_read)

Scenario(program, cap) ==
  [program |-> program, cap |-> cap, chaos |-> FALSE, forced |-> {}, traps |-> {}]

(* The calls for which a trap leaves the program's memory alone and is     *)
(* replayed as it was recorded: not futex, _llseek, time and mprotect.     *)
TrapSafe == {c.name : c \in syscall_hook_internal}
              \ {"futex", "_llseek", "time", "mprotect", "other", "read"}

BufferedScenarios ==
  {[Scenario(<<Probe, Call(c), Probe>>, 11) EXCEPT !.traps = TrapSafe] : c \in syscall_hook_internal}
  \cup {[Scenario(<<Call(sys_recvmsg), Call(c), Probe>>, 20) EXCEPT !.traps = {"recvmsg"}] :
          c \in {sys_recvmsg, sys_poll, sys_mprotect, sys_gettimeofday}}
  \cup {Scenario(<<m, Call(sys_mprotect), Call(sys_mprotect)>>, 20) :
          m \in {Call(sys_mprotect), Refused(sys_mprotect)}}
  \cup {Scenario(<<Cloned, Call(sys_write), Cloned>>, 30)}
  \cup {Scenario(<<Probe, Disabled(c), Probe>>, 20) : c \in {sys_read, sys_recvmsg}}
  \cup {Scenario(<<Probe, Refused(c), Probe>>, 20) : c \in {sys_open, sys_ptrace}}
  \cup {[Scenario(<<Probe, Call(c), Probe>>, 20) EXCEPT !.chaos = TRUE, !.forced = f] :
          c \in sys_futex \cup {sys_recvfrom}, f \in {{1}, {2, 3}}}
=============================================================================

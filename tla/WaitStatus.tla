------------------------------ MODULE WaitStatus ------------------------------
(***************************************************************************)
(* The wait status of a stopped or exited task (WaitStatus.cc): the        *)
(* encodings that the recorder makes for the statuses it emulates, and the *)
(* questions it asks of a status.  A status is the integer that waitpid()  *)
(* returns: bits 0-6 the fatal signal (127: stopped), bits 8-15 the exit   *)
(* code or the stop signal, bits 16-23 the ptrace event.                   *)
(***************************************************************************)
EXTENDS Integers

SIGKILL == 9
SIGUSR1 == 10
SIGTRAP == 5
SIGCHLD == 17
SIGCONT == 18
SIGSTOP == 19
SIGTSTP == 20

PTRACE_EVENT_FORK == 1
PTRACE_EVENT_CLONE == 3
PTRACE_EVENT_EXEC == 4
PTRACE_EVENT_EXIT == 6
PTRACE_EVENT_STOP == 128

(* The C library's readings of a status. *)
WIFEXITED(s) == s % 128 = 0
WIFSIGNALED(s) == s % 128 \in 1..126
WIFSTOPPED(s) == s % 256 = 127
WSTOPSIG(s) == (s \div 256) % 256
Event(s) == (s \div 65536) % 256

exit_code(s) == IF WIFEXITED(s) THEN WSTOPSIG(s) ELSE -1

fatal_sig(s) == IF WIFSIGNALED(s) THEN s % 128 ELSE 0

(* A signal with its 0x80 bit dropped; a status without one is a SIGSTOP. *)
SigOrStop(sig) == IF sig % 128 = 0 THEN SIGSTOP ELSE sig % 128

stop_sig(s) ==
  IF ~WIFSTOPPED(s) \/ Event(s) # 0 \/ WSTOPSIG(s) = SIGTRAP + 128
  THEN 0 ELSE SigOrStop(WSTOPSIG(s))

group_stop(s) ==
  IF ~WIFSTOPPED(s) \/ Event(s) # PTRACE_EVENT_STOP
  THEN 0 ELSE SigOrStop(WSTOPSIG(s))

ptrace_event(s) == IF Event(s) = PTRACE_EVENT_STOP THEN 0 ELSE Event(s)

is_syscall(s) ==
  WIFSTOPPED(s) /\ ptrace_event(s) = 0 /\ WSTOPSIG(s) = SIGTRAP + 128

ptrace_signal(s) == IF WIFSTOPPED(s) THEN WSTOPSIG(s) % 128 ELSE 0

type(s) ==
  CASE exit_code(s) >= 0 -> "EXIT"
    [] exit_code(s) < 0 /\ fatal_sig(s) > 0 -> "FATAL_SIGNAL"
    [] stop_sig(s) > 0 -> "SIGNAL_STOP"
    [] group_stop(s) > 0 -> "GROUP_STOP"
    [] stop_sig(s) = 0 /\ group_stop(s) = 0 /\ is_syscall(s) -> "SYSCALL_STOP"
    [] stop_sig(s) = 0 /\ ~is_syscall(s) /\ ptrace_event(s) > 0 -> "PTRACE_EVENT"

for_exit_code(code) == code * 256

for_fatal_sig(sig) == sig

for_stop_sig(sig) == sig * 256 + 127

(* The status of a group-stop: only a seized task's shows that it is one. *)
for_group_sig(sig, seized) ==
  sig * 256 + 127 + (IF seized THEN PTRACE_EVENT_STOP * 65536 ELSE 0)

(* The status of a syscall-stop: PTRACE_O_TRACESYSGOOD sets the 0x80 bit. *)
for_syscall(sysgood) ==
  SIGTRAP * 256 + 127 + (IF sysgood THEN 128 * 256 ELSE 0)

for_ptrace_event(event) == event * 65536 + SIGTRAP * 256 + 127

(* Every status that is made is read back as what it was made for; without *)
(* PTRACE_O_TRACESYSGOOD a syscall-stop, and without a seizure a           *)
(* group-stop, reads as the stop for its signal.                           *)
ASSUME StatusesReadBack ==
  /\ \A c \in 0..255 : type(for_exit_code(c)) = "EXIT" /\ exit_code(for_exit_code(c)) = c
  /\ \A sig \in 1..126 :
       /\ type(for_fatal_sig(sig)) = "FATAL_SIGNAL" /\ fatal_sig(for_fatal_sig(sig)) = sig
       /\ type(for_stop_sig(sig)) = "SIGNAL_STOP" /\ stop_sig(for_stop_sig(sig)) = sig
       /\ type(for_group_sig(sig, TRUE)) = "GROUP_STOP"
       /\ group_stop(for_group_sig(sig, TRUE)) = sig
       /\ for_group_sig(sig, FALSE) = for_stop_sig(sig)
  /\ type(for_syscall(TRUE)) = "SYSCALL_STOP" /\ ptrace_signal(for_syscall(TRUE)) = SIGTRAP
  /\ for_syscall(FALSE) = for_stop_sig(SIGTRAP)
  /\ \A e \in 1..127 : type(for_ptrace_event(e)) = "PTRACE_EVENT"
                       /\ ptrace_event(for_ptrace_event(e)) = e

===============================================================================

----------------------------- MODULE Syscallbuf -----------------------------
(***************************************************************************)
(* Syscall buffering while recording: the transaction that the preloaded   *)
(* library runs inside the tracee (preload/syscallbuf.c), the kernel that  *)
(* interrupts it, and the tracer that reacts to every ptrace stop          *)
(* (record_signal.cc, RecordSession.cc, RecordTask.cc).                    *)
(*                                                                         *)
(* One thread.  Its system calls are numbered in the order in which they   *)
(* are made.  The tracee runs one instruction of the protocol at a time;   *)
(* a signal may stop it before any of them.  The tracer runs only while    *)
(* the tracee is stopped, so what it does at one stop is one step.         *)
(*                                                                         *)
(* The signals are rr's own two and one that has a handler.  The tracer's  *)
(* bit of the lock, seccomp traps and rt_sigprocmask are not in this       *)
(* module.                                                                 *)
(***************************************************************************)
EXTENDS Integers, Sequences, FiniteSets, SequencesExt

CONSTANTS Kinds,          \* the kinds of system call the program makes
          MaxCalls,       \* bound: system calls made
          MaxUsr,         \* bound: signals sent to the program
          MaxSlices,      \* bound: expiries of the timeslice
          Capacity        \* records that fit in the syscall buffer

ASSUME ConstantsAssumption ==
    /\ Kinds \subseteq {"MAY_BLOCK", "WONT_BLOCK", "disabled_fd"}
    /\ MaxCalls \in Nat /\ MaxUsr \in Nat /\ MaxSlices \in Nat
    /\ Capacity \in Nat \ {0}

Signals == {"SIGPWR", "TIME_SLICE", "SIGUSR"}

VARIABLES
    frames,     \* the tracee's activation, below the one of its signal handler
    hdr,        \* the syscallbuf_hdr the tracee and the tracer share
    log,        \* the buffered records, and what the tracer did with them
    kernel,     \* the desched event, the pending signals, asleep in a syscall
    cpu,        \* how the tracee was resumed, and the stop it reported
    rr,         \* where the tracer is, its stashed signals and pending events
    done,       \* the calls the kernel completed, in this order
    sent        \* the numbers of signals and timeslices so far

vars == <<frames, hdr, log, kernel, cpu, rr, done, sent>>

Top   == frames[Len(frames)]
PC    == Top.pc
Goto(pc) == frames' = [frames EXCEPT ![Len(frames)].pc = pc]

\* The instructions of one transaction, between prep_syscall and the end of
\* commit_raw_syscall.  *_in is inside the kernel, *_out has a result and
\* *_rst is a call that the kernel left with -ERESTART*.
Prologue    == {"start", "setflag", "arm", "arm_in", "arm_out", "ut_entry"}
UntracedOut == {"ut_in", "ut_out", "ut_rst"}
Epilogue    == {"c_flag", "c_commit", "disarm", "disarm_in", "disarm_out", "unlock"}
Transaction == Prologue \union UntracedOut \union Epilogue
TracedPCs   == {"t_entry", "t_in", "t_out", "t_rst"}
PCs == {"app", "hook", "prep", "h_exit", "final"} \union Transaction \union TracedPCs

----------------------------------------------------------------------------
(* The buffer and the trace.                                               *)

\* RecordTask::maybe_flush_syscallbuf
maybe_flush_syscallbuf(l) ==
    IF l.buf = <<>> \/ l.flushed_syscallbuf THEN l
    ELSE [l EXCEPT !.trace = @ \o l.buf,
                   !.flushed_syscallbuf = TRUE,
                   !.flushed_num_rec = Len(l.buf)]

\* RecordTask::maybe_reset_syscallbuf
maybe_reset_syscallbuf(l) ==
    IF l.flushed_syscallbuf /\ ~l.delay_reset_for_desched
    THEN [l EXCEPT !.flushed_syscallbuf = FALSE, !.buf = <<>>]
    ELSE l

\* RecordTask::record_event of an event that tells something of the calls s.
\* An event with a reliable tick count lets the buffer be reset.
record_event(l, s) ==
    maybe_reset_syscallbuf([maybe_flush_syscallbuf(l) EXCEPT !.trace = @ \o s])

----------------------------------------------------------------------------
(* RecordTask: pending events and stashed signals.                         *)

Event(type, desched) == [type |-> type, desched |-> desched]

EvType(evs)  == IF evs = <<>> THEN "SENTINEL" ELSE Last(evs).type
desched_rec(evs) ==
    EvType(evs) \in {"DESCHED", "SYSCALL", "INTERRUPTION"} /\ Last(evs).desched
running_inside_desched(evs) ==
    /\ \E i \in DOMAIN evs : evs[i].type = "DESCHED"
    /\ ~desched_rec(evs)
at_may_restart_syscall(evs) == EvType(evs) = "INTERRUPTION"

\* RecordTask::stash_sig: signals of one number coalesce.
stash_sig(r, s) ==
    IF s \in Range(r.stashed) THEN r
    ELSE [r EXCEPT !.stashed = Append(@, s), !.break_at_traced = TRUE,
                   !.break_at_untraced = TRUE]

\* RecordTask::stashed_signal_processed
stashed_signal_processed(r) ==
    [r EXCEPT !.break_at_traced   = r.stashed # <<>>,
              !.break_at_untraced = r.stashed # <<>>]

Stopped(stop) == cpu' = [resume |-> "stopped", stop |-> stop]
Resume(how)   == cpu' = [resume |-> how, stop |-> "none"]
Running       == cpu.resume # "stopped"
OnSyscallStops == cpu.resume = "SYSCALL"

\* RecordTask::will_resume_execution: the breakpoints that are set.
BreakpointHere ==
    \/ PC = "ut_entry" /\ rr.break_at_untraced /\ ~at_may_restart_syscall(rr.ev)
    \/ /\ PC = "t_entry" /\ Top.sys = "call"
       /\ rr.break_at_traced /\ ~at_may_restart_syscall(rr.ev)
    \/ PC = "final" /\ rr.break_at_traced

----------------------------------------------------------------------------
(* The tracee.                                                             *)

Quiet == UNCHANGED <<log, kernel, cpu, rr, done, sent>>

\* The program executes code of its own.
Compute == Running /\ PC = "app" /\ UNCHANGED vars

\* The program makes a system call whose instruction rr has patched.
Call ==
    /\ Running /\ PC = "app" /\ sent.calls < MaxCalls
    /\ \E kind \in Kinds :
         frames' = [frames EXCEPT ![Len(frames)] =
                      [pc |-> "hook", sys |-> "call", kind |-> kind,
                       call |-> sent.calls + 1, ret |-> "h_exit"]]
    /\ sent' = [sent EXCEPT !.calls = @ + 1]
    /\ UNCHANGED <<hdr, log, kernel, cpu, rr, done>>

\* syscall_hook: a locked buffer means a signal handler inside a transaction.
syscall_hook ==
    /\ Running /\ PC = "hook"
    /\ frames' = [frames EXCEPT ![Len(frames)] =
                    IF hdr.locked THEN [@ EXCEPT !.pc = "t_entry", !.ret = "final"]
                                  ELSE [@ EXCEPT !.pc = "prep"]]
    /\ Quiet /\ UNCHANGED hdr

\* prep_syscall, prep_syscall_for_fd
prep_syscall ==
    /\ Running /\ PC = "prep"
    /\ IF Top.kind = "disabled_fd"
       THEN Goto("t_entry") /\ UNCHANGED hdr
       ELSE Goto("start") /\ hdr' = [hdr EXCEPT !.locked = TRUE]
    /\ Quiet

\* start_commit_buffered_syscall up to the desched flag: a record that does
\* not fit unlocks the buffer and falls back to a traced call.
start_commit_buffered_syscall ==
    /\ Running /\ PC = "start"
    /\ IF Len(log.buf) >= Capacity
       THEN Goto("t_entry") /\ hdr' = [hdr EXCEPT !.locked = FALSE]
       ELSE /\ Goto(IF Top.kind = "MAY_BLOCK" THEN "setflag" ELSE "ut_entry")
            /\ UNCHANGED hdr
    /\ Quiet

\* Mutant: the flag is not set before the event is armed.
SetRelevant_Dropped ==
    Running /\ PC = "setflag" /\ Goto("arm") /\ Quiet /\ UNCHANGED hdr

SetRelevant ==
    /\ Running /\ PC = "setflag"
    /\ hdr' = [hdr EXCEPT !.relevant = TRUE]
    /\ Goto("arm")
    /\ Quiet

\* A privileged ioctl that is not traced; only a tracer that resumed the
\* tracee with PTRACE_SYSCALL sees its entry and its exit.
ArmIoctl(at, in, out, next, armed) ==
    /\ Running
    /\ \/ PC = at /\ OnSyscallStops /\ Goto(in) /\ Stopped("entry")
          /\ UNCHANGED kernel
       \/ PC = at /\ ~OnSyscallStops /\ Goto(next)
          /\ kernel' = [kernel EXCEPT !.armed = armed] /\ UNCHANGED cpu
       \/ PC = in /\ kernel' = [kernel EXCEPT !.armed = armed]
          /\ IF OnSyscallStops THEN Goto(out) /\ Stopped("exit")
                               ELSE Goto(next) /\ UNCHANGED cpu
       \/ PC = out /\ Goto(next) /\ UNCHANGED <<kernel, cpu>>
    /\ UNCHANGED <<hdr, log, rr, done, sent>>

arm_desched_event    == ArmIoctl("arm", "arm_in", "arm_out", "ut_entry", TRUE)
disarm_desched_event == ArmIoctl("disarm", "disarm_in", "disarm_out", "unlock", FALSE)

\* The first half of commit_raw_syscall, up to abort_commit.
ClearRelevant ==
    /\ Running /\ PC = "c_flag"
    /\ hdr' = [hdr EXCEPT !.relevant = FALSE]
    /\ Goto("c_commit")
    /\ Quiet

\* Mutant: the record is committed although rr has recorded the call.
commit_raw_syscall_IgnoresAbort ==
    /\ Running /\ PC = "c_commit"
    /\ hdr' = [hdr EXCEPT !.abort_commit = FALSE]
    /\ log' = [log EXCEPT !.buf = Append(@, Top.call)]
    /\ Goto(IF Top.kind = "MAY_BLOCK" THEN "disarm" ELSE "unlock")
    /\ UNCHANGED <<kernel, cpu, rr, done, sent>>

commit_raw_syscall ==
    /\ Running /\ PC = "c_commit"
    /\ IF hdr.abort_commit
       THEN hdr' = [hdr EXCEPT !.abort_commit = FALSE] /\ UNCHANGED log
       ELSE log' = [log EXCEPT !.buf = Append(@, Top.call)] /\ UNCHANGED hdr
    /\ Goto(IF Top.kind = "MAY_BLOCK" THEN "disarm" ELSE "unlock")
    /\ UNCHANGED <<kernel, cpu, rr, done, sent>>

Unlock ==
    /\ Running /\ PC = "unlock"
    /\ hdr' = [hdr EXCEPT !.locked = FALSE]
    /\ Goto("h_exit")
    /\ Quiet

\* syscall_hook after syscall_hook_internal
HookExit ==
    /\ Running /\ PC = "h_exit"
    /\ frames' = [frames EXCEPT ![Len(frames)] =
                    IF hdr.notify_on_syscall_hook_exit
                    THEN [@ EXCEPT !.pc = "t_entry", !.sys = "notify", !.ret = "final"]
                    ELSE [@ EXCEPT !.pc = "final"]]
    /\ Quiet /\ UNCHANGED hdr

FinalInstruction ==
    /\ Running /\ PC = "final" /\ ~BreakpointHere
    /\ Goto("app")
    /\ Quiet /\ UNCHANGED hdr

\* The signal handler returns.
Sigreturn ==
    /\ Running /\ PC = "app" /\ Len(frames) > 1
    /\ frames' = [frames EXCEPT ![Len(frames)] =
                    [@ EXCEPT !.pc = "t_entry", !.sys = "sigreturn"]]
    /\ Quiet /\ UNCHANGED hdr

\* The tracee runs into a breakpoint of rr.
Breakpoint ==
    /\ Running /\ BreakpointHere
    /\ Stopped("SIGTRAP")
    /\ UNCHANGED <<frames, hdr, log, kernel, rr, done, sent>>

----------------------------------------------------------------------------
(* The kernel.                                                             *)

\* The syscall instructions of the untraced and of the traced entry points;
\* the seccomp filter stops the latter however the tracee was resumed.
EnterSyscall ==
    /\ Running /\ ~BreakpointHere
    /\ \/ PC = "ut_entry" /\ Goto("ut_in")
          /\ IF OnSyscallStops THEN Stopped("entry") ELSE UNCHANGED cpu
       \/ PC = "t_entry" /\ Goto("t_in") /\ Stopped("entry")
    /\ UNCHANGED <<hdr, log, kernel, rr, done, sent>>

SyscallStop ==
    IF OnSyscallStops THEN Stopped("exit") ELSE UNCHANGED cpu

\* The call completes, at once or after it has slept.
CompleteSyscall ==
    /\ Running /\ PC \in {"ut_in", "t_in"}
    /\ Goto(IF PC = "ut_in" THEN "ut_out" ELSE "t_out")
    /\ done' = IF Top.sys = "call" THEN Append(done, Top.call) ELSE done
    /\ kernel' = [kernel EXCEPT !.asleep = FALSE]
    /\ SyscallStop
    /\ UNCHANGED <<hdr, log, rr, sent>>

\* The call blocks.  The context switch makes an armed event send SIGPWR.
Block ==
    /\ Running /\ PC \in {"ut_in", "t_in"} /\ ~kernel.asleep
    /\ Top.sys = "call" /\ Top.kind = "MAY_BLOCK"
    /\ kernel' = [kernel EXCEPT !.asleep = TRUE,
                    !.pending = IF kernel.armed THEN @ \union {"SIGPWR"} ELSE @]
    /\ UNCHANGED <<frames, hdr, log, cpu, rr, done, sent>>

\* While signals are stashed the tracer has every signal blocked but its own.
Deliverable ==
    {s \in kernel.pending :
        s = "SIGUSR" => ~rr.break_at_traced /\ Len(frames) = 1}

\* A signal gets a sleeping call out of the kernel with -ERESTART*.
Interrupt ==
    /\ Running /\ kernel.asleep /\ Deliverable # {}
    /\ kernel' = [kernel EXCEPT !.asleep = FALSE]
    /\ Goto(IF PC = "ut_in" THEN "ut_rst" ELSE "t_rst")
    /\ SyscallStop
    /\ UNCHANGED <<hdr, log, rr, done, sent>>

\* The code after the call; a call that is to be restarted enters again.
LeaveSyscall ==
    /\ Running
    /\ \/ PC = "ut_out" /\ Goto("c_flag")
       \/ PC = "t_out" /\ Top.sys # "sigreturn" /\ Goto(Top.ret)
       \/ PC = "ut_rst" /\ Deliverable = {} /\ Goto("ut_entry")
       \/ PC = "t_rst" /\ Deliverable = {} /\ Goto("t_entry")
    /\ Quiet /\ UNCHANGED hdr

\* A signal stops the tracee, before an instruction or on return from a call.
Deliver(s) ==
    /\ Running /\ s \in Deliverable
    /\ PC \notin {"ut_in", "t_in", "arm_in", "disarm_in"}
    /\ kernel' = [kernel EXCEPT !.pending = @ \ {s}]
    /\ Stopped(s)
    /\ UNCHANGED <<frames, hdr, log, rr, done, sent>>

\* The kernel runs something else for a while although the tracee could run.
Preempt ==
    /\ Running /\ kernel.armed
    /\ kernel' = [kernel EXCEPT !.pending = @ \union {"SIGPWR"}]
    /\ UNCHANGED <<frames, hdr, log, cpu, rr, done, sent>>

\* Another process sends the program a signal.
Send ==
    /\ sent.usr < MaxUsr
    /\ kernel' = [kernel EXCEPT !.pending = @ \union {"SIGUSR"}]
    /\ sent' = [sent EXCEPT !.usr = @ + 1]
    /\ UNCHANGED <<frames, hdr, log, cpu, rr, done>>

\* The tick counter reaches the end of the timeslice; it is not programmed
\* while a timeslice signal is stashed, nor for a call in the kernel.
SliceEnds ==
    /\ Running /\ sent.slices < MaxSlices
    /\ PC \notin {"ut_in", "t_in"} /\ "TIME_SLICE" \notin Range(rr.stashed)
    /\ kernel' = [kernel EXCEPT !.pending = @ \union {"TIME_SLICE"}]
    /\ sent' = [sent EXCEPT !.slices = @ + 1]
    /\ UNCHANGED <<frames, hdr, log, cpu, rr, done>>

----------------------------------------------------------------------------
(* The tracer.                                                             *)

At(pc) == cpu.resume = "stopped" /\ rr.pc = pc

Push(evs, type, desched) == Append(evs, Event(type, desched))

IsArmIoctl     == PC \in {"arm_in", "arm_out"}
IsDisarmIoctl  == PC \in {"disarm_in", "disarm_out"}
is_in_untraced_syscall == PC \in UntracedOut \/ IsArmIoctl \/ IsDisarmIoctl
is_in_syscallbuf ==
    PC # "app" /\ ~(PC \in TracedPCs /\ Top.sys = "sigreturn")

\* Mutant: any untraced call may be interrupted.
is_safe_to_deliver_signal_AnyUntraced ==
    \/ ~is_in_syscallbuf
    \/ PC \in {"t_in", "t_out", "t_rst"}
    \/ PC = "t_entry" /\ Top.sys = "call"
    \/ is_in_untraced_syscall

\* record_signal.cc: is_safe_to_deliver_signal
is_safe_to_deliver_signal ==
    \/ ~is_in_syscallbuf
    \/ PC \in {"t_in", "t_out", "t_rst"}
    \/ PC = "t_entry" /\ Top.sys = "call"
    \/ is_in_untraced_syscall /\ desched_rec(rr.ev)

\* RecordSession::task_continue
task_continue ==
    /\ Resume(IF at_may_restart_syscall(rr.ev) THEN "SYSCALL" ELSE "CONT")
    /\ rr' = [rr EXCEPT !.pc = "wait"]

\* preinject_signal: a stop that cannot be used to inject a signal is turned
\* into one by a SIGPWR that the tracer sends, waits for and forgets, with a
\* timeslice signal that comes before it.
preinject_signal ==
    IF cpu.stop \in Signals THEN UNCHANGED kernel
    ELSE kernel' = [kernel EXCEPT !.pending = @ \ {"SIGPWR", "TIME_SLICE"}]

\* handle_signal and signal_state_changed for a signal with a handler: the
\* EV_SIGNAL and the frame of the handler are recorded.
InjectHandledSignal(r) ==
    /\ preinject_signal
    /\ frames' = Append(frames, [pc |-> "app", sys |-> "call", kind |-> "none",
                                 call |-> 0, ret |-> "final"])
    /\ log' = record_event(log, <<>>)
    /\ rr' = [stashed_signal_processed(r) EXCEPT
                 !.ev = Push(@, "SIGNAL_HANDLER", FALSE), !.pc = "step"]
    /\ cpu' = [cpu EXCEPT !.stop = "SIGTRAP"]
    /\ UNCHANGED hdr

\* handle_signal for a timeslice: EV_SCHED, recorded only if rr switches.
Sched(r) ==
    /\ rr' = [stashed_signal_processed(r) EXCEPT !.pc = "step"]
    /\ log' \in {log, record_event(log, <<>>)}
    /\ UNCHANGED <<frames, hdr, kernel, cpu>>

\* RecordSession::prepare_to_inject_signal, or else task_continue
prepare_to_inject_signal ==
    /\ At("step")
    /\ IF rr.stashed = <<>>
       THEN task_continue /\ UNCHANGED <<frames, hdr, log, kernel>>
       ELSE IF is_safe_to_deliver_signal
       THEN LET r == [rr EXCEPT !.stashed = Tail(@)] IN
            IF Head(rr.stashed) = "TIME_SLICE" THEN Sched(r) ELSE InjectHandledSignal(r)
       ELSE \* DEFER_SIGNAL
            /\ hdr' = [hdr EXCEPT !.notify_on_syscall_hook_exit =
                          @ \/ is_in_untraced_syscall]
            /\ task_continue
            /\ UNCHANGED <<frames, log, kernel>>
    /\ UNCHANGED <<done, sent>>

\* record_signal.cc: handle_syscallbuf_breakpoint
handle_syscallbuf_breakpoint(pc) ==
    /\ cpu.stop = "SIGTRAP"
    /\ frames' = IF PC = "final" THEN [frames EXCEPT ![Len(frames)].pc = "app"] ELSE frames
    /\ kernel' = [kernel EXCEPT !.armed = @ \/ (PC = "ut_entry" /\ hdr.relevant)]
    /\ rr' = [rr EXCEPT !.pc = pc, !.break_at_untraced = @ /\ PC # "ut_entry"]
    /\ UNCHANGED <<hdr, log, done, sent>>

BreakpointStop ==
    /\ At("wait")
    /\ handle_syscallbuf_breakpoint("step")
    /\ UNCHANGED cpu

\* RecordSession::handle_signal_event for a signal that is not rr's own
SignalStop ==
    /\ At("wait") /\ cpu.stop \in {"SIGUSR", "TIME_SLICE"}
    /\ rr' = [stash_sig(rr, cpu.stop) EXCEPT !.pc = "step"]
    /\ UNCHANGED <<frames, hdr, log, kernel, cpu, done, sent>>

\* Mutant: the event stays armed in the loop.
DeschedLoop_NoDisarm(r) ==
    /\ Resume("SYSCALL")
    /\ rr' = [r EXCEPT !.pc = "desched"]
    /\ UNCHANGED <<frames, hdr, log, kernel, done, sent>>

\* One iteration of the loop in handle_desched_event
DeschedLoop(r) ==
    /\ kernel' = [kernel EXCEPT !.armed = FALSE]
    /\ Resume("SYSCALL")
    /\ rr' = [r EXCEPT !.pc = "desched"]
    /\ UNCHANGED <<frames, hdr, log, done, sent>>

\* record_signal.cc: handle_desched_event
handle_desched_event ==
    /\ At("wait") /\ cpu.stop = "SIGPWR"
    /\ IF hdr.relevant /\ ~running_inside_desched(rr.ev)
       THEN DeschedLoop(rr)
       ELSE \* EV_NOOP, popped at once
            /\ kernel' = [kernel EXCEPT !.armed = FALSE]
            /\ rr' = [rr EXCEPT !.pc = "step"]
            /\ UNCHANGED <<frames, hdr, log, cpu, done, sent>>

DeschedLoopContinue ==
    /\ At("desched")
    /\ \/ cpu.stop \in {"entry", "exit"} /\ IsArmIoctl /\ DeschedLoop(rr)
       \/ cpu.stop \in {"SIGPWR", "TIME_SLICE"} /\ DeschedLoop(rr)
       \/ cpu.stop = "SIGUSR" /\ DeschedLoop(stash_sig(rr, "SIGUSR"))

\* A breakpoint in the loop; the event is disarmed again before resuming.
DeschedLoopBreakpoint ==
    /\ At("desched") /\ cpu.stop = "SIGTRAP"
    /\ DeschedLoop([rr EXCEPT !.break_at_untraced = @ /\ PC # "ut_entry"])

\* The loop ran into the disarm ioctl: the buffered call is complete.
DeschedAtDisarm ==
    /\ At("desched") /\ cpu.stop \in {"entry", "exit"} /\ IsDisarmIoctl
    /\ rr' = [rr EXCEPT !.pc = "step"]
    /\ UNCHANGED <<frames, hdr, log, kernel, cpu, done, sent>>

\* Mutant: the event is not re-armed for a stashed signal.
EnterTracedSyscall_NoRearm(l, evs) ==
    LET thawed == EvType(evs) = "INTERRUPTION"
        ev     == IF thawed THEN Append(Front(evs), Event("SYSCALL", Last(evs).desched))
                            ELSE Push(evs, "SYSCALL", FALSE)
    IN  /\ log' = record_event(IF thawed THEN l ELSE maybe_flush_syscallbuf(l), <<>>)
        /\ rr' = [rr EXCEPT !.ev = ev, !.pc = "wait"]
        /\ Resume("SYSCALL")
        /\ UNCHANGED <<frames, hdr, kernel, done, sent>>

\* process_syscall_entry and syscall_state_changed at ENTERING_SYSCALL: an
\* interrupted call is thawed, any other gets an event of its own.  (A tracee
\* with a frozen call on top can only be at the entry of that call.)  l and evs
\* are the log and the pending events before.
EnterTracedSyscall(l, evs) ==
    LET thawed == EvType(evs) = "INTERRUPTION"
        ev     == IF thawed THEN Append(Front(evs), Event("SYSCALL", Last(evs).desched))
                            ELSE Push(evs, "SYSCALL", FALSE)
    IN  /\ log' = record_event(IF thawed THEN l ELSE maybe_flush_syscallbuf(l), <<>>)
        /\ rr' = [rr EXCEPT !.ev = ev, !.pc = "wait"]
        /\ kernel' = [kernel EXCEPT !.armed =
                         @ \/ (desched_rec(ev) /\ is_in_untraced_syscall
                               /\ rr.stashed # <<>>)]
        /\ Resume("SYSCALL")
        /\ UNCHANGED <<frames, hdr, done, sent>>

\* The loop ran into the buffered call, which is going to be traced.
DeschedInitiated ==
    /\ At("desched") /\ cpu.stop \in {"entry", "exit"}
    /\ ~IsArmIoctl /\ ~IsDisarmIoctl
    /\ IF desched_rec(rr.ev)
       THEN EnterTracedSyscall(log, rr.ev)
       ELSE EnterTracedSyscall([log EXCEPT !.delay_reset_for_desched = TRUE],
                               Push(Push(rr.ev, "DESCHED", TRUE), "INTERRUPTION", TRUE))

SyscallEntryStop ==
    /\ At("wait") /\ cpu.stop = "entry"
    /\ EnterTracedSyscall(log, rr.ev)

\* desched_state_changed up to the loop that advances the tracee
desched_state_changed(l, evs) ==
    IF EvType(evs) = "DESCHED"
    THEN /\ hdr' = [hdr EXCEPT !.abort_commit = TRUE]
         /\ log' = maybe_flush_syscallbuf(l)
         /\ Resume("SYSCALL")
         /\ rr' = [rr EXCEPT !.ev = evs, !.pc = "advance"]
    ELSE /\ log' = l
         /\ rr' = [rr EXCEPT !.ev = evs, !.pc = "step"]
         /\ UNCHANGED <<hdr, cpu>>

\* EXITING_SYSCALL: an event that rr re-armed at the entry is disarmed.
DisarmIfDesched ==
    kernel' = [kernel EXCEPT !.armed = @ /\ ~desched_rec(rr.ev)]

\* syscall_state_changed at the exit of a call that has a result
SyscallExitStop ==
    /\ At("wait") /\ cpu.stop = "exit" /\ PC \in {"ut_out", "t_out"} /\ Top.sys = "call"
    /\ EvType(rr.ev) = "SYSCALL"
    /\ DisarmIfDesched
    /\ desched_state_changed(record_event(log, <<Top.call>>), Front(rr.ev))
    /\ UNCHANGED <<frames, done, sent>>

\* SYS_rrcall_notify_syscall_hook_exit
NotifyExitStop ==
    /\ At("wait") /\ cpu.stop = "exit" /\ PC = "t_out" /\ Top.sys = "notify"
    /\ hdr' = [hdr EXCEPT !.notify_on_syscall_hook_exit = FALSE]
    /\ log' = record_event(log, <<>>)
    /\ rr' = [rr EXCEPT !.ev = Front(@), !.pc = "step"]
    /\ UNCHANGED <<frames, kernel, cpu, done, sent>>

\* The exit of a call that may be restarted: the event is frozen.
SyscallRestartStop ==
    /\ At("wait") /\ cpu.stop = "exit" /\ PC \in {"ut_rst", "t_rst"}
    /\ DisarmIfDesched
    /\ log' = record_event(log, <<>>)
    /\ rr' = [rr EXCEPT !.ev = Append(Front(@), Event("INTERRUPTION", Last(@).desched)),
                        !.pc = "step"]
    /\ UNCHANGED <<frames, hdr, cpu, done, sent>>

\* The exit of sigreturn.  The call that the signal interrupted is restarted,
\* or it returns -EINTR and its frozen event is discarded.
SigreturnStop ==
    /\ At("wait") /\ cpu.stop = "exit" /\ PC = "t_out" /\ Top.sys = "sigreturn"
    /\ LET under == frames[Len(frames) - 1]
           evs   == Front(Front(rr.ev))
       IN  \/ \* restarted, or nothing was interrupted
              /\ frames' = Append(Front(Front(frames)),
                             [under EXCEPT !.pc = CASE @ = "ut_rst" -> "ut_entry"
                                                    [] @ = "t_rst"  -> "t_entry"
                                                    [] OTHER -> @])
              /\ log' = record_event(log, <<>>)
              /\ rr' = [rr EXCEPT !.ev = evs, !.pc = "step"]
              /\ UNCHANGED <<hdr, kernel, cpu, done>>
           \/ \* -EINTR
              /\ under.pc \in {"ut_rst", "t_rst"}
              /\ frames' = Append(Front(Front(frames)),
                             [under EXCEPT !.pc = IF @ = "ut_rst" THEN "ut_out" ELSE "t_out"])
              /\ done' = Append(done, under.call)
              /\ desched_state_changed(record_event(log, <<under.call>>), Front(evs))
              /\ UNCHANGED kernel
    /\ UNCHANGED sent

\* RecordSession.cc: advance_to_disarm_desched_syscall
AdvanceLoop ==
    /\ At("advance") /\ ~(cpu.stop \in {"entry", "exit"} /\ IsDisarmIoctl)
    /\ Resume("SYSCALL")
    /\ rr' = IF cpu.stop = "SIGUSR" THEN stash_sig(rr, "SIGUSR") ELSE rr
    /\ UNCHANGED <<frames, hdr, log, kernel, done, sent>>

\* The end of desched_state_changed, at the exit of the disarm ioctl
Advanced ==
    /\ At("advance") /\ cpu.stop = "entry" /\ PC = "disarm_in"
    /\ kernel' = [kernel EXCEPT !.armed = FALSE]
    /\ Goto("disarm_out")
    /\ hdr' = [hdr EXCEPT !.notify_on_syscall_hook_exit = TRUE]
    /\ log' = [log EXCEPT !.delay_reset_for_desched = FALSE]
    /\ rr' = [rr EXCEPT !.ev = Front(@), !.pc = "step"]
    /\ cpu' = [cpu EXCEPT !.stop = "exit"]
    /\ UNCHANGED <<done, sent>>

----------------------------------------------------------------------------
Init ==
    /\ frames = <<[pc |-> "app", sys |-> "call", kind |-> "none", call |-> 0, ret |-> "final"]>>
    /\ hdr = [locked |-> FALSE, relevant |-> FALSE, abort_commit |-> FALSE,
              notify_on_syscall_hook_exit |-> FALSE]
    /\ log = [buf |-> <<>>, trace |-> <<>>, flushed_syscallbuf |-> FALSE,
              flushed_num_rec |-> 0, delay_reset_for_desched |-> FALSE]
    /\ kernel = [armed |-> FALSE, pending |-> {}, asleep |-> FALSE]
    /\ cpu = [resume |-> "CONT", stop |-> "none"]
    /\ rr = [pc |-> "wait", stashed |-> <<>>, ev |-> <<>>,
             break_at_traced |-> FALSE, break_at_untraced |-> FALSE]
    /\ done = <<>>
    /\ sent = [calls |-> 0, usr |-> 0, slices |-> 0]

Tracee ==
    \/ syscall_hook \/ prep_syscall \/ start_commit_buffered_syscall
    \/ SetRelevant \/ arm_desched_event \/ disarm_desched_event
    \/ ClearRelevant \/ commit_raw_syscall \/ Unlock \/ HookExit
    \/ FinalInstruction \/ Sigreturn \/ Breakpoint \/ EnterSyscall \/ LeaveSyscall

Environment == Compute \/ Call \/ CompleteSyscall \/ Block \/ Preempt \/ Send \/ SliceEnds

Kernel == Interrupt \/ \E s \in Signals : Deliver(s)

Tracer ==
    \/ prepare_to_inject_signal \/ BreakpointStop \/ SignalStop
    \/ handle_desched_event \/ DeschedLoopContinue \/ DeschedLoopBreakpoint
    \/ DeschedAtDisarm \/ DeschedInitiated \/ SyscallEntryStop
    \/ SyscallExitStop \/ NotifyExitStop \/ SyscallRestartStop
    \/ SigreturnStop \/ AdvanceLoop \/ Advanced

Next == Tracee \/ Environment \/ Kernel \/ Tracer

Spec == Init /\ [][Next]_vars

\* The kernel finishes a call or puts the tracee to sleep; it wakes it up only
\* if somebody does what the call waits for.
Proceed == ~kernel.asleep /\ (CompleteSyscall \/ Block)

\* A resumed tracee runs, signals are delivered, and rr handles the stop it
\* waits for.
LiveSpec ==
    Spec /\ WF_vars(Tracee) /\ WF_vars(Proceed) /\ WF_vars(Kernel) /\ WF_vars(Tracer)

----------------------------------------------------------------------------
(* Properties.                                                             *)

Unflushed == IF log.flushed_syscallbuf THEN <<>> ELSE log.buf

EventTypes == {"DESCHED", "SYSCALL", "INTERRUPTION", "SIGNAL_HANDLER"}

\* The types of the variables; hdr is syscallbuf_hdr of preload_interface.h,
\* log and rr hold the fields of RecordTask.
TypeOK ==
    /\ frames \in Seq([pc : PCs, sys : {"call", "notify", "sigreturn"},
                       kind : Kinds \union {"none"}, call : 0 .. MaxCalls,
                       ret : {"h_exit", "final"}])
    /\ Len(frames) \in 1 .. 2
    /\ hdr \in [locked : BOOLEAN, relevant : BOOLEAN, abort_commit : BOOLEAN,
                notify_on_syscall_hook_exit : BOOLEAN]
    /\ log \in [buf : Seq(1 .. MaxCalls), trace : Seq(1 .. MaxCalls),
                flushed_syscallbuf : BOOLEAN, flushed_num_rec : 0 .. Capacity,
                delay_reset_for_desched : BOOLEAN]
    /\ Len(log.buf) <= Capacity
    /\ kernel \in [armed : BOOLEAN, pending : SUBSET Signals, asleep : BOOLEAN]
    /\ cpu \in [resume : {"CONT", "SYSCALL", "stopped"},
                stop : {"none", "entry", "exit", "SIGTRAP"} \union Signals]
    /\ rr \in [pc : {"wait", "step", "desched", "advance"}, stashed : Seq(Signals \ {"SIGPWR"}),
               ev : Seq([type : EventTypes, desched : BOOLEAN]),
               break_at_traced : BOOLEAN, break_at_untraced : BOOLEAN]
    /\ done \in Seq(1 .. MaxCalls)

\* A may-block call never puts the tracee to sleep behind rr's back: while it
\* sleeps in an untraced call, the desched event is armed or has fired, or rr
\* has already made the call a traced one (the reason why
\* start_commit_buffered_syscall sets desched_signal_may_be_relevant before it
\* arms the event: otherwise "the recording session would deadlock").
NeverSleepsUnseen ==
    kernel.asleep /\ PC = "ut_in"
        => \/ kernel.armed \/ "SIGPWR" \in kernel.pending
           \/ EvType(rr.ev) = "SYSCALL"

\* Every call is in the trace once, as a buffered record or as a traced entry
\* and exit, and in the order in which the calls took effect: what is recorded
\* and not yet flushed continues the trace, and at most the call in progress
\* is missing (abort_commit in commit_raw_syscall, maybe_flush_syscallbuf).
RecordedOnceInOrder ==
    LET recorded == log.trace \o Unflushed
    IN  /\ IsPrefix(recorded, done)
        /\ Len(done) - Len(recorded) <= 1
        /\ (\A i \in DOMAIN frames : frames[i].pc \in {"app", "hook", "final"})
               => recorded = done

\* A flushed buffer does not change until it is reset: the assertion at the
\* head of maybe_flush_syscallbuf.  rr makes the tracee stop at the exit of the
\* hook after an aborted commit so that the reset comes before the next record.
FlushedBufferFrozen ==
    log.flushed_syscallbuf => log.flushed_num_rec = Len(log.buf)

\* The trace has every call, and what was flushed is what replay will find.
BufferRecorded == TypeOK /\ RecordedOnceInOrder /\ FlushedBufferFrozen

\* The buffer is never reset while a transaction is using it, neither by an
\* event of the transaction itself nor by one of a signal handler that runs on
\* top of it (delay_syscallbuf_reset_for_desched, the assertion in
\* Task::reset_syscallbuf).
NoResetInTransaction ==
    [][Len(log'.buf) < Len(log.buf)
         => \A i \in DOMAIN frames : frames[i].pc \notin Transaction \ {"disarm_out", "unlock"}]_vars

\* A signal handler never runs in the prologue or in the epilogue of a
\* transaction ("rr recording is responsible for ensuring signals are not
\* delivered during syscall_buffer prologue and epilogue code", prep_syscall),
\* only on top of a call that rr has taken over from the buffer.
HandlerOutsideCriticalSection ==
    Len(frames) = 2
        => \/ frames[1].pc \in {"app"} \union TracedPCs
           \/ frames[1].pc = "ut_rst" /\ \E i \in DOMAIN rr.ev : rr.ev[i].type = "DESCHED"

\* Three assertions about descheds and stashed signals.  A new desched never starts
\* while the previous one still delays the reset (handle_desched_event); the loop
\* that looks for the interrupted call always ends at the call of this very
\* transaction, never at some later one ("this tracee could fly off to any unknown
\* execution point", commit_raw_syscall); and a signal is still stashed at the entry
\* of a system call only if that is the desched'd call or the notification at the
\* exit of the hook (process_syscall_entry).
DeschedFindsItsCall ==
    /\ At("desched") /\ cpu.stop \in {"entry", "exit"} /\ ~IsArmIoctl /\ ~IsDisarmIoctl
         => PC = "ut_in" /\ (desched_rec(rr.ev) \/ ~log.delay_reset_for_desched)
    /\ At("wait") /\ cpu.stop = "entry" /\ rr.stashed # <<>>
         => desched_rec(rr.ev) \/ Top.sys = "notify"

\* Signals, descheds and transactions meet only where rr expects them to.
HandledOutsideTransaction == HandlerOutsideCriticalSection /\ DeschedFindsItsCall

\* A signal that the program does not block reaches its handler, also when it
\* arrives inside a transaction and the call then blocks for ever: rr re-arms
\* the desched event (syscall_state_changed, ENTERING_SYSCALL), or stops the
\* tracee at one of its breakpoints or at the notification of the hook's exit.
SignalReachesHandler ==
    ("SIGUSR" \in kernel.pending \union Range(rr.stashed)) ~> Len(frames) = 2

\* A transaction ends unless its call sleeps: neither the breakpoints nor the
\* loops of handle_desched_event and advance_to_disarm_desched_syscall, which
\* discard or stash what they meet, keep the tracee in it.
TransactionEnds ==
    frames[1].pc \in Transaction ~> (kernel.asleep \/ frames[1].pc \notin Transaction)

\* A transaction keeps its buffer as long as it lasts, and does not last for ever.
TransactionCompletes == NoResetInTransaction /\ TransactionEnds

=============================================================================

----------------------------- MODULE SignalMask -----------------------------
(* The signal mask of a recorded task, which three parties change and two  *)
(* remember: the program through rt_sigprocmask, buffered or traced, and   *)
(* through handlers; rr, which blocks everything while it holds a signal   *)
(* back; and the kernel, which unblocks what it forces on the task.  rr    *)
(* keeps a cached copy, refreshed from the kernel or from what the         *)
(* sigprocmask wrapper leaves in the syscall buffer.                       *)
(*                                                                         *)
(* The tracee is one task; a step of its code is an action, so signals     *)
(* arrive between any two.  rr handles a stop in the actions below         *)
(* "Tracer".  All signals have handlers.                                   *)
EXTENDS Integers, Sequences, FiniteSets

CONSTANTS Signals,          \* the program's signals
          SaMask,           \* what each one's handler blocks
          Ops,              \* what the program asks of sigprocmask: [how, set]
          MaxCalls, MaxFrames,
          MaxEvents,        \* signals, ends of time slices and trapped instructions
          SliceWhileStashed \* a time slice may end while a signal is stashed

VARIABLE t                  \* the task: tracee, kernel and rr's RecordTask

SIGSEGV == "SIGSEGV"
TIME_SLICE_SIGNAL == "SIGSTKFLT"
AllSignals == Signals \cup {SIGSEGV}

(* What else a stop may be for. *)
Stops == {"none", "syscall", "sigreturn", "dispatch", "inject", SIGSEGV, TIME_SLICE_SIGNAL,
          "final", "traced", "untraced"}

ASSUME ConstantsAssumption ==
  /\ Signals \cap Stops = {}
  /\ SaMask \in [Signals -> SUBSET AllSignals]
  /\ Ops \subseteq [how : {"SIG_BLOCK", "SIG_UNBLOCK", "SIG_SETMASK"}, set : SUBSET AllSignals]

Running == t.stop = "none"

-----------------------------------------------------------------------------
(* RecordTask *)

invalidate_sigmask(v) == [v EXCEPT !.dirty = TRUE]

(* PTRACE_GETSIGMASK. *)
read_sigmask_from_process(v) == v.kmask

get_sigmask(v) ==
  IF v.dirty THEN [v EXCEPT !.blocked_sigs = read_sigmask_from_process(v), !.dirty = FALSE] ELSE v

is_sig_blocked(v, sig) == sig \in get_sigmask(v).blocked_sigs

has_stashed_sig(v) == v.stashed # <<>>

(* While a signal is stashed every other one but rr's own is blocked.      *)
will_resume_execution(v, injected) ==
  LET clean == get_sigmask(v)
  IN IF clean.blocking THEN [clean EXCEPT !.kmask = AllSignals \ injected] ELSE clean

(* Mutant: the critical section is not looked at. *)
did_wait_uncritical(v) ==
  IF v.blocking
    THEN [v EXCEPT !.ok = @ /\ ~v.dirty, !.kmask = v.blocked_sigs]
  ELSE IF v.hdr.generation > v.generation
    THEN [v EXCEPT !.generation = v.hdr.generation, !.blocked_sigs = v.hdr.blocked_sigs]
  ELSE v

did_wait(v) ==
  IF v.blocking
    THEN [v EXCEPT !.ok = @ /\ ~v.dirty, !.kmask = v.blocked_sigs]
  ELSE IF v.hdr.critical THEN invalidate_sigmask(v)
  ELSE IF v.hdr.generation > v.generation
    THEN [v EXCEPT !.generation = v.hdr.generation, !.blocked_sigs = v.hdr.blocked_sigs]
  ELSE v

(* Mutant: a stashed signal does not stop the tracee as it leaves the     *)
(* syscall buffer.                                                         *)
stash_sig_no_final(v, sig) ==
  IF sig \in {v.stashed[i] : i \in DOMAIN v.stashed} THEN v
  ELSE [v EXCEPT !.stashed = Append(@, sig), !.blocking = TRUE,
                 !.break_at = {"traced", "untraced"}]

stash_sig(v, sig) ==
  IF sig \in {v.stashed[i] : i \in DOMAIN v.stashed} THEN v
  ELSE [v EXCEPT !.stashed = Append(@, sig), !.blocking = TRUE,
                 !.break_at = {"final", "traced", "untraced"}]

pop_stash_sig(v) == [v EXCEPT !.stashed = Tail(@)]

stashed_signal_processed(v) ==
  [v EXCEPT !.blocking = has_stashed_sig(v),
            !.break_at = IF has_stashed_sig(v) THEN {"final", "traced", "untraced"} ELSE {}]

(* An event flushes and resets the syscall buffer. *)
record_event(v) ==
  IF v.hdr.num = 0 THEN v
  ELSE [v EXCEPT !.hdr.num = 0, !.hdr.generation = 0, !.generation = 0]

-----------------------------------------------------------------------------
(* The kernel *)

Sigprocmask(mask, op) ==
  CASE op.how = "SIG_BLOCK" -> mask \cup op.set
    [] op.how = "SIG_UNBLOCK" -> mask \ op.set
    [] op.how = "SIG_SETMASK" -> op.set

(* The tracee enters a handler: the mask goes to the signal frame.  umask  *)
(* is the mask a program without rr would have.                            *)
PushFrame(v, sig) ==
  [v EXCEPT !.frames = <<[mask |-> v.kmask, umask |-> v.umask, pc |-> v.pc, op |-> v.op]>> \o @,
            !.kmask = @ \cup SaMask[sig] \cup {sig},
            !.umask = @ \cup SaMask[sig] \cup {sig},
            !.pc = "app"]

PopFrame(v) ==
  LET f == Head(v.frames)
  IN [v EXCEPT !.frames = Tail(@), !.kmask = f.mask, !.umask = f.umask, !.pc = f.pc, !.op = f.op]

(* The tracee stops, and rr learns of it. *)
Stop(v, why) == did_wait([v EXCEPT !.stop = why])

(* Another process sends the task a signal. *)
Post ==
  /\ t.events < MaxEvents
  /\ \E s \in Signals \ t.pending :
       t' = [t EXCEPT !.pending = @ \cup {s}, !.events = @ + 1]

Deliver ==
  /\ Running
  /\ Len(t.frames) < MaxFrames
  /\ \E s \in t.pending \ t.kmask : t' = Stop([t EXCEPT !.pending = @ \ {s}], s)

(* The time slice ends: rr's own signal is never blocked. *)
TimeSlice ==
  /\ Running
  /\ t.events < MaxEvents
  /\ SliceWhileStashed \/ ~has_stashed_sig(t)
  /\ t' = Stop([t EXCEPT !.events = @ + 1], TIME_SLICE_SIGNAL)

-----------------------------------------------------------------------------
(* The tracee *)

At(pc) == Running /\ t.pc = pc

(* A breakpoint of rr's, if it is set; otherwise the tracee goes on.       *)
BreakOr(where, next) == t' = IF where \in t.break_at THEN Stop(t, where) ELSE next

(* The program calls rt_sigprocmask: through the wrapper, or traced if the *)
(* buffer is full.                                                         *)
CallSigprocmask ==
  /\ At("app")
  /\ t.calls < MaxCalls
  /\ \E op \in Ops, pc \in {"wrapper", "traced"} :
       t' = [t EXCEPT !.pc = pc, !.op = op, !.calls = @ + 1]

(* Any other buffered call. *)
CallOther ==
  /\ At("app")
  /\ t.calls < MaxCalls
  /\ t' = [t EXCEPT !.pc = "other", !.calls = @ + 1]

EnterCritical ==
  /\ At("wrapper")
  /\ t' = [t EXCEPT !.hdr.critical = TRUE, !.pc = "untraced"]

UntracedSigprocmask ==
  /\ At("untraced")
  /\ BreakOr("untraced",
       [t EXCEPT !.kmask = Sigprocmask(@, t.op), !.umask = Sigprocmask(@, t.op),
                 !.oldset = t.kmask, !.pc = "called"])

StoreMask ==
  /\ At("called")
  /\ t' = [t EXCEPT !.hdr.blocked_sigs = Sigprocmask(t.oldset, t.op), !.pc = "stored"]

BumpGeneration ==
  /\ At("stored")
  /\ t' = [t EXCEPT !.hdr.generation = @ + 1, !.pc = "bumped"]

LeaveCritical ==
  /\ t.pc \in {"bumped", "eagain"} /\ Running
  /\ t' = [t EXCEPT !.hdr.critical = FALSE, !.pc = IF t.pc = "eagain" THEN "retry" ELSE "left"]

Commit ==
  /\ t.pc \in {"left", "retry"} /\ Running
  /\ t' = [t EXCEPT !.hdr.num = 1, !.pc = IF t.pc = "retry" THEN "traced" ELSE "final"]

OtherUntraced ==
  /\ At("other")
  /\ BreakOr("untraced", [t EXCEPT !.pc = "left"])

FinalInstruction ==
  /\ At("final")
  /\ BreakOr("final", [t EXCEPT !.pc = "app"])

TracedSigprocmask ==
  /\ At("traced")
  /\ BreakOr("traced", Stop(t, "syscall"))

(* A handler returns. *)
Sigreturn ==
  /\ At("app")
  /\ t.frames # <<>>
  /\ t' = Stop(t, "sigreturn")

(* An instruction rr emulates: the kernel forces SIGSEGV on the task, and  *)
(* unblocks it.                                                            *)
TrappedInstruction ==
  /\ At("app")
  /\ t.events < MaxEvents
  /\ t' = Stop([t EXCEPT !.kmask = @ \ {SIGSEGV}, !.events = @ + 1], SIGSEGV)

(* The program computes. *)
Compute == At("app") /\ UNCHANGED t

-----------------------------------------------------------------------------
(* The tracer *)

(* The stop is dealt with; what follows is prepare_to_inject_signal. *)
Dispatch(v) == [v EXCEPT !.stop = "dispatch"]

(* Mutant: the breakpoint at an untraced sigprocmask is passed over. *)
handle_breakpoint_passing(v) ==
  CASE v.stop = "final" -> [v EXCEPT !.pc = "app"]
    [] v.stop = "traced" -> v
    [] OTHER -> [v EXCEPT !.break_at = @ \ {"untraced"}]

handle_syscallbuf_breakpoint(v) ==
  CASE v.stop = "final" -> [v EXCEPT !.pc = "app"]
    [] v.stop = "traced" -> v
    [] v.pc = "untraced" -> [v EXCEPT !.pc = "eagain"]
    [] OTHER -> [v EXCEPT !.break_at = @ \ {"untraced"}]

restore_signal_state(v, sig, was_blocked) ==
  IF was_blocked THEN invalidate_sigmask([v EXCEPT !.kmask = @ \cup {sig}]) ELSE v

handle_signal_event(v) ==
  CASE v.stop \in {"final", "traced", "untraced"} -> handle_syscallbuf_breakpoint(v)
    [] v.stop = SIGSEGV ->
         restore_signal_state(invalidate_sigmask(get_sigmask(v)), SIGSEGV, is_sig_blocked(v, SIGSEGV))
    [] OTHER -> stash_sig(invalidate_sigmask(get_sigmask(v)), v.stop)

SignalStop ==
  /\ t.stop \in {"final", "traced", "untraced", SIGSEGV, TIME_SLICE_SIGNAL} \cup Signals
  /\ t' = Dispatch([handle_signal_event(t) EXCEPT !.at_trap = t.stop \in {"final", "traced", "untraced"}])

(* A traced call runs from its entry to its exit. *)
process_syscall_entry(v) ==
  will_resume_execution(record_event([v EXCEPT !.ok = @ /\ ~has_stashed_sig(v)]), {})

on_syscall_exit(v) == record_event(invalidate_sigmask(did_wait(v)))

SyscallStop ==
  /\ t.stop \in {"syscall", "sigreturn"}
  /\ LET v == process_syscall_entry(t)
         done == IF t.stop = "sigreturn" THEN PopFrame(v)
                 ELSE [v EXCEPT !.kmask = Sigprocmask(@, t.op), !.umask = Sigprocmask(@, t.op),
                                !.pc = "app"]
     IN t' = Dispatch([on_syscall_exit(done) EXCEPT !.at_trap = TRUE])

is_safe_to_deliver_signal(v) == v.pc \in {"app", "traced"}

(* A stashed signal is left for later, becomes a scheduling event, or is   *)
(* the next event of the task.                                             *)
prepare_to_inject_signal ==
  /\ t.stop = "dispatch"
  /\ has_stashed_sig(t)
  /\ is_safe_to_deliver_signal(t)
  /\ LET v == pop_stash_sig(invalidate_sigmask(t))
     IN IF Head(t.stashed) = TIME_SLICE_SIGNAL
          THEN t' \in {stashed_signal_processed(v), record_event(stashed_signal_processed(v))}
          ELSE t' = [v EXCEPT !.stop = "inject", !.injected = Head(t.stashed)]

task_continue ==
  /\ t.stop = "dispatch"
  /\ ~(has_stashed_sig(t) /\ is_safe_to_deliver_signal(t))
  /\ t' = [will_resume_execution(IF has_stashed_sig(t) THEN invalidate_sigmask(t) ELSE t, {})
             EXCEPT !.stop = "none"]

(* To inject a signal the task has to be in a signal-stop. *)
preinject_signal(v) ==
  IF v.at_trap THEN did_wait(will_resume_execution(v, {})) ELSE v

(* Mutant: the signal is injected before the mask is given back. *)
inject_blocked_signal ==
  /\ t.stop = "inject"
  /\ LET ready == preinject_signal(record_event(t))
         entered == PushFrame(will_resume_execution(ready, {t.injected}), t.injected)
     IN t' = Dispatch(record_event(invalidate_sigmask(did_wait(stashed_signal_processed(entered)))))

inject_handled_signal ==
  /\ t.stop = "inject"
  /\ LET ready == stashed_signal_processed(preinject_signal(record_event(t)))
         entered == PushFrame(will_resume_execution(ready, {t.injected}), t.injected)
     IN t' = Dispatch(record_event(invalidate_sigmask(did_wait(entered))))

-----------------------------------------------------------------------------
Init ==
  t = [pc |-> "app", op |-> [how |-> "SIG_BLOCK", set |-> {}], kmask |-> {}, umask |-> {},
       frames |-> <<>>, pending |-> {}, oldset |-> {},
       hdr |-> [blocked_sigs |-> {}, generation |-> 0, critical |-> FALSE, num |-> 0],
       blocked_sigs |-> {}, dirty |-> FALSE, generation |-> 0, stashed |-> <<>>,
       blocking |-> FALSE, break_at |-> {}, stop |-> "none", at_trap |-> FALSE, injected |-> "none",
       calls |-> 0, events |-> 0, ok |-> TRUE]

Tracee ==
  \/ EnterCritical \/ UntracedSigprocmask \/ StoreMask \/ BumpGeneration \/ LeaveCritical
  \/ Commit \/ OtherUntraced \/ FinalInstruction \/ TracedSigprocmask \/ Sigreturn

Tracer ==
  SignalStop \/ SyscallStop \/ prepare_to_inject_signal \/ task_continue \/ inject_handled_signal

Next ==
  \/ Post \/ Deliver \/ TimeSlice \/ CallSigprocmask \/ CallOther \/ TrappedInstruction
  \/ Compute
  \/ Tracee \/ Tracer

(* The tracee keeps running its system calls and handlers, and rr keeps    *)
(* handling its stops.                                                     *)
Fairness == WF_t(Tracee) /\ WF_t(Tracer)

Spec == Init /\ [][Next]_t /\ Fairness

-----------------------------------------------------------------------------
(* What verify_signal_states checks in a debug build: at every stop, if    *)
(* the cached mask is not marked dirty it is the kernel's, except that the *)
(* kernel may just have unblocked a SIGSEGV it forced.  And the assertions *)
(* of did_wait and process_syscall_entry: the cached mask is clean         *)
(* whenever it is about to be restored, and no traced call is entered with *)
(* a signal stashed.                                                       *)
CachedMaskExact ==
  /\ t.ok
  /\ ~Running /\ ~t.dirty =>
       t.blocked_sigs \ (IF t.stop = SIGSEGV THEN {SIGSEGV} ELSE {}) = t.kmask

(* rr's blocking is invisible to the program: while the task runs with no  *)
(* signal stashed, the kernel's mask is the one the program's own calls    *)
(* and handlers make, and every signal frame holds the mask the program    *)
(* will expect back.                                                       *)
MaskTransparent ==
  /\ Running /\ ~t.blocking => t.kmask = t.umask
  /\ \A i \in DOMAIN t.frames : t.frames[i].mask = t.frames[i].umask

(* A signal rr has accepted for the task is never one the program has      *)
(* blocked meanwhile: the mask does not change under a stashed signal.     *)
StashedNotBlocked ==
  \A i \in DOMAIN t.stashed : t.stashed[i] \notin t.umask

(* A stashed signal is delivered: rr does not hold it back for ever.       *)
StashedDelivered ==
  t.stashed # <<>> ~> t.stashed = <<>>
=============================================================================

--------------------------- MODULE SignalMaskProofs ---------------------------
(* The signal mask of a recorded task for any signals, handlers' masks,    *)
(* calls and nesting of handlers, as long as no time slice ends while a    *)
(* signal is stashed (the run signals_time_slice shows that one does       *)
(* harm).                                                                  *)
(*                                                                         *)
(* The argument.  While the tracee is stopped the kernel's mask is the     *)
(* program's, and rr's copy is either marked dirty or the same (AtStop).   *)
(* While it runs, rr's copy is exact, or will be replaced by an exact one  *)
(* from the syscall buffer at the next stop, or is known to be unusable    *)
(* because the tracee is in the wrapper's critical section (Free); with a  *)
(* signal stashed everything is blocked and rr's copy keeps the program's  *)
(* mask, which cannot change before the next breakpoint (Held).            *)
EXTENDS SignalMask, SequenceTheorems, TLAPS

Breaks == {"final", "traced", "untraced"}
Pcs == {"app", "wrapper", "traced", "other", "untraced", "called", "stored",
        "bumped", "eagain", "left", "retry", "final"}
Safe == {"app", "traced"}
Critical == {"untraced", "called", "stored", "bumped", "eagain"}
Stashable == Signals \cup {TIME_SLICE_SIGNAL}
Op == [how : {"SIG_BLOCK", "SIG_UNBLOCK", "SIG_SETMASK"}, set : SUBSET AllSignals]
Frame == {f \in [mask : SUBSET AllSignals, umask : SUBSET AllSignals, pc : Safe, op : Op] :
            f.mask = f.umask}
Hdr == [blocked_sigs : SUBSET AllSignals, generation : Nat, critical : BOOLEAN, num : {0, 1}]

Task == [pc : Pcs, op : Op, kmask : SUBSET AllSignals, umask : SUBSET AllSignals,
         frames : Seq(Frame), pending : SUBSET Signals, oldset : SUBSET AllSignals,
         hdr : Hdr, blocked_sigs : SUBSET AllSignals, dirty : BOOLEAN, generation : Nat,
         stashed : Seq(Stashable), blocking : BOOLEAN, break_at : SUBSET Breaks,
         stop : Stops \cup Signals, at_trap : BOOLEAN, injected : Signals \cup {"none"},
         calls : Nat, events : Nat, ok : BOOLEAN]

-----------------------------------------------------------------------------
(* The mask the sigprocmask wrapper leaves in the buffer is the program's  *)
(* once it says that it is, and nothing is left to be read when the buffer *)
(* is empty.                                                               *)
Published(v) ==
  /\ v.hdr.critical <=> v.pc \in Critical
  /\ v.generation <= v.hdr.generation
  /\ v.pc = "called" => Sigprocmask(v.oldset, v.op) = v.umask
  /\ v.pc = "stored" => v.hdr.blocked_sigs = v.umask
  /\ v.pc = "bumped" => v.hdr.generation > v.generation
  /\ v.pc \notin {"called", "stored"} /\ v.hdr.generation > v.generation
       => v.hdr.blocked_sigs = v.umask
  /\ v.pc \notin {"bumped", "left", "final"} /\ v.hdr.num = 0
       => v.hdr.generation = v.generation
  /\ v.pc = "final" => v.hdr.num = 1

(* At most one signal is stashed, one that the program has not blocked;    *)
(* until it is processed rr's breakpoints stop the tracee before it        *)
(* changes its mask or leaves the buffer.                                  *)
Stashing(v) ==
  /\ v.blocking <=> v.stop = "inject" \/ v.stashed # <<>>
  /\ v.stashed # <<>> => v.stop # "inject" /\ Len(v.stashed) = 1 /\ v.stashed[1] \notin v.umask
  /\ v.blocking => /\ {"final", "traced"} \subseteq v.break_at
                   /\ "untraced" \in v.break_at \/ v.pc \in {"other", "left", "final", "app"}

(* Why the tracee is stopped. *)
Stopped(v) ==
  /\ v.stop \in Stashable => ~v.blocking /\ v.stop \notin v.umask
  /\ v.stop = SIGSEGV => ~v.blocking /\ v.pc = "app"
  /\ v.stop \in {"syscall", "sigreturn"} => ~v.blocking /\ v.pc \in Safe
  /\ v.stop = "sigreturn" => v.frames # <<>>
  /\ v.stop = "final" => v.pc = "final"
  /\ v.stop = "traced" => v.pc = "traced"
  /\ v.stop = "untraced" => v.pc \in {"untraced", "other"}
  /\ v.stop = "inject" => v.pc \in Safe /\ v.injected \in Signals

(* Between stop and resumption. *)
AtStop(v) ==
  v.stop # "none" =>
    /\ v.kmask = IF v.stop = SIGSEGV THEN v.umask \ {SIGSEGV} ELSE v.umask
    /\ ~v.dirty => v.blocked_sigs = v.umask
    /\ v.stop = SIGSEGV => ~v.dirty

(* Running with nothing stashed. *)
Free(v) ==
  v.stop = "none" /\ ~v.blocking =>
    /\ v.kmask = v.umask /\ ~v.dirty
    /\ \/ v.pc \in {"called", "stored"}
       \/ v.hdr.generation > v.generation
       \/ v.blocked_sigs = v.umask

(* Running with a signal stashed. *)
Held(v) ==
  v.stop = "none" /\ v.blocking =>
    /\ v.kmask = AllSignals /\ ~v.dirty /\ v.blocked_sigs = v.umask
    /\ v.pc # "app"

Inv(v) ==
  /\ v \in Task /\ v.ok
  /\ Published(v) /\ Stashing(v) /\ Stopped(v) /\ AtStop(v) /\ Free(v) /\ Held(v)

IInv == Inv(t)

-----------------------------------------------------------------------------
(* No call of sigprocmask leaves the known signals. *)
LEMMA SigprocmaskType ==
  ASSUME NEW mask \in SUBSET AllSignals, NEW op \in Op
  PROVE  Sigprocmask(mask, op) \in SUBSET AllSignals
BY DEF Sigprocmask, Op

(* rr's own signal is not the program's. *)
LEMMA OwnSignal ==
  /\ TIME_SLICE_SIGNAL \notin AllSignals
  /\ SIGSEGV \notin Signals
  /\ SIGSEGV # TIME_SLICE_SIGNAL
BY ConstantsAssumption DEF AllSignals, Stops, SIGSEGV, TIME_SLICE_SIGNAL

(* The invariant holds when recording starts. *)
LEMMA InitInv == Init => IInv
<1> SUFFICES ASSUME Init PROVE Inv(t)
  BY DEF IInv
<1>1. t \in Task /\ t.ok
  BY DEF Init, Task, Hdr, Op, Pcs, Stops, Breaks
<1>2. Published(t) /\ Stashing(t)
  BY DEF Init, Published, Stashing, Critical
<1>3. Stopped(t)
  BY ConstantsAssumption DEF Init, Stopped, Stashable, Stops, SIGSEGV, TIME_SLICE_SIGNAL
<1>4. AtStop(t) /\ Free(t) /\ Held(t)
  BY DEF Init, AtStop, Free, Held
<1> QED
  BY <1>1, <1>2, <1>3, <1>4 DEF Inv

-----------------------------------------------------------------------------
(* The tracee stops for a reason that is true of the state it is in.  If a *)
(* signal is stashed rr puts the program's mask back; otherwise it takes   *)
(* the mask from the buffer, or marks its own dirty.                       *)
LEMMA StopInv ==
  ASSUME NEW v, Inv(v), v.stop = "none",
         NEW why \in (Stops \cup Signals) \ {"none", "dispatch", "inject", SIGSEGV},
         why \in Stashable => ~v.blocking /\ why \notin v.umask,
         why \in {"syscall", "sigreturn"} => ~v.blocking /\ v.pc \in Safe,
         why = "sigreturn" => v.frames # <<>>,
         why \in {"final", "traced"} => v.pc = why,
         why = "untraced" => v.pc \in {"untraced", "other"}
  PROVE  Inv(Stop(v, why))
<1> DEFINE w == Stop(v, why)
<1> SUFFICES Inv(w)
  OBVIOUS
<1> HIDE DEF w
<1>1. v \in Task /\ v.ok
  BY DEF Inv
<1>2. CASE v.blocking
  <2>1. /\ w = [v EXCEPT !.stop = why, !.ok = @ /\ ~v.dirty, !.kmask = v.blocked_sigs]
        /\ ~v.dirty /\ v.blocked_sigs = v.umask
    BY Zenon, <1>2, <1>1 DEF w, Stop, did_wait, Task, Inv, Held
  <2>2. w \in Task /\ w.ok
    BY ZenonT(30), <1>1, <2>1 DEF Task
  <2>3. Published(w) /\ Stashing(w)
    BY <1>1, <2>1, <1>2 DEF Inv, Published, Stashing, Task
  <2>4. Stopped(w)
    BY <1>1, <2>1, <1>2 DEF Stopped, Task
  <2>5. AtStop(w) /\ Free(w) /\ Held(w)
    BY <1>1, <2>1, <1>2 DEF AtStop, Free, Held, Task
  <2> QED
    BY <2>2, <2>3, <2>4, <2>5 DEF Inv
<1>3. CASE ~v.blocking /\ v.hdr.critical
  <2>1. w = [v EXCEPT !.stop = why, !.dirty = TRUE] /\ v.kmask = v.umask
    BY <1>3, <1>1 DEF w, Stop, did_wait, invalidate_sigmask, Task, Inv, Free
  <2>2. w \in Task /\ w.ok
    BY Zenon, <1>1, <2>1 DEF Task
  <2>3. Published(w) /\ Stashing(w)
    BY <1>1, <2>1, <1>3 DEF Inv, Published, Stashing, Task
  <2>4. Stopped(w)
    BY <1>1, <2>1, <1>3 DEF Stopped, Task
  <2>5. AtStop(w) /\ Free(w) /\ Held(w)
    BY <1>1, <2>1, <1>3 DEF AtStop, Free, Held, Task
  <2> QED
    BY <2>2, <2>3, <2>4, <2>5 DEF Inv
<1>4. CASE ~v.blocking /\ ~v.hdr.critical /\ v.hdr.generation > v.generation
  <2>1. /\ w = [v EXCEPT !.stop = why, !.generation = v.hdr.generation,
                        !.blocked_sigs = v.hdr.blocked_sigs]
        /\ v.kmask = v.umask
    BY <1>4, <1>1 DEF w, Stop, did_wait, Task, Inv, Free
  <2>2. v.pc \notin Critical /\ v.hdr.blocked_sigs = v.umask
    BY <1>4 DEF Inv, Published, Critical
  <2>3. w \in Task /\ w.ok
    BY Zenon, <1>1, <2>1 DEF Task, Hdr
  <2>4. Published(w) /\ Stashing(w)
    BY <1>1, <2>1, <2>2, <1>4 DEF Inv, Published, Stashing, Task, Hdr, Critical
  <2>5. Stopped(w)
    BY <1>1, <2>1, <1>4 DEF Stopped, Task
  <2>6. AtStop(w) /\ Free(w) /\ Held(w)
    BY <1>1, <2>1, <2>2, <1>4 DEF AtStop, Free, Held, Task
  <2> QED
    BY <2>3, <2>4, <2>5, <2>6 DEF Inv
<1>5. CASE ~v.blocking /\ ~v.hdr.critical /\ ~(v.hdr.generation > v.generation)
  <2>1. w = [v EXCEPT !.stop = why] /\ v.kmask = v.umask
    BY <1>5, <1>1 DEF w, Stop, did_wait, Task, Inv, Free
  <2>2. v.pc \notin Critical /\ v.blocked_sigs = v.umask
    BY <1>5 DEF Inv, Published, Free, Critical
  <2>3. Published(w) /\ Stashing(w)
    BY <1>1, <2>1, <1>5 DEF Inv, Published, Stashing, Task
  <2>4. Stopped(w)
    BY <1>1, <2>1, <1>5 DEF Stopped, Task
  <2>5. AtStop(w) /\ Free(w) /\ Held(w)
    BY <1>1, <2>1, <2>2, <1>5 DEF AtStop, Free, Held, Task
  <2> QED
    BY Zenon, <1>1, <2>1, <2>3, <2>4, <2>5 DEF Inv, Task
<1> QED
  BY <1>2, <1>3, <1>4, <1>5

-----------------------------------------------------------------------------
(* Steps that leave the masks alone. *)

(* A signal sent to the task is only pending. *)
LEMMA PostInv == IInv /\ Post => IInv'
<1> SUFFICES ASSUME Inv(t), NEW s \in Signals,
                    t' = [t EXCEPT !.pending = @ \cup {s}, !.events = @ + 1]
             PROVE  Inv(t')
  BY DEF IInv, Post
<1>1. t \in Task
  BY DEF Inv
<1>2. t' \in Task /\ t'.ok
  <2>1. t.pending \cup {s} \in SUBSET Signals /\ t.events + 1 \in Nat
    BY <1>1 DEF Task
  <2> QED
    BY Zenon, <1>1, <2>1 DEF Inv, Task
<1>3. Published(t') /\ Stashing(t')
  BY <1>1 DEF Inv, Published, Stashing, Task
<1>4. Stopped(t')
  BY <1>1 DEF Inv, Stopped, Task
<1>5. AtStop(t') /\ Free(t') /\ Held(t')
  BY <1>1 DEF Inv, AtStop, Free, Held, Task
<1> QED
  BY SMTT(30), <1>2, <1>3, <1>4, <1>5 DEF Inv

(* A program that starts a call is not held. *)
LEMMA AppNotHeld == ASSUME Inv(t), At("app") PROVE ~t.blocking /\ t.stop = "none" /\ t.pc = "app"
BY DEF Inv, Held, At, Running

(* The program starts a call, of a wrapper or traced. *)
LEMMA CallInv ==
  ASSUME Inv(t), At("app"), NEW op \in Op, NEW pc \in {"wrapper", "traced", "other"},
         t' = [t EXCEPT !.pc = pc, !.op = op, !.calls = @ + 1]
  PROVE  Inv(t')
<1>1. t \in Task /\ ~t.blocking /\ t.stop = "none" /\ t.pc = "app"
  BY AppNotHeld DEF Inv
<1>2. t' \in Task /\ t'.ok
  <2>1. pc \in Pcs /\ t.calls + 1 \in Nat
    BY <1>1 DEF Task, Pcs
  <2> QED
    BY ZenonT(30), <1>1, <2>1 DEF Inv, Task
<1>3. Published(t') /\ Stashing(t')
  BY <1>1 DEF Inv, Published, Stashing, Task, Critical
<1>4. Stopped(t')
  BY <1>1, ConstantsAssumption DEF Stopped, Task, Stashable, Stops, SIGSEGV, TIME_SLICE_SIGNAL
<1>5. AtStop(t') /\ Free(t') /\ Held(t')
  BY <1>1 DEF Inv, AtStop, Free, Held, Task
<1> QED
  BY <1>2, <1>3, <1>4, <1>5 DEF Inv

(* Both kinds of call are such a start. *)
LEMMA CallsInv == IInv /\ (CallSigprocmask \/ CallOther) => IInv'
<1> SUFFICES ASSUME Inv(t), CallSigprocmask \/ CallOther PROVE Inv(t')
  BY DEF IInv
<1>1. CASE CallSigprocmask
  <2>1. PICK op \in Ops, pc \in {"wrapper", "traced"} :
          t' = [t EXCEPT !.pc = pc, !.op = op, !.calls = @ + 1]
    BY ZenonT(30), <1>1 DEF CallSigprocmask
  <2> QED
    BY ZenonT(30), <1>1, <2>1, CallInv, ConstantsAssumption DEF CallSigprocmask, Op
<1>2. CASE CallOther
  <2>1. t \in Task /\ t' = [t EXCEPT !.pc = "other", !.op = t.op, !.calls = @ + 1]
    BY Zenon, <1>2 DEF CallOther, Inv, Task
  <2> QED
    BY Zenon, <1>2, <2>1, CallInv DEF CallOther, Task
<1> QED
  BY <1>1, <1>2

-----------------------------------------------------------------------------
(* The steps of the sigprocmask wrapper.  Each keeps the part of Published *)
(* that the next one needs.                                                *)

(* What does not stop the tracee concerns only the invariants of a running *)
(* one.                                                                    *)
LEMMA StillRunning ==
  ASSUME NEW w, w.stop = "none"
  PROVE  Stopped(w) /\ AtStop(w)
BY ConstantsAssumption DEF Stopped, AtStop, Stashable, Stops, SIGSEGV, TIME_SLICE_SIGNAL

(* The wrapper says that the mask is about to change. *)
LEMMA EnterCriticalInv == IInv /\ EnterCritical => IInv'
<1> SUFFICES ASSUME Inv(t), EnterCritical PROVE Inv(t')
  BY DEF IInv
<1>1. /\ t \in Task /\ t.stop = "none" /\ t.pc = "wrapper"
      /\ t' = [t EXCEPT !.hdr.critical = TRUE, !.pc = "untraced"]
  BY DEF EnterCritical, At, Running, Inv
<1>2. t' \in Task /\ t'.ok /\ t'.stop = "none"
  BY Zenon, <1>1 DEF Inv, Task, Hdr, Pcs
<1>3. Published(t')
  BY <1>1 DEF Inv, Published, Task, Hdr, Critical
<1>4. Stashing(t') /\ Free(t') /\ Held(t')
  BY <1>1 DEF Inv, Stashing, Free, Held, Task, Hdr
<1> QED
  BY <1>2, <1>3, <1>4, StillRunning DEF Inv

(* The mask computed from the old one is the program's new mask. *)
LEMMA StoreMaskInv == IInv /\ StoreMask => IInv'
<1> SUFFICES ASSUME Inv(t), StoreMask PROVE Inv(t')
  BY DEF IInv
<1>1. /\ t \in Task /\ t.stop = "none" /\ t.pc = "called"
      /\ t' = [t EXCEPT !.hdr.blocked_sigs = t.umask, !.pc = "stored"]
  BY Zenon DEF StoreMask, At, Running, Inv, Published
<1>2. t' \in Task /\ t'.ok /\ t'.stop = "none"
  BY ZenonT(30), <1>1 DEF Inv, Task, Hdr, Pcs
<1>3. Published(t')
  BY <1>1 DEF Inv, Published, Task, Hdr, Critical
<1>4. Stashing(t') /\ Free(t') /\ Held(t')
  BY <1>1 DEF Inv, Stashing, Free, Held, Task, Hdr
<1> QED
  BY <1>2, <1>3, <1>4, StillRunning DEF Inv

(* Now rr may read it. *)
LEMMA BumpGenerationInv == IInv /\ BumpGeneration => IInv'
<1> SUFFICES ASSUME Inv(t), BumpGeneration PROVE Inv(t')
  BY DEF IInv
<1>1. /\ t \in Task /\ t.stop = "none" /\ t.pc = "stored"
      /\ t' = [t EXCEPT !.hdr.generation = @ + 1, !.pc = "bumped"]
  BY DEF BumpGeneration, At, Running, Inv
<1>2. t' \in Task /\ t'.ok /\ t'.stop = "none"
  <2> DEFINE h == [t.hdr EXCEPT !.generation = @ + 1]
  <2>0. t.hdr \in Hdr /\ t.hdr.generation + 1 \in Nat
    BY <1>1 DEF Task, Hdr
  <2>1. h \in Hdr /\ "bumped" \in Pcs
    BY <2>0 DEF Hdr, Pcs
  <2>2. t' = [t EXCEPT !.hdr = h, !.pc = "bumped"]
    BY <1>1 DEF Task, Hdr
  <2> HIDE DEF h
  <2> QED
    BY ZenonT(30), <1>1, <2>1, <2>2 DEF Inv, Task
<1>3. Published(t')
  BY <1>1 DEF Inv, Published, Task, Hdr, Critical
<1>4. Stashing(t') /\ Free(t') /\ Held(t')
  <2>1. t'.hdr.generation > t'.generation
    BY <1>1 DEF Inv, Published, Task, Hdr
  <2> QED
    BY <1>1, <2>1 DEF Inv, Stashing, Free, Held, Task, Hdr
<1> QED
  BY <1>2, <1>3, <1>4, StillRunning DEF Inv

(* The wrapper says that the mask in the buffer can be relied on. *)
LEMMA LeaveCriticalInv == IInv /\ LeaveCritical => IInv'
<1> SUFFICES ASSUME Inv(t), LeaveCritical PROVE Inv(t')
  BY DEF IInv
<1> DEFINE next == IF t.pc = "eagain" THEN "retry" ELSE "left"
<1>1. /\ t \in Task /\ t.stop = "none" /\ t.pc \in {"bumped", "eagain"}
      /\ t' = [t EXCEPT !.hdr.critical = FALSE, !.pc = next]
  BY DEF LeaveCritical, Running, Inv
<1>2. t' \in Task /\ t'.ok /\ t'.stop = "none"
  <2>1. [t.hdr EXCEPT !.critical = FALSE] \in Hdr /\ next \in Pcs
    BY Zenon, <1>1 DEF Task, Hdr, Pcs
  <2> QED
    BY Zenon, <1>1, <2>1 DEF Inv, Task
<1>3. Published(t')
  BY <1>1 DEF Inv, Published, Task, Hdr, Critical
<1>4. Stashing(t') /\ Free(t') /\ Held(t')
  BY <1>1 DEF Inv, Stashing, Free, Held, Task, Hdr
<1> QED
  BY <1>2, <1>3, <1>4, StillRunning DEF Inv

(* The record is complete; the tracee goes on to its last instruction or   *)
(* retries.                                                                *)
LEMMA CommitInv == IInv /\ Commit => IInv'
<1> SUFFICES ASSUME Inv(t), Commit PROVE Inv(t')
  BY DEF IInv
<1> DEFINE next == IF t.pc = "retry" THEN "traced" ELSE "final"
<1>1. /\ t \in Task /\ t.stop = "none" /\ t.pc \in {"left", "retry"}
      /\ t' = [t EXCEPT !.hdr.num = 1, !.pc = next]
  BY DEF Commit, Running, Inv
<1>2. t' \in Task /\ t'.ok /\ t'.stop = "none"
  <2>1. [t.hdr EXCEPT !.num = 1] \in Hdr /\ next \in Pcs
    BY <1>1 DEF Task, Hdr, Pcs
  <2> QED
    BY Zenon, <1>1, <2>1 DEF Inv, Task
<1>3. Published(t')
  BY <1>1 DEF Inv, Published, Task, Hdr, Critical
<1>4. Stashing(t') /\ Free(t') /\ Held(t')
  BY <1>1 DEF Inv, Stashing, Free, Held, Task, Hdr
<1> QED
  BY <1>2, <1>3, <1>4, StillRunning DEF Inv

-----------------------------------------------------------------------------
(* Steps that may stop the tracee. *)

(* Why a running tracee may stop other than for a signal. *)
LEMMA StopReasons ==
  \A why \in {"syscall", "sigreturn", "final", "traced", "untraced"} :
    /\ why \in (Stops \cup Signals) \ {"none", "dispatch", "inject", SIGSEGV}
    /\ why \notin Stashable
BY ConstantsAssumption DEF Stops, Stashable, SIGSEGV, TIME_SLICE_SIGNAL

(* The kernel's and the program's mask change together, unless rr has a    *)
(* breakpoint here.                                                        *)
LEMMA UntracedSigprocmaskInv == IInv /\ UntracedSigprocmask => IInv'
<1> SUFFICES ASSUME Inv(t), UntracedSigprocmask PROVE Inv(t')
  BY DEF IInv
<1>1. t \in Task /\ t.stop = "none" /\ t.pc = "untraced"
  BY DEF UntracedSigprocmask, At, Running, Inv
<1>2. CASE "untraced" \in t.break_at
  <2>1. t' = Stop(t, "untraced")
    BY <1>2 DEF UntracedSigprocmask, BreakOr
  <2> QED
    BY <1>1, <2>1, StopReasons, StopInv
<1>3. CASE "untraced" \notin t.break_at
  <2> DEFINE m == Sigprocmask(t.umask, t.op)
  <2>1. ~t.blocking /\ t.kmask = t.umask
    BY <1>1, <1>3 DEF Inv, Stashing, Free
  <2>2. m \in SUBSET AllSignals /\ m = Sigprocmask(t.kmask, t.op)
    BY <1>1, <2>1, SigprocmaskType DEF Task
  <2>3. t' = [t EXCEPT !.kmask = m, !.umask = m, !.oldset = t.umask, !.pc = "called"]
    BY <1>1, <1>3, <2>1 DEF UntracedSigprocmask, BreakOr
  <2>4. Sigprocmask(t'.oldset, t'.op) = m
    BY <1>1, <2>3 DEF Task
  <2> HIDE DEF m
  <2>5. t' \in Task /\ t'.ok /\ t'.stop = "none"
    BY ZenonT(30), <1>1, <2>2, <2>3 DEF Inv, Task, Pcs
  <2>6. Published(t')
    BY <1>1, <2>3, <2>4 DEF Inv, Published, Task, Critical
  <2>7. Stashing(t') /\ Free(t') /\ Held(t')
    BY <1>1, <2>1, <2>3 DEF Inv, Stashing, Free, Held, Task
  <2> QED
    BY <2>5, <2>6, <2>7, StillRunning DEF Inv
<1> QED
  BY <1>2, <1>3

(* A buffered call that has nothing to do with masks. *)
LEMMA OtherUntracedInv == IInv /\ OtherUntraced => IInv'
<1> SUFFICES ASSUME Inv(t), OtherUntraced PROVE Inv(t')
  BY DEF IInv
<1>1. t \in Task /\ t.stop = "none" /\ t.pc = "other"
  BY DEF OtherUntraced, At, Running, Inv
<1>2. CASE "untraced" \in t.break_at
  <2>1. t' = Stop(t, "untraced")
    BY <1>2 DEF OtherUntraced, BreakOr
  <2> QED
    BY <1>1, <2>1, StopReasons, StopInv
<1>3. CASE "untraced" \notin t.break_at
  <2>1. t' = [t EXCEPT !.pc = "left"]
    BY <1>3 DEF OtherUntraced, BreakOr
  <2>2. t' \in Task /\ t'.ok /\ t'.stop = "none"
    BY Zenon, <1>1, <2>1 DEF Inv, Task, Pcs
  <2>3. Published(t')
    BY <1>1, <2>1 DEF Inv, Published, Task, Critical
  <2>4. Stashing(t') /\ Free(t') /\ Held(t')
    BY <1>1, <2>1 DEF Inv, Stashing, Free, Held, Task
  <2> QED
    BY <2>2, <2>3, <2>4, StillRunning DEF Inv
<1> QED
  BY <1>2, <1>3

(* The tracee leaves the buffer only with nothing stashed. *)
LEMMA FinalInstructionInv == IInv /\ FinalInstruction => IInv'
<1> SUFFICES ASSUME Inv(t), FinalInstruction PROVE Inv(t')
  BY DEF IInv
<1>1. t \in Task /\ t.stop = "none" /\ t.pc = "final"
  BY DEF FinalInstruction, At, Running, Inv
<1>2. CASE "final" \in t.break_at
  <2>1. t' = Stop(t, "final")
    BY <1>2 DEF FinalInstruction, BreakOr
  <2> QED
    BY <1>1, <2>1, StopReasons, StopInv
<1>3. CASE "final" \notin t.break_at
  <2>1. t' = [t EXCEPT !.pc = "app"] /\ ~t.blocking
    BY <1>3 DEF FinalInstruction, BreakOr, Inv, Stashing
  <2>2. t' \in Task /\ t'.ok /\ t'.stop = "none"
    BY SMTT(30), <1>1, <2>1 DEF Inv, Task, Pcs
  <2>3. Published(t')
    BY <1>1, <2>1 DEF Inv, Published, Task, Critical
  <2>4. Stashing(t') /\ Free(t') /\ Held(t')
    BY <1>1, <2>1 DEF Inv, Stashing, Free, Held, Task
  <2> QED
    BY <2>2, <2>3, <2>4, StillRunning DEF Inv
<1> QED
  BY <1>2, <1>3

(* A traced call is entered only with nothing stashed. *)
LEMMA TracedSigprocmaskInv == IInv /\ TracedSigprocmask => IInv'
<1> SUFFICES ASSUME Inv(t), TracedSigprocmask PROVE Inv(t')
  BY DEF IInv
<1>1. t \in Task /\ t.stop = "none" /\ t.pc = "traced"
  BY DEF TracedSigprocmask, At, Running, Inv
<1>2. CASE "traced" \in t.break_at
  BY <1>1, <1>2, StopReasons, StopInv DEF TracedSigprocmask, BreakOr
<1>3. CASE "traced" \notin t.break_at
  <2>1. t' = Stop(t, "syscall") /\ ~t.blocking
    BY <1>3 DEF TracedSigprocmask, BreakOr, Inv, Stashing
  <2> QED
    BY <1>1, <2>1, StopReasons, StopInv DEF Safe
<1> QED
  BY <1>2, <1>3

(* A handler returns only with nothing stashed. *)
LEMMA SigreturnInv == IInv /\ Sigreturn => IInv'
<1> SUFFICES ASSUME Inv(t), Sigreturn PROVE Inv(t')
  BY DEF IInv
<1>1. ~t.blocking /\ t.stop = "none" /\ t.pc = "app" /\ t.frames # <<>> /\ t' = Stop(t, "sigreturn")
  BY AppNotHeld DEF Sigreturn
<1> QED
  BY <1>1, StopReasons, StopInv DEF Safe

(* The kernel delivers no signal while one is stashed. *)
LEMMA DeliverInv == IInv /\ Deliver => IInv'
<1> SUFFICES ASSUME Inv(t), Deliver PROVE Inv(t')
  BY DEF IInv
<1>1. PICK s \in t.pending \ t.kmask : t' = Stop([t EXCEPT !.pending = @ \ {s}], s)
  BY Zenon DEF Deliver
<1> DEFINE v == [t EXCEPT !.pending = @ \ {s}]
<1>2. t \in Task /\ t.stop = "none" /\ s \in Signals
  BY DEF Deliver, Running, Inv, Task
<1>3. ~t.blocking /\ s \notin t.umask
  BY <1>1, <1>2 DEF Inv, Held, Free, AllSignals
<1>4. v \in Task /\ v.ok
  <2>1. t.pending \ {s} \in SUBSET Signals
    BY <1>2 DEF Task
  <2> QED
    BY Zenon, <1>2, <2>1 DEF Inv, Task
<1>5. Published(v) /\ Stashing(v)
  BY <1>2 DEF Inv, Published, Stashing, Task
<1>6. Stopped(v)
  BY <1>2 DEF Inv, Stopped, Task
<1>7. AtStop(v) /\ Free(v) /\ Held(v)
  BY <1>2 DEF Inv, AtStop, Free, Held, Task
<1>8. Inv(v) /\ v.stop = "none" /\ ~v.blocking /\ v.umask = t.umask
  BY Zenon, <1>2, <1>3, <1>4, <1>5, <1>6, <1>7 DEF Inv, Task
<1>9. /\ s \in (Stops \cup Signals) \ {"none", "dispatch", "inject", SIGSEGV}
      /\ s \notin {"syscall", "sigreturn", "final", "traced", "untraced"}
  BY <1>2, ConstantsAssumption DEF Stops, SIGSEGV
<1> HIDE DEF v
<1> QED
  BY Zenon, <1>1, <1>3, <1>8, <1>9, StopInv DEF v

(* The time slice ends while nothing is stashed. *)
LEMMA TimeSliceInv == ASSUME ~SliceWhileStashed PROVE IInv /\ TimeSlice => IInv'
<1> SUFFICES ASSUME Inv(t), TimeSlice PROVE Inv(t')
  BY DEF IInv
<1> DEFINE v == [t EXCEPT !.events = @ + 1]
<1>1. t \in Task /\ t.stop = "none" /\ t.stashed = <<>> /\ t' = Stop(v, TIME_SLICE_SIGNAL)
  BY DEF TimeSlice, Running, Inv, has_stashed_sig
<1>2. ~t.blocking
  BY <1>1 DEF Inv, Stashing
<1>3. v \in Task /\ v.ok
  <2>1. t.events + 1 \in Nat
    BY <1>1 DEF Task
  <2> QED
    BY Zenon, <1>1, <2>1 DEF Inv, Task
<1>4. Published(v) /\ Stashing(v)
  BY <1>1 DEF Inv, Published, Stashing, Task
<1>5. Stopped(v)
  BY <1>1 DEF Inv, Stopped, Task
<1>6. AtStop(v) /\ Free(v) /\ Held(v)
  BY <1>1 DEF Inv, AtStop, Free, Held, Task
<1>7. Inv(v) /\ v.stop = "none" /\ ~v.blocking /\ v.umask = t.umask
  BY Zenon, <1>1, <1>2, <1>3, <1>4, <1>5, <1>6 DEF Inv, Task
<1>8. /\ TIME_SLICE_SIGNAL \in (Stops \cup Signals) \ {"none", "dispatch", "inject", SIGSEGV}
      /\ TIME_SLICE_SIGNAL \notin {"syscall", "sigreturn", "final", "traced", "untraced"}
  BY DEF Stops, SIGSEGV, TIME_SLICE_SIGNAL
<1>9. TIME_SLICE_SIGNAL \notin t.umask
  BY <1>1, OwnSignal DEF Task
<1> HIDE DEF v
<1> QED
  BY <1>1, <1>7, <1>8, <1>9, StopInv

(* The kernel has unblocked SIGSEGV; rr's mask is still the program's. *)
LEMMA TrappedInstructionInv == IInv /\ TrappedInstruction => IInv'
<1> SUFFICES ASSUME Inv(t), TrappedInstruction PROVE Inv(t')
  BY DEF IInv
<1> DEFINE k == t.umask \ {SIGSEGV}
           g == IF t.hdr.generation > t.generation THEN t.hdr.generation ELSE t.generation
<1>1. t \in Task /\ ~t.blocking /\ t.stop = "none" /\ t.pc = "app"
  BY AppNotHeld DEF TrappedInstruction, Inv
<1>2. ~t.hdr.critical /\ t.kmask = t.umask /\ ~t.dirty
  BY <1>1 DEF Inv, Published, Free, Critical
<1>3. t.hdr.generation > t.generation => t.hdr.blocked_sigs = t.umask
  BY <1>1 DEF Inv, Published
<1>4. ~(t.hdr.generation > t.generation) => t.blocked_sigs = t.umask
  BY <1>1 DEF Inv, Free
<1>5. g \in Nat /\ g >= t.hdr.generation /\ g = t.hdr.generation
  BY <1>1 DEF Task, Hdr, Inv, Published
<1>6. k \in SUBSET AllSignals /\ t.events + 1 \in Nat
  BY <1>1 DEF Task
<1>7. t' = [t EXCEPT !.kmask = k, !.events = @ + 1, !.stop = SIGSEGV, !.generation = g,
                     !.blocked_sigs = t.umask]
  <2>1. CASE t.hdr.generation > t.generation
    BY Zenon, <1>1, <1>2, <1>3, <2>1 DEF TrappedInstruction, Stop, did_wait, Task
  <2>2. CASE ~(t.hdr.generation > t.generation)
    BY Zenon, <1>1, <1>2, <1>4, <2>2 DEF TrappedInstruction, Stop, did_wait, Task
  <2> QED
    BY <2>1, <2>2
<1> HIDE DEF g
<1>8. t' \in Task /\ t'.ok
  BY Zenon, <1>1, <1>5, <1>6, <1>7 DEF Inv, Task, Stops
<1>9. Published(t') /\ Stashing(t')
  BY <1>1, <1>5, <1>7 DEF Inv, Published, Stashing, Task, Hdr, SIGSEGV
<1>10. Stopped(t')
  BY <1>1, <1>7, ConstantsAssumption DEF Stopped, Task, Stashable, Stops, SIGSEGV, TIME_SLICE_SIGNAL
<1>11. AtStop(t') /\ Free(t') /\ Held(t')
  BY <1>1, <1>2, <1>7 DEF AtStop, Free, Held, Task, SIGSEGV
<1> QED
  BY <1>8, <1>9, <1>10, <1>11 DEF Inv

-----------------------------------------------------------------------------
(* What the tracer's helpers do to a stopped task. *)

(* Looking at the mask makes rr's copy exact. *)
LEMMA GetSigmask ==
  ASSUME NEW v \in Task, v.dirty => v.kmask = v.umask, ~v.dirty => v.blocked_sigs = v.umask
  PROVE  get_sigmask(v) = [v EXCEPT !.blocked_sigs = v.umask, !.dirty = FALSE]
<1>1. CASE v.dirty
  BY Zenon, <1>1 DEF get_sigmask, read_sigmask_from_process
<1>2. CASE ~v.dirty
  <2>1. v.dirty = FALSE
    BY <1>2 DEF Task
  <2> QED
    BY Zenon, <1>2, <2>1 DEF get_sigmask, Task
<1> QED
  BY <1>1, <1>2

(* An event leaves the buffer empty, with nothing to be read from it. *)
LEMMA RecordEvent ==
  ASSUME NEW v \in Task, v.hdr.num = 0 => v.hdr.generation = v.generation
  PROVE  \E h \in Hdr, g \in Nat :
           /\ record_event(v) = [v EXCEPT !.hdr = h, !.generation = g]
           /\ h.num = 0 /\ h.generation = g /\ h.critical = v.hdr.critical
<1>1. v.hdr \in Hdr
  BY SMTT(30) DEF Task
<1>2. CASE v.hdr.num = 0
  <2>1. record_event(v) = [v EXCEPT !.hdr = v.hdr, !.generation = v.generation]
    BY Zenon, <1>2 DEF record_event, Task
  <2> QED
    BY Zenon, <1>1, <1>2, <2>1 DEF Task
<1>3. CASE v.hdr.num # 0
  <2> DEFINE h == [v.hdr EXCEPT !.num = 0, !.generation = 0]
  <2>1. h \in Hdr /\ h.num = 0 /\ h.generation = 0 /\ h.critical = v.hdr.critical
    BY Zenon, <1>1 DEF Hdr
  <2>2. record_event(v) = [v EXCEPT !.hdr = h, !.generation = 0]
    BY Zenon, <1>1, <1>3 DEF record_event, Task, Hdr
  <2> HIDE DEF h
  <2> QED
    BY Zenon, <2>1, <2>2
<1> QED
  BY Zenon, <1>2, <1>3

(* After an event that ends with the program's mask in the kernel, nothing *)
(* stashed and rr's copy marked dirty.                                     *)
LEMMA Settled ==
  ASSUME NEW v \in Task, v.ok, v.stop = "dispatch", v.pc \in Safe, ~v.hdr.critical,
         v.hdr.generation = v.generation, ~v.blocking, v.stashed = <<>>,
         v.kmask = v.umask, v.dirty
  PROVE  Inv(v)
<1>1. Published(v) /\ Stashing(v)
  BY DEF Published, Stashing, Task, Hdr, Safe, Critical
<1>2. Stopped(v)
  BY ConstantsAssumption DEF Stopped, Stashable, Stops, SIGSEGV, TIME_SLICE_SIGNAL
<1>3. AtStop(v) /\ Free(v) /\ Held(v)
  BY DEF AtStop, Free, Held, SIGSEGV
<1> QED
  BY <1>1, <1>2, <1>3 DEF Inv

(* A stopped task that is left to prepare_to_inject_signal. *)
LEMMA DispatchStopped ==
  ASSUME NEW v, v.stop = "dispatch"
  PROVE  Stopped(v) /\ Free(v) /\ Held(v)
BY SMTT(30), ConstantsAssumption DEF Stopped, Free, Held, Stashable, Stops, SIGSEGV, TIME_SLICE_SIGNAL

-----------------------------------------------------------------------------
(* The tracer's steps. *)

(* A breakpoint of the syscall buffer. *)
LEMMA BreakpointInv ==
  ASSUME Inv(t), SignalStop, t.stop \in Breaks
  PROVE  Inv(t')
<1>1. t \in Task /\ t.ok
  BY DEF Inv
<1>2. t' = [handle_syscallbuf_breakpoint(t) EXCEPT !.at_trap = TRUE, !.stop = "dispatch"]
  <2>1. handle_signal_event(t) = handle_syscallbuf_breakpoint(t)
    BY DEF handle_signal_event, Breaks, SIGSEGV
  <2>2. (t.stop \in {"final", "traced", "untraced"}) = TRUE
    BY DEF Breaks
  <2> QED
    BY Zenon, <2>1, <2>2 DEF SignalStop, Dispatch
<1>3. CASE t.stop = "final"
  <2>1. t' = [t EXCEPT !.pc = "app", !.at_trap = TRUE, !.stop = "dispatch"] /\ t.pc = "final"
    BY Zenon, <1>2, <1>3 DEF handle_syscallbuf_breakpoint, Inv, Stopped
  <2>2. t' \in Task /\ t'.ok /\ t'.stop = "dispatch"
    BY Zenon, <1>1, <2>1 DEF Task, Pcs, Stops
  <2>3. Published(t') /\ Stashing(t') /\ AtStop(t')
    BY <1>1, <1>3, <2>1 DEF Inv, Published, Stashing, AtStop, Task, Critical, SIGSEGV
  <2> QED
    BY <2>2, <2>3, DispatchStopped DEF Inv
<1>4. CASE t.stop = "traced"
  <2>0. handle_syscallbuf_breakpoint(t) = t
    <3>1. t.pc = "traced"
      BY <1>4 DEF Inv, Stopped
    <3> QED
      BY <1>4, <3>1 DEF handle_syscallbuf_breakpoint
  <2>1. t' = [t EXCEPT !.at_trap = TRUE, !.stop = "dispatch"]
    BY <1>2, <2>0
  <2>2. t' \in Task /\ t'.ok /\ t'.stop = "dispatch"
    BY Zenon, <1>1, <2>1 DEF Task, Stops
  <2>3. Published(t') /\ Stashing(t') /\ AtStop(t')
    BY <1>1, <1>4, <2>1 DEF Inv, Published, Stashing, AtStop, Task, SIGSEGV
  <2> QED
    BY <2>2, <2>3, DispatchStopped DEF Inv
<1>5. CASE t.stop = "untraced" /\ t.pc = "untraced"
  <2>1. t' = [t EXCEPT !.pc = "eagain", !.at_trap = TRUE, !.stop = "dispatch"]
    BY <1>2, <1>5 DEF handle_syscallbuf_breakpoint
  <2>2. t' \in Task /\ t'.ok /\ t'.stop = "dispatch"
    BY Zenon, <1>1, <2>1 DEF Task, Pcs, Stops
  <2>3. Published(t') /\ Stashing(t') /\ AtStop(t')
    BY <1>1, <1>5, <2>1 DEF Inv, Published, Stashing, AtStop, Task, Critical, SIGSEGV
  <2> QED
    BY <2>2, <2>3, DispatchStopped DEF Inv
<1>6. CASE t.stop = "untraced" /\ t.pc = "other"
  <2>1. t' = [t EXCEPT !.break_at = @ \ {"untraced"}, !.at_trap = TRUE, !.stop = "dispatch"]
    BY <1>2, <1>6 DEF handle_syscallbuf_breakpoint
  <2>2. t' \in Task /\ t'.ok /\ t'.stop = "dispatch"
    BY Zenon, <1>1, <2>1 DEF Task, Stops
  <2>3. Published(t') /\ Stashing(t') /\ AtStop(t')
    BY <1>1, <1>6, <2>1 DEF Inv, Published, Stashing, AtStop, Task, SIGSEGV
  <2> QED
    BY <2>2, <2>3, DispatchStopped DEF Inv
<1> QED
  BY <1>3, <1>4, <1>5, <1>6 DEF Inv, Stopped, Breaks

(* A SIGSEGV of rr's making: the mask is put back as it was. *)
LEMMA TrappedInv ==
  ASSUME Inv(t), SignalStop, t.stop = SIGSEGV
  PROVE  Inv(t')
<1>1. /\ t \in Task /\ t.ok /\ ~t.dirty /\ t.blocked_sigs = t.umask
      /\ t.kmask = t.umask \ {SIGSEGV} /\ ~t.blocking /\ t.pc = "app"
  BY DEF Inv, AtStop, Stopped, SIGSEGV
<1>2. get_sigmask(t) = t
  BY <1>1 DEF get_sigmask
<1>3. t' = [t EXCEPT !.dirty = TRUE, !.kmask = t.umask, !.at_trap = FALSE, !.stop = "dispatch"]
  <2>1. handle_signal_event(t) = [t EXCEPT !.dirty = TRUE, !.kmask = t.umask]
    <3>1. CASE SIGSEGV \in t.umask
      <4>1. t.kmask \cup {SIGSEGV} = t.umask
        BY <1>1, <3>1
      <4> QED
        BY Zenon, <1>1, <1>2, <3>1, <4>1
           DEF handle_signal_event, restore_signal_state, invalidate_sigmask, is_sig_blocked, SIGSEGV,
               Task
    <3>2. CASE SIGSEGV \notin t.umask
      <4>1. t.kmask = t.umask
        BY <1>1, <3>2
      <4> QED
        BY Zenon, <1>1, <1>2, <3>2, <4>1
           DEF handle_signal_event, restore_signal_state, invalidate_sigmask, is_sig_blocked, SIGSEGV,
               Task
    <3> QED
      BY <3>1, <3>2
  <2>2. (t.stop \in {"final", "traced", "untraced"}) = FALSE
    BY DEF SIGSEGV
  <2> QED
    BY Zenon, <2>1, <2>2 DEF SignalStop, Dispatch
<1>4. t' \in Task /\ t'.ok /\ t'.stop = "dispatch"
  BY ZenonT(30), <1>1, <1>3 DEF Task, Stops
<1>5. Published(t') /\ Stashing(t') /\ AtStop(t')
  BY <1>1, <1>3 DEF Inv, Published, Stashing, AtStop, Task, SIGSEGV
<1> QED
  BY <1>4, <1>5, DispatchStopped DEF Inv

(* A signal is stashed; it was not blocked when it arrived. *)
LEMMA StashInv ==
  ASSUME Inv(t), SignalStop, t.stop \in Stashable
  PROVE  Inv(t')
<1> DEFINE s == t.stop
<1>1. t \in Task /\ t.ok /\ ~t.blocking /\ s \notin t.umask
  BY DEF Inv, Stopped
<1>2. s \notin {"none", "inject", "dispatch", "final", "traced", "untraced", SIGSEGV}
  BY ConstantsAssumption DEF Stashable, Stops, SIGSEGV, TIME_SLICE_SIGNAL
<1>3. t.stashed = <<>> /\ t.kmask = t.umask /\ (~t.dirty => t.blocked_sigs = t.umask)
  BY <1>1, <1>2 DEF Inv, Stashing, AtStop
<1>4. get_sigmask(t) = [t EXCEPT !.blocked_sigs = t.umask, !.dirty = FALSE]
  BY Zenon, <1>1, <1>3, GetSigmask
<1> DEFINE v == [t EXCEPT !.blocked_sigs = t.umask, !.dirty = TRUE]
<1>5. invalidate_sigmask(get_sigmask(t)) = v /\ v.stashed = <<>>
  BY Zenon, <1>1, <1>3, <1>4 DEF invalidate_sigmask, Task
<1>6. stash_sig(v, s) = [v EXCEPT !.stashed = <<s>>, !.blocking = TRUE, !.break_at = Breaks]
  <2> HIDE DEF v, s
  <2>1. DOMAIN v.stashed = {}
    BY <1>5
  <2>2. {v.stashed[i] : i \in DOMAIN v.stashed} = {}
    BY <2>1
  <2>3. Append(v.stashed, s) = <<s>>
    BY <1>5
  <2> QED
    BY <2>2, <2>3 DEF stash_sig, Breaks
<1>7. t' = [t EXCEPT !.blocked_sigs = t.umask, !.dirty = TRUE, !.stashed = <<s>>, !.blocking = TRUE,
                     !.break_at = Breaks, !.at_trap = FALSE, !.stop = "dispatch"]
  <2>1. handle_signal_event(t) = stash_sig(v, s)
    BY <1>2, <1>5 DEF handle_signal_event
  <2>2. (s \in {"final", "traced", "untraced"}) = FALSE
    BY <1>2
  <2>3. t' = [stash_sig(v, s) EXCEPT !.at_trap = FALSE, !.stop = "dispatch"]
    BY Zenon, <2>1, <2>2 DEF SignalStop, Dispatch
  <2> QED
    BY Zenon, <1>6, <2>3
<1>8. <<s>> \in Seq(Stashable) /\ Len(<<s>>) = 1 /\ <<s>>[1] = s /\ <<s>> # <<>>
  OBVIOUS
<1>9. t' \in Task /\ t'.ok /\ t'.stop = "dispatch"
  BY Zenon, <1>1, <1>7, <1>8 DEF Task, Stops
<1>10. Published(t') /\ AtStop(t')
  BY <1>1, <1>3, <1>7 DEF Inv, Published, AtStop, Task, SIGSEGV
<1>11. Stashing(t')
  BY <1>1, <1>7, <1>8 DEF Stashing, Task, Breaks
<1> QED
  BY <1>9, <1>10, <1>11, DispatchStopped DEF Inv

(* The three kinds of signal-stop. *)
LEMMA SignalStopInv == IInv /\ SignalStop => IInv'
<1> SUFFICES ASSUME Inv(t), SignalStop PROVE Inv(t')
  BY DEF IInv
<1>1. t.stop \in Breaks \/ t.stop = SIGSEGV \/ t.stop \in Stashable
  BY DEF SignalStop, Breaks, Stashable
<1> QED
  BY <1>1, BreakpointInv, TrappedInv, StashInv

(* A traced call starts with an empty stash, and leaves rr's copy dirty. *)
LEMMA SyscallStopInv == IInv /\ SyscallStop => IInv'
<1> SUFFICES ASSUME Inv(t), SyscallStop PROVE Inv(t')
  BY DEF IInv
<1>1. /\ t \in Task /\ t.ok /\ ~t.blocking /\ t.pc \in Safe
      /\ t.stop \in {"syscall", "sigreturn"} /\ (t.stop = "sigreturn" => t.frames # <<>>)
  BY DEF SyscallStop, Inv, Stopped
<1>2. /\ t.stashed = <<>> /\ t.kmask = t.umask /\ ~t.hdr.critical
      /\ ~t.dirty => t.blocked_sigs = t.umask
  BY <1>1 DEF Inv, Stashing, AtStop, Published, Safe, Critical, SIGSEGV
<1>3. t.hdr.num = 0 => t.hdr.generation = t.generation
  BY <1>1 DEF Inv, Published, Safe
<1>4. PICK h \in Hdr, g \in Nat :
        /\ record_event(t) = [t EXCEPT !.hdr = h, !.generation = g]
        /\ h.num = 0 /\ h.generation = g /\ ~h.critical
  BY Zenon, <1>1, <1>2, <1>3, RecordEvent
<1> DEFINE c == [t EXCEPT !.hdr = h, !.generation = g, !.blocked_sigs = t.umask, !.dirty = FALSE]
<1>5. process_syscall_entry(t) = c
  <2> DEFINE b == [t EXCEPT !.hdr = h, !.generation = g]
  <2>1. [t EXCEPT !.ok = @ /\ ~has_stashed_sig(t)] = t
    <3>1. (t.ok /\ ~has_stashed_sig(t)) = t.ok
      BY Zenon, <1>1, <1>2 DEF has_stashed_sig, Task
    <3> QED
      BY Zenon, <1>1, <3>1 DEF Task
  <2>2. b \in Task /\ b.dirty = t.dirty /\ b.kmask = t.umask /\ b.umask = t.umask
        /\ b.blocked_sigs = t.blocked_sigs /\ b.blocking = t.blocking
    BY Zenon, <1>1, <1>2 DEF Task
  <2>3. get_sigmask(b) = [b EXCEPT !.blocked_sigs = t.umask, !.dirty = FALSE]
    <3> HIDE DEF b
    <3> QED
      BY Zenon, <1>2, <2>2, GetSigmask
  <2>4. get_sigmask(b) = c /\ ~c.blocking
    BY <1>1, <2>3 DEF Task
  <2>5. will_resume_execution(b, {}) = c
    <3> HIDE DEF b, c
    <3> QED
      BY <2>4 DEF will_resume_execution
  <2> QED
    BY <1>4, <2>1, <2>5 DEF process_syscall_entry
<1> DEFINE Ret(m, fr, pc, op) ==
             [c EXCEPT !.frames = fr, !.kmask = m, !.umask = m, !.pc = pc, !.op = op]
<1>6. ASSUME NEW m \in SUBSET AllSignals, NEW fr \in Seq(Frame), NEW pc \in Safe, NEW op \in Op,
             t' = Dispatch([on_syscall_exit(Ret(m, fr, pc, op)) EXCEPT !.at_trap = TRUE])
      PROVE  Inv(t')
  <2> DEFINE d == Ret(m, fr, pc, op)
  <2>1. d = [t EXCEPT !.hdr = h, !.generation = g, !.blocked_sigs = t.umask, !.dirty = FALSE,
                      !.frames = fr, !.kmask = m, !.umask = m, !.pc = pc, !.op = op]
    OBVIOUS
  <2>2. /\ d \in Task /\ d.ok /\ ~d.blocking /\ d.stashed = <<>> /\ d.kmask = m /\ d.umask = m
        /\ d.pc = pc /\ d.hdr = h /\ d.generation = g
    BY <1>1, <1>2, <2>1 DEF Task, Safe, Pcs
  <2> HIDE DEF d
  <2>3. did_wait(d) = d
    <3>1. ~(h.generation > g)
      BY <1>4 DEF Hdr
    <3> QED
      BY <1>4, <2>2, <3>1 DEF did_wait
  <2>4. on_syscall_exit(d) = [d EXCEPT !.dirty = TRUE]
    <3>1. [d EXCEPT !.dirty = TRUE].hdr.num = 0
      BY <1>4, <2>2 DEF Task
    <3> QED
      BY <2>3, <3>1 DEF on_syscall_exit, invalidate_sigmask, record_event
  <2>5. t' = [d EXCEPT !.dirty = TRUE, !.at_trap = TRUE, !.stop = "dispatch"]
    BY Zenon, <1>6, <2>4 DEF Dispatch, d
  <2>6. t' \in Task /\ t'.ok /\ t'.stop = "dispatch"
    BY Zenon, <2>2, <2>5 DEF Task, Stops
  <2>7. /\ t'.pc \in Safe /\ ~t'.hdr.critical /\ t'.hdr.generation = t'.generation /\ ~t'.blocking
        /\ t'.stashed = <<>> /\ t'.kmask = t'.umask /\ t'.dirty
    BY <1>4, <2>2, <2>5 DEF Task
  <2> QED
    BY <2>6, <2>7, Settled
<1>7. c \in Task /\ c.kmask = t.umask /\ c.umask = t.umask /\ c.frames = t.frames /\ c.op = t.op
  BY Zenon, <1>1, <1>2 DEF Task
<1>8. CASE t.stop = "sigreturn"
  <2> DEFINE f == Head(t.frames)
  <2>1. f \in Frame /\ Tail(t.frames) \in Seq(Frame)
    BY <1>1, <1>8, HeadTailProperties DEF Task
  <2>2. f.mask \in SUBSET AllSignals /\ f.umask = f.mask /\ f.pc \in Safe /\ f.op \in Op
    BY <2>1 DEF Frame
  <2>3. PopFrame(c) = Ret(f.mask, Tail(t.frames), f.pc, f.op)
    <3> HIDE DEF c
    <3> QED
      BY Zenon, <1>7, <2>2 DEF PopFrame
  <2>4. t' = Dispatch([on_syscall_exit(PopFrame(c)) EXCEPT !.at_trap = TRUE])
    BY <1>5, <1>8 DEF SyscallStop
  <2> HIDE DEF Ret, f
  <2> QED
    BY Zenon, <1>6, <2>1, <2>2, <2>3, <2>4
<1>9. CASE t.stop = "syscall"
  <2> DEFINE m == Sigprocmask(t.umask, t.op)
  <2>1. m \in SUBSET AllSignals
    BY <1>1, SigprocmaskType DEF Task
  <2>2. [c EXCEPT !.kmask = Sigprocmask(@, t.op), !.umask = Sigprocmask(@, t.op), !.pc = "app"]
          = Ret(m, t.frames, "app", t.op)
    <3> HIDE DEF c
    <3>1. Sigprocmask(c.kmask, t.op) = m /\ Sigprocmask(c.umask, t.op) = m
      BY <1>7
    <3> HIDE DEF m
    <3> QED
      BY Zenon, <1>7, <3>1 DEF Task
  <2>3. t' = Dispatch([on_syscall_exit(Ret(m, t.frames, "app", t.op)) EXCEPT !.at_trap = TRUE])
    BY Zenon, <1>5, <1>9, <2>2 DEF SyscallStop
  <2>4. t.frames \in Seq(Frame) /\ t.op \in Op /\ "app" \in Safe
    BY <1>1 DEF Task, Safe
  <2> HIDE DEF Ret, m
  <2> QED
    BY Zenon, <1>6, <2>1, <2>3, <2>4
<1> QED
  BY <1>1, <1>8, <1>9

(* The one stashed signal leaves the stash; rr goes on blocking until it   *)
(* is injected.                                                            *)
LEMMA prepare_to_inject_signalInv == IInv /\ prepare_to_inject_signal => IInv'
<1> SUFFICES ASSUME Inv(t), prepare_to_inject_signal PROVE Inv(t')
  BY DEF IInv
<1> DEFINE s == Head(t.stashed)
           v == [t EXCEPT !.dirty = TRUE, !.stashed = <<>>]
<1>1. /\ t \in Task /\ t.ok /\ t.stop = "dispatch" /\ t.stashed # <<>> /\ t.pc \in Safe
      /\ t.blocking /\ Len(t.stashed) = 1 /\ t.kmask = t.umask /\ ~t.hdr.critical
  BY DEF prepare_to_inject_signal, has_stashed_sig, is_safe_to_deliver_signal, Safe, Inv, Stashing,
         AtStop, Published, Critical, SIGSEGV
<1>2. s \in Stashable /\ Tail(t.stashed) = <<>>
  <2>1. t.stashed \in Seq(Stashable)
    BY <1>1 DEF Task
  <2>2. /\ Head(t.stashed) \in Stashable /\ Tail(t.stashed) \in Seq(Stashable)
        /\ Len(Tail(t.stashed)) = 0
    BY <1>1, <2>1, HeadTailProperties
  <2> QED
    BY Zenon, <2>2, EmptySeq
<1>3. pop_stash_sig(invalidate_sigmask(t)) = v
  BY Zenon, <1>1, <1>2 DEF pop_stash_sig, invalidate_sigmask, Task
<1>4. CASE s = TIME_SLICE_SIGNAL
  <2> DEFINE u == [t EXCEPT !.dirty = TRUE, !.stashed = <<>>, !.blocking = FALSE, !.break_at = {}]
  <2>1. stashed_signal_processed(v) = u
    <3>1. v.stashed = <<>> /\ has_stashed_sig(v) = FALSE
      BY <1>1 DEF has_stashed_sig, Task
    <3> QED
      BY Zenon, <3>1 DEF stashed_signal_processed
  <2>2. u \in Task /\ u.ok /\ u.stop = "dispatch"
    <3>1. <<>> \in Seq(Stashable)
      OBVIOUS
    <3> QED
      BY Zenon, <1>1, <3>1 DEF Task
  <2>3. Published(u) /\ Stashing(u) /\ AtStop(u)
    BY <1>1 DEF Inv, Published, Stashing, AtStop, Task, SIGSEGV
  <2>4. Inv(u)
    BY Zenon, <2>2, <2>3, DispatchStopped DEF Inv
  <2>5. CASE t' = record_event(u)
    <3>1. /\ u.pc \in Safe /\ ~u.hdr.critical /\ ~u.blocking /\ u.stashed = <<>>
          /\ u.kmask = u.umask /\ u.dirty
          /\ u.hdr.num = 0 => u.hdr.generation = u.generation
      BY <1>1, <2>3 DEF Task, Published, Safe
    <3> HIDE DEF u
    <3>2. PICK h \in Hdr, g \in Nat :
            /\ record_event(u) = [u EXCEPT !.hdr = h, !.generation = g]
            /\ h.num = 0 /\ h.generation = g /\ ~h.critical
      BY Zenon, <2>2, <3>1, RecordEvent
    <3>3. t' \in Task /\ t'.ok /\ t'.stop = "dispatch"
      BY ZenonT(30), <2>2, <2>5, <3>2 DEF Task
    <3>4. /\ t'.pc \in Safe /\ ~t'.hdr.critical /\ t'.hdr.generation = t'.generation /\ ~t'.blocking
          /\ t'.stashed = <<>> /\ t'.kmask = t'.umask /\ t'.dirty
      BY <2>2, <2>5, <3>1, <3>2 DEF Task
    <3> QED
      BY <3>3, <3>4, Settled
  <2> QED
    BY <1>3, <1>4, <2>1, <2>4, <2>5 DEF prepare_to_inject_signal
<1>5. CASE s # TIME_SLICE_SIGNAL
  <2>1. t' = [t EXCEPT !.dirty = TRUE, !.stashed = <<>>, !.stop = "inject", !.injected = s]
    BY <1>3, <1>5 DEF prepare_to_inject_signal
  <2>2. s \in Signals
    BY <1>2, <1>5 DEF Stashable
  <2>3. t' \in Task /\ t'.ok
    <3>1. <<>> \in Seq(Stashable)
      OBVIOUS
    <3> QED
      BY Zenon, <1>1, <2>1, <2>2, <3>1 DEF Task, Stops
  <2>4. Published(t') /\ Stashing(t')
    BY <1>1, <2>1 DEF Inv, Published, Stashing, Task
  <2>5. Stopped(t')
    BY <1>1, <2>1, <2>2, ConstantsAssumption
       DEF Stopped, Stashable, Stops, Task, SIGSEGV, TIME_SLICE_SIGNAL
  <2>6. AtStop(t') /\ Free(t') /\ Held(t')
    BY <1>1, <2>1 DEF AtStop, Free, Held, Task, SIGSEGV
  <2> QED
    BY <2>3, <2>4, <2>5, <2>6 DEF Inv
<1> QED
  BY <1>4, <1>5

(* Before the tracee runs rr's copy is made exact, and only then the       *)
(* kernel's mask is replaced.                                              *)
LEMMA task_continueInv == IInv /\ task_continue => IInv'
<1> SUFFICES ASSUME Inv(t), task_continue PROVE Inv(t')
  BY DEF IInv
<1>1. /\ t \in Task /\ t.ok /\ t.stop = "dispatch" /\ t.kmask = t.umask
      /\ ~t.dirty => t.blocked_sigs = t.umask
      /\ t.blocking <=> t.stashed # <<>>
  BY DEF task_continue, Inv, AtStop, Stashing, SIGSEGV
<1>2. CASE t.stashed # <<>>
  <2> DEFINE v == [t EXCEPT !.dirty = TRUE]
  <2>1. t.pc \notin Safe
    BY <1>2 DEF task_continue, has_stashed_sig, is_safe_to_deliver_signal, Safe
  <2>2. v \in Task /\ v.dirty /\ v.kmask = v.umask /\ v.umask = t.umask
    BY Zenon, <1>1 DEF Task
  <2>3. get_sigmask(v) = [v EXCEPT !.blocked_sigs = t.umask, !.dirty = FALSE]
    <3> HIDE DEF v
    <3> QED
      BY Zenon, <2>2, GetSigmask
  <2>4. t' = [t EXCEPT !.dirty = FALSE, !.blocked_sigs = t.umask, !.kmask = AllSignals,
                       !.stop = "none"]
    <3>1. [v EXCEPT !.blocked_sigs = t.umask, !.dirty = FALSE].blocking
      BY <1>1, <1>2 DEF Task
    <3>2. AllSignals \ {} = AllSignals
      OBVIOUS
    <3>3. will_resume_execution(v, {}) =
            [v EXCEPT !.blocked_sigs = t.umask, !.dirty = FALSE, !.kmask = AllSignals]
      <4> HIDE DEF v
      <4> QED
        BY <2>3, <3>1, <3>2 DEF will_resume_execution
    <3>4. t' = [will_resume_execution(v, {}) EXCEPT !.stop = "none"]
      BY <1>2 DEF task_continue, has_stashed_sig, invalidate_sigmask
    <3> QED
      BY Zenon, <1>1, <3>3, <3>4 DEF Task
  <2>5. t' \in Task /\ t'.ok /\ t'.stop = "none"
    <3>1. AllSignals \in SUBSET AllSignals
      OBVIOUS
    <3> QED
      BY ZenonT(30), <1>1, <2>4, <3>1 DEF Task, Stops
  <2>6. Published(t') /\ Stashing(t')
    BY <1>1, <2>4 DEF Inv, Published, Stashing, Task
  <2>7. Free(t') /\ Held(t')
    BY <1>1, <1>2, <2>1, <2>4 DEF Free, Held, Task, Safe
  <2> QED
    BY <2>5, <2>6, <2>7, StillRunning DEF Inv
<1>3. CASE t.stashed = <<>>
  <2>1. get_sigmask(t) = [t EXCEPT !.blocked_sigs = t.umask, !.dirty = FALSE]
    BY Zenon, <1>1, GetSigmask
  <2>2. t' = [t EXCEPT !.blocked_sigs = t.umask, !.dirty = FALSE, !.stop = "none"]
    <3>1. ~[t EXCEPT !.blocked_sigs = t.umask, !.dirty = FALSE].blocking
      BY <1>1, <1>3 DEF Task
    <3>2. will_resume_execution(t, {}) = [t EXCEPT !.blocked_sigs = t.umask, !.dirty = FALSE]
      BY <2>1, <3>1 DEF will_resume_execution
    <3> QED
      BY Zenon, <1>3, <3>2 DEF task_continue, has_stashed_sig
  <2>3. t' \in Task /\ t'.ok /\ t'.stop = "none"
    BY Zenon, <1>1, <2>2 DEF Task, Stops
  <2>4. Published(t') /\ Stashing(t')
    BY <1>1, <2>2 DEF Inv, Published, Stashing, Task
  <2>5. Free(t') /\ Held(t')
    BY <1>1, <1>3, <2>2 DEF Free, Held, Task
  <2> QED
    BY <2>3, <2>4, <2>5, StillRunning DEF Inv
<1> QED
  BY <1>2, <1>3

(* The frame of an injected signal gets the program's mask, because rr     *)
(* stops blocking before it injects.                                       *)
LEMMA inject_handled_signalInv == IInv /\ inject_handled_signal => IInv'
<1> SUFFICES ASSUME Inv(t), inject_handled_signal PROVE Inv(t')
  BY DEF IInv
<1> DEFINE s == t.injected
<1>1. /\ t \in Task /\ t.ok /\ t.stop = "inject" /\ t.pc \in Safe /\ s \in Signals
      /\ t.blocking /\ t.stashed = <<>> /\ t.kmask = t.umask /\ ~t.hdr.critical
      /\ ~t.dirty => t.blocked_sigs = t.umask
  BY DEF inject_handled_signal, Inv, Stopped, Stashing, AtStop, Published, Safe, Critical, SIGSEGV
<1>2. t.hdr.num = 0 => t.hdr.generation = t.generation
  BY <1>1 DEF Inv, Published, Safe
<1>3. PICK h \in Hdr, g \in Nat :
        /\ record_event(t) = [t EXCEPT !.hdr = h, !.generation = g]
        /\ h.num = 0 /\ h.generation = g /\ ~h.critical
  <2>1. t \in Task /\ ~t.hdr.critical
    BY Zenon, <1>1
  <2>2. \E h \in Hdr, g \in Nat :
          /\ record_event(t) = [t EXCEPT !.hdr = h, !.generation = g]
          /\ h.num = 0 /\ h.generation = g /\ h.critical = t.hdr.critical
    BY Zenon, <1>2, <2>1, RecordEvent
  <2> QED
    BY Zenon, <2>1, <2>2
<1> DEFINE a == [t EXCEPT !.hdr = h, !.generation = g]
<1>4. /\ a \in Task /\ a.ok /\ a.blocking /\ a.stashed = <<>>
      /\ a.kmask = t.umask /\ a.umask = t.umask
      /\ a.at_trap = t.at_trap /\ a.hdr = h /\ a.generation = g /\ a.pc = t.pc /\ a.op = t.op
      /\ a.frames = t.frames
      /\ ~a.dirty => a.blocked_sigs = t.umask
  BY Zenon, <1>1 DEF Task
<1> HIDE DEF a
<1>5. PICK bs \in SUBSET AllSignals, dirty \in BOOLEAN :
        /\ preinject_signal(a) = [a EXCEPT !.blocked_sigs = bs, !.dirty = dirty]
        /\ ~dirty => bs = t.umask
  <2>1. CASE a.at_trap
    <3> DEFINE c == [a EXCEPT !.blocked_sigs = t.umask, !.dirty = FALSE]
               r == [a EXCEPT !.blocked_sigs = t.umask, !.dirty = FALSE, !.kmask = AllSignals]
    <3>1. get_sigmask(a) = c
      BY Zenon, <1>4, GetSigmask
    <3>2. c.blocking /\ AllSignals \ {} = AllSignals
      BY <1>4 DEF Task
    <3>3. will_resume_execution(a, {}) = r
      BY <3>1, <3>2 DEF will_resume_execution
    <3>4. r.blocking /\ r.ok = TRUE /\ r.dirty = FALSE /\ r.blocked_sigs = t.umask
      BY <1>4 DEF Task
    <3>5. (r.ok /\ ~r.dirty) = TRUE
      BY <3>4
    <3>6. did_wait(r) = [r EXCEPT !.ok = TRUE, !.kmask = t.umask]
      <4> HIDE DEF r
      <4> QED
        BY Zenon, <3>4, <3>5 DEF did_wait
    <3>7. did_wait(r) = c
      BY ZenonT(30), <1>4, <3>6 DEF Task
    <3>8. preinject_signal(a) = c
      BY <2>1, <3>3, <3>7 DEF preinject_signal
    <3>9. t.umask \in SUBSET AllSignals
      BY <1>1 DEF Task
    <3> QED
      BY ZenonT(30), <3>8, <3>9
  <2>2. CASE ~a.at_trap
    <3>1. preinject_signal(a) = [a EXCEPT !.blocked_sigs = a.blocked_sigs, !.dirty = a.dirty]
      BY Zenon, <1>4, <2>2 DEF preinject_signal, Task
    <3>2. a.blocked_sigs \in SUBSET AllSignals /\ a.dirty \in BOOLEAN
      BY <1>4 DEF Task
    <3> QED
      BY Zenon, <1>4, <3>1, <3>2
  <2> QED
    BY ZenonT(30), <2>1, <2>2
<1> DEFINE b == [a EXCEPT !.blocked_sigs = bs, !.dirty = dirty]
           c == [a EXCEPT !.blocked_sigs = bs, !.dirty = dirty, !.blocking = FALSE, !.break_at = {}]
           d == [a EXCEPT !.blocked_sigs = t.umask, !.dirty = FALSE, !.blocking = FALSE,
                          !.break_at = {}]
<1>6. stashed_signal_processed(b) = c
  <2>1. b.stashed = <<>> /\ has_stashed_sig(b) = FALSE
    BY <1>4 DEF has_stashed_sig, Task
  <2> QED
    BY Zenon, <2>1 DEF stashed_signal_processed
<1>7. will_resume_execution(c, {s}) = d
  <2>1. /\ c \in Task /\ c.umask = t.umask /\ c.kmask = t.umask /\ c.dirty = dirty
        /\ c.blocked_sigs = bs
    BY Zenon, <1>4 DEF Task
  <2>2. get_sigmask(c) = [c EXCEPT !.blocked_sigs = t.umask, !.dirty = FALSE]
    <3> HIDE DEF c
    <3> QED
      BY Zenon, <1>5, <2>1, GetSigmask
  <2>3. get_sigmask(c) = d /\ ~d.blocking
    BY Zenon, <1>4, <2>2 DEF Task
  <2> HIDE DEF c, d
  <2> QED
    BY <2>3 DEF will_resume_execution
<1> DEFINE m  == t.umask \cup SaMask[s] \cup {s}
           fr == [mask |-> t.umask, umask |-> t.umask, pc |-> t.pc, op |-> t.op]
           e  == [d EXCEPT !.frames = <<fr>> \o t.frames, !.kmask = m, !.umask = m, !.pc = "app"]
<1>8. /\ d \in Task /\ d.ok /\ d.kmask = t.umask /\ d.umask = t.umask /\ d.pc = t.pc /\ d.op = t.op
      /\ d.frames = t.frames /\ d.hdr = h /\ d.generation = g /\ ~d.blocking /\ d.stashed = <<>>
  BY Zenon, <1>4 DEF Task
<1> HIDE DEF d
<1>9. PushFrame(d, s) = e
  BY <1>8 DEF PushFrame
<1>10. m \in SUBSET AllSignals
  BY <1>1, ConstantsAssumption DEF Task, AllSignals
<1>11. <<fr>> \o t.frames \in Seq(Frame)
  <2>1. fr \in Frame
    BY <1>1 DEF Task, Frame
  <2>2. t.frames \in Seq(Frame)
    BY <1>1 DEF Task
  <2> HIDE DEF fr
  <2>3. <<fr>> \in Seq(Frame)
    BY <2>1
  <2> QED
    BY <2>2, <2>3, ConcatProperties
<1>12. /\ e \in Task /\ e.ok /\ e.kmask = m /\ e.umask = m /\ e.pc = "app" /\ e.hdr = h
       /\ e.generation = g /\ ~e.blocking /\ e.stashed = <<>>
  <2> DEFINE frames == <<fr>> \o t.frames
  <2> HIDE DEF m, frames
  <2>1. frames \in Seq(Frame)
    BY <1>11 DEF frames
  <2>2. e = [d EXCEPT !.frames = frames, !.kmask = m, !.umask = m, !.pc = "app"]
    BY DEF frames
  <2> HIDE DEF e
  <2> QED
    BY Zenon, <1>8, <1>10, <2>1, <2>2 DEF Task, Pcs
<1> HIDE DEF e, m
<1>13. did_wait(e) = e
  <2>1. ~(h.generation > g)
    BY <1>3 DEF Hdr
  <2> QED
    BY <1>3, <1>12, <2>1 DEF did_wait
<1>14. record_event(invalidate_sigmask(did_wait(e))) = [e EXCEPT !.dirty = TRUE]
  <2>1. [e EXCEPT !.dirty = TRUE].hdr.num = 0
    BY <1>3, <1>12 DEF Task
  <2> QED
    BY <1>13, <2>1 DEF invalidate_sigmask, record_event
<1>15. t' = [e EXCEPT !.dirty = TRUE, !.stop = "dispatch"]
  <2>1. t' = Dispatch(record_event(invalidate_sigmask(did_wait(e))))
    BY <1>3, <1>5, <1>6, <1>7, <1>9 DEF inject_handled_signal, a
  <2> QED
    BY <1>14, <2>1 DEF Dispatch
<1>16. t' \in Task /\ t'.ok /\ t'.stop = "dispatch"
  BY Zenon, <1>12, <1>15 DEF Task, Stops
<1>17. /\ t'.pc \in Safe /\ ~t'.hdr.critical /\ t'.hdr.generation = t'.generation /\ ~t'.blocking
       /\ t'.stashed = <<>> /\ t'.kmask = t'.umask /\ t'.dirty
  BY <1>3, <1>12, <1>15 DEF Task, Safe
<1> QED
  BY <1>16, <1>17, Settled

-----------------------------------------------------------------------------
(* Every step keeps the invariant. *)
LEMMA NextInv == ASSUME ~SliceWhileStashed PROVE IInv /\ [Next]_t => IInv'
<1> SUFFICES ASSUME IInv, [Next]_t PROVE IInv'
  OBVIOUS
<1>1. CASE Post \/ Deliver \/ TimeSlice
  BY <1>1, PostInv, DeliverInv, TimeSliceInv
<1>2. CASE CallSigprocmask \/ CallOther \/ TrappedInstruction
  BY <1>2, CallsInv, TrappedInstructionInv
<1>3. CASE Compute \/ UNCHANGED t
  BY <1>3 DEF Compute, IInv
<1>4. CASE Tracee
  BY <1>4, EnterCriticalInv, UntracedSigprocmaskInv, StoreMaskInv, BumpGenerationInv,
     LeaveCriticalInv, CommitInv, OtherUntracedInv, FinalInstructionInv, TracedSigprocmaskInv,
     SigreturnInv DEF Tracee
<1>5. CASE Tracer
  BY <1>5, SignalStopInv, SyscallStopInv, prepare_to_inject_signalInv, task_continueInv,
     inject_handled_signalInv DEF Tracer
<1> QED
  BY <1>1, <1>2, <1>3, <1>4, <1>5 DEF Next

(* Without a time slice that ends while a signal is stashed, the inductive *)
(* invariant holds in every state of the recording.                        *)
THEOREM Invariant == ASSUME ~SliceWhileStashed PROVE Spec => []IInv
BY InitInv, NextInv, PTL DEF Spec

(* rr's blocking is invisible to the program: while the task runs with no  *)
(* signal stashed the kernel has the program's mask, and so does every     *)
(* signal frame, for any signals, handlers, calls and depth of nesting.    *)
THEOREM BlockingInvisible == ASSUME ~SliceWhileStashed PROVE Spec => []MaskTransparent
<1>1. IInv => MaskTransparent
  <2> SUFFICES ASSUME Inv(t) PROVE MaskTransparent
    BY DEF IInv
  <2>1. Running /\ ~t.blocking => t.kmask = t.umask
    BY DEF Inv, Free, Running
  <2>2. t.frames \in Seq(Frame)
    BY DEF Inv, Task
  <2>3. \A i \in DOMAIN t.frames : t.frames[i] \in Frame
    BY <2>2
  <2> QED
    BY <2>1, <2>3 DEF MaskTransparent, Frame
<1> QED
  BY <1>1, Invariant, PTL

(* The mask rr remembers is the kernel's at every stop, unless it is       *)
(* marked dirty, and the assertions of did_wait and process_syscall_entry  *)
(* hold.                                                                   *)
THEOREM RememberedExact == ASSUME ~SliceWhileStashed PROVE Spec => []CachedMaskExact
<1>1. IInv => CachedMaskExact
  <2> SUFFICES ASSUME Inv(t) PROVE CachedMaskExact
    BY DEF IInv
  <2>1. t.ok
    BY DEF Inv
  <2>2. ASSUME ~Running, ~t.dirty
        PROVE  t.blocked_sigs \ (IF t.stop = SIGSEGV THEN {SIGSEGV} ELSE {}) = t.kmask
    BY <2>2 DEF Inv, AtStop, Running
  <2> QED
    BY <2>1, <2>2 DEF CachedMaskExact
<1> QED
  BY <1>1, Invariant, PTL

(* A signal that rr holds back is never one that the program has blocked   *)
(* since: the mask does not change before the signal is delivered.         *)
THEOREM HeldStaysOpen == ASSUME ~SliceWhileStashed PROVE Spec => []StashedNotBlocked
<1>1. IInv => StashedNotBlocked
  <2> SUFFICES ASSUME Inv(t), NEW i \in DOMAIN t.stashed PROVE t.stashed[i] \notin t.umask
    BY DEF IInv, StashedNotBlocked
  <2>1. t.stashed \in Seq(Stashable)
    BY DEF Inv, Task
  <2>2. DOMAIN t.stashed = 1 .. Len(t.stashed)
    BY <2>1
  <2>3. t.stashed # <<>>
    BY <2>2
  <2>4. Len(t.stashed) = 1 /\ t.stashed[1] \notin t.umask
    BY <2>3 DEF Inv, Stashing
  <2> QED
    BY <2>2, <2>4
<1> QED
  BY <1>1, Invariant, PTL
=============================================================================

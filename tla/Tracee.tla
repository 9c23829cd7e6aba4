------------------------------- MODULE Tracee -------------------------------
(***************************************************************************)
(* A replayed thread as its supervisor sees it.  What the thread executes  *)
(* is fixed by the recording: its path, one entry per instruction.  The    *)
(* supervisor resumes it (Task::resume_execution) and learns why and where *)
(* it stopped: a trap instruction, a system call, a fault, a watched       *)
(* store, a single step, or the interrupt of the tick counter, which comes *)
(* up to MaxSkid ticks late and may still be queued at the next resume.   *)
(*                                                                         *)
(* An entry of a path: ip, op, cx (a register that tells loop iterations   *)
(* apart), mem (the address it stores to, 0 for none), src (the address a  *)
(* string instruction reads, 0 for none), chg (whether the store changes   *)
(* the value), cut (a signal arrived here: the instruction is not          *)
(* executed, the next entry is what the kernel continued with).            *)
(***************************************************************************)
EXTENDS Integers, Sequences, FiniteSets, FiniteSetsExt

CONSTANTS SkidSize,         \* PerfCounters::skid_size()
          MaxSkid,          \* the ticks an interrupt can really be late
          MaxTicksRequest,  \* MAX_TICKS_REQUEST
          BytesCoalesced    \* fast_forward: BYTES_COALESCED

Unlimited == 0   \* RESUME_UNLIMITED_TICKS
None      == 0   \* no address
NoSig     == "0" \* no stop signal
TIME_SLICE_SIGNAL == "TIME_SLICE"

Faults == {"segv", "rdtsc"}   \* instructions that raise SIGSEGV when executed

\* Ticks retired before entry p is executed: conditional branches.
tick_count(P, p) == Cardinality({q \in 1..(p - 1) : P[q].op = "br" /\ ~P[q].cut})

\* Where a thread is stopped and what the kernel says about it; life names its
\* path (an exec gives a thread another tid).  ran: the entries a fast-forward
\* went to, told to avoid some states.
NewTask(life) ==
           [life |-> life, pos |-> 1, past |-> FALSE, sig |-> NoSig, ss |-> FALSE, wp |-> FALSE,
            kern |-> FALSE, chg |-> FALSE, queued |-> FALSE, at |-> 1,
            stepped |-> FALSE, lost |-> FALSE, ran |-> {}, avoid |-> {}, base |-> 1]

ip(P, t)   == P[t.pos].ip
regs(P, t) == [ip |-> P[t.pos].ip, past |-> t.past, cx |-> P[t.pos].cx]

\* The thread at entry r, having executed every entry from its own up to there.
AtEntry(P, t, r) ==
  [t EXCEPT !.pos = r, !.past = FALSE,
            !.lost = @ \/ \E q \in t.pos..(r - 1) : P[q].cut]

\* Task::resume_execution up to the ptrace call: the debug status is cleared and
\* the place remembered.
will_resume(t, stepping) ==
  [t EXCEPT !.sig = NoSig, !.ss = FALSE, !.wp = FALSE, !.kern = FALSE,
            !.at = t.pos, !.stepped = stepping, !.ran = {}, !.avoid = {}]

\* The ticks after which PerfCounters::reset has the counter interrupt; tick
\* requests below 1 are raised to 1.
counting_period(request) == IF request = Unlimited THEN Unlimited ELSE Max({1, request})

\* What stops a thread before it executes entry q.  cpu: trap instructions in
\* memory (ips), watched addresses (watch), whether CPUID faults (faulting).
StopsAt(P, cpu, q, emulate) ==
  \/ P[q].ip \in cpu.ips
  \/ P[q].op \in Faults \cup {"int3", "sys", "end"}
  \/ P[q].op = "cpuid" /\ cpu.faulting
  \/ P[q].op = "usys" /\ emulate

\* The stop itself, for a thread at such an entry.
StopHere(P, cpu, t) ==
  LET op == P[t.pos].op
  IN IF ip(P, t) \in cpu.ips \/ op = "int3"
     THEN [t EXCEPT !.past = TRUE, !.sig = "SIGTRAP", !.kern = TRUE]
     ELSE IF op \in Faults \cup {"cpuid"} THEN [t EXCEPT !.sig = "SIGSEGV"]
     ELSE [t EXCEPT !.past = TRUE]            \* a system call, not executed

\* The stop after the store of the entry just executed.
Watched(P, cpu, q) == ({P[q].mem, P[q].src} \ {None}) \cap cpu.watch # {}
WatchStop(P, t, q) ==
  [t EXCEPT !.sig = "SIGTRAP", !.wp = TRUE, !.chg = @ \/ P[q].chg]

\* PTRACE_CONT and PTRACE_SYSEMU: every way the thread can stop.  The interrupt
\* is taken at most MaxSkid ticks after the period; if something else stops
\* the thread first, its signal may be queued.
RunOn(P, cpu, t, emulate, request) ==
  LET period  == counting_period(request)
      t0      == will_resume(t, FALSE)
      Gone(r) == tick_count(P, r) - tick_count(P, t.pos)
      WatchAt(r) == r > t.pos /\ Watched(P, cpu, r - 1)
      end     == CHOOSE r \in t.pos..Len(P) :
                   /\ StopsAt(P, cpu, r, emulate) \/ WatchAt(r)
                   /\ \A q \in t.pos..(r - 1) : ~StopsAt(P, cpu, q, emulate) /\ ~WatchAt(q)
      InWindow(r) == Gone(r) \in period..(period + MaxSkid)
      late    == {r \in t.pos..end : InWindow(r) /\ ~WatchAt(r)}
      stop    == IF WatchAt(end) THEN WatchStop(P, AtEntry(P, t0, end), end - 1)
                 ELSE StopHere(P, cpu, AtEntry(P, t0, end))
  IN IF t.queued
     THEN {[t0 EXCEPT !.sig = TIME_SLICE_SIGNAL, !.queued = FALSE]}
     ELSE IF period = Unlimited THEN {stop}
     ELSE {[AtEntry(P, t0, r) EXCEPT !.sig = TIME_SLICE_SIGNAL] : r \in late}
          \cup {[stop EXCEPT !.queued = q] :
                  q \in {q \in BOOLEAN : /\ Gone(end) <= period + MaxSkid
                                         /\ q => Gone(end) >= period}}

\* PTRACE_SINGLESTEP and PTRACE_SYSEMU_SINGLESTEP.
StepOne(P, cpu, t, emulate) ==
  LET t0 == will_resume(t, TRUE)
      n  == [AtEntry(P, t0, t.pos + 1) EXCEPT !.sig = "SIGTRAP", !.ss = TRUE]
  IN IF t.queued THEN [t0 EXCEPT !.sig = TIME_SLICE_SIGNAL, !.queued = FALSE]
     ELSE IF StopsAt(P, cpu, t.pos, emulate)
     THEN LET s == StopHere(P, cpu, t0) IN [s EXCEPT !.ss = (s.sig = "SIGTRAP")]
     ELSE IF Watched(P, cpu, t.pos) THEN WatchStop(P, n, t.pos) ELSE n

-----------------------------------------------------------------------------
\* The buffered mprotect calls of a thread: each adds a record (an "mrec"
\* entry), changes the protection ("usys") and is marked completed ("mdone").
\* base is where the buffer was last reset.
mprotect_records(P, t) ==
  LET Rec(q) == P[q].op = "mrec" /\ q >= t.base /\ q < t.pos
  IN [n \in 1..Cardinality({q \in 1..Len(P) : Rec(q)}) |->
        P[CHOOSE q \in 1..Len(P) : Rec(q) /\ Cardinality({r \in 1..q : Rec(r)}) = n].prot]
mprotect_record_count_completed(P, t) ==
  Cardinality({q \in t.base..(t.pos - 1) : P[q].op = "mdone"})
KernelProt(P, t) ==
  LET done == {q \in 1..(t.pos - 1) : P[q].op = "usys"}
  IN IF done = {} THEN "rw" ELSE P[Max(done)].prot

-----------------------------------------------------------------------------
\* Task::compute_trap_reasons, for a thread stopped by a SIGTRAP; changed says
\* that the address space has watchpoint changes not yet consumed.
compute_trap_reasons(P, cpu, t, changed) ==
  LET watchpoint == changed \/ t.chg \/ t.wp
      IsTrap(q)  == P[q].ip \in cpu.ips \/ P[q].op = "int3"
  IN [singlestep |-> t.ss,
      watchpoint |-> watchpoint,
      breakpoint |-> IF t.ss THEN IsTrap(t.at) ELSE ~watchpoint /\ t.kern]

-----------------------------------------------------------------------------
\* fast_forward.cc.  The iterations of a string instruction are the entries of
\* one ip in a row, with cx counting down; it may end early when flags change.

\* How many iterations can be executed from entry p before the one that
\* accesses the watched address a through a register that is now at reg.
\* Operands are one byte and move forward.
bound_iterations_for_watchpoint(reg, a, iterations) ==
  IF reg = None \/ a < reg THEN iterations ELSE Min({iterations, a - reg})

\* ... and before one would enter one of the register states.
BoundByState(P, p, state, iterations) ==
  LET cur_cx == P[p].cx
      here   == state.ip = P[p].ip
  IN IF \/ ~here /\ state.ip # P[p].ip + 1
        \/ here /\ state.cx = 0
        \/ state.cx >= cur_cx
     THEN iterations
     ELSE Min({iterations, cur_cx - state.cx - 1})

Bound(P, cpu, p, states) ==
  Min({P[p].cx - 1}
      \cup {BoundByState(P, p, s, P[p].cx - 1) : s \in states}
      \cup {bound_iterations_for_watchpoint(r, a, P[p].cx - 1) :
              r \in {P[p].mem, P[p].src}, a \in cpu.watch})

\* Where the loop leaves the string instruction.
LoopExit(P, p) ==
  CHOOSE e \in p..Len(P) : P[e].ip # P[p].ip /\ \A q \in p..(e - 1) : P[q].ip = P[p].ip

\* The entries at which running n iterations from p can stop: a hardware
\* watchpoint BytesCoalesced bytes before the end, which fires up to
\* BytesCoalesced - 1 iterations late, or early if src passes over it; then
\* single steps, unless the watchpoint came too early.  The loop may end first.
RunIterations(P, p, n) ==
  LET far    == n - 1 > BytesCoalesced
      target == P[p].mem + n - 1 - BytesCoalesced
      hit    == CHOOSE q \in p..Len(P) :
                  /\ target \in {P[q].mem, P[q].src}
                  /\ \A r \in p..(q - 1) : target \notin {P[r].mem, P[r].src}
      exit   == LoopExit(P, p)
      fired  == {q \in (hit + 1)..(hit + Max({1, BytesCoalesced})) : q <= exit}
      left(q) == n - (q - p)
  IN IF exit <= p + n THEN {exit}
     ELSE IF ~far THEN {p + n}
     ELSE {IF left(q) - 1 > BytesCoalesced THEN q ELSE p + n : q \in fired}

\* The entries a run to q = p + n, or to the exit, leaves the thread at: a loop
\* that ended early is undone and run again up to just before its end.
AfterLoop(P, cpu, p, q, states) ==
  LET exit  == LoopExit(P, p)
      again == Bound(P, cpu, p, states \cup {[ip |-> P[exit].ip, past |-> FALSE, cx |-> P[exit].cx]})
  IN IF q # exit THEN {q} ELSE IF again = 0 THEN {p} ELSE RunIterations(P, p, again)

\* fast_forward_through_instruction: one single step, then as many iterations of
\* the string instruction as reach none of the states and no watched address.
fast_forward_through_instruction(P, cpu, t, emulate, states) ==
  LET s == StepOne(P, cpu, t, emulate)
      p == s.pos
      n == Bound(P, cpu, p, states)
      At(q) == [AtEntry(P, s, q) EXCEPT !.ss = TRUE, !.wp = FALSE, !.ran = (p + 1)..q,
                                         !.avoid = states]
  IN IF \/ s.sig # "SIGTRAP" \/ ip(P, s) # ip(P, t) \/ ip(P, s) \in cpu.ips \/ s.wp
        \/ regs(P, s) \in states \/ P[p].op # "rep" \/ P[p].cx = 0
     THEN {s}
     ELSE IF n = 0 THEN {At(p)}
     ELSE {At(r) : r \in UNION {AfterLoop(P, cpu, p, q, states) : q \in RunIterations(P, p, n)}}
=============================================================================

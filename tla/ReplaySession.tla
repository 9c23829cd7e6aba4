---------------------------- MODULE ReplaySession ----------------------------
(***************************************************************************)
(* ReplaySession::replay_step: bringing the replayed threads to the events *)
(* of the trace, frame by frame, while a debugger has breakpoints, a       *)
(* watchpoint and single steps of its own in the same threads.  A call     *)
(* sets up the frame's step or advances it; the loops inside resume the    *)
(* thread again and again (module Tracee), one action for one resume.      *)
(* MuplaySession drives the same calls on a modified program.              *)
(* The replay is past its initial exec.                                    *)
(***************************************************************************)
EXTENDS Tracee

CONSTANT Scenarios   \* what was recorded, and what the debugger may ask for

VARIABLES scen,         \* the member of Scenarios, never changed
          task,         \* the live threads, by recorded tid
          frame,        \* trace_frame: index into the frames of the trace
          step,         \* current_step.action
          pc,           \* the loop replay_step is in, "idle" between calls
          c,            \* its StepConstraints
          user_bps,     \* breakpoints of the debugger (BKPT_USER)
          internal_bp,  \* breakpoint of the running loop (BKPT_INTERNAL), or None
          syscall_bp,   \* syscall_bp_addr, or None
          changed,      \* watchpoint changes of the address space, not consumed
          loc,          \* locals of emulate_async_signal
          prot,         \* the protection the AddressSpace has for the page
          result,       \* the ReplayResult of the latest call
          seen,         \* what the thread did for the debugger to see in this call
          LIVE, failed  \* MuplaySession::LIVE; an assertion of the code failed

session == <<frame, step, syscall_bp, LIVE>>
vars == <<scen, task, user_bps, pc, c, internal_bp, changed, loc, prot, result, seen, failed, session>>

NoBreak == [status |-> "REPLAY_CONTINUE", breakpoint_hit |-> FALSE, watchpoints_hit |-> FALSE,
            signal |-> FALSE, singlestep_complete |-> FALSE, task_exit |-> FALSE,
            approaching |-> FALSE]
NoCommand == [command |-> "RUN_CONTINUE", ticks_target |-> 0, states |-> {}]
NotSeen   == [bp |-> FALSE, watch |-> FALSE]
NoLocals  == [pending_SIGTRAP |-> FALSE, run_command |-> "RUN_CONTINUE"]

AtEnd == frame > Len(scen.frames)          \* EV_TRACE_TERMINATION
F     == scen.frames[frame]                \* trace_frame
tid   == F.tid
T     == task[tid]                         \* current_task()
P     == scen.path[T.life]

is_singlestep == c.command \in {"RUN_SINGLESTEP", "RUN_SINGLESTEP_FAST_FORWARD"}
has_ticks_slop(f) == f.ev \in {"SYSCALLBUF_FLUSH", "SYSCALLBUF_RESET", "SYSCALLBUF_ABORT_COMMIT",
                               "GROW_MAP"}

\* What the processor sees, with internal breakpoints at the addresses of bps.
Cpu(bps) == [ips |-> user_bps \cup (bps \ {None}), watch |-> scen.watch, faulting |-> scen.faulting]

\* t->regs().matches(trace_frame.regs()), validate_regs
TargetRegs  == [ip |-> P[F.pos].ip, past |-> F.past, cx |-> P[F.pos].cx]
SameRegs(t) == regs(P, t) = TargetRegs
AtFrame_ticks(t) == tick_count(P, t.pos) = F.ticks   \* mutant: the registers are not compared
AtFrame(t)  == SameRegs(t) /\ tick_count(P, t.pos) = F.ticks

Init ==
  /\ scen \in Scenarios
  /\ task = [i \in scen.tids |-> NewTask(i)]
  /\ user_bps \in scen.breaks
  /\ frame = 1 /\ step = "TSTEP_NONE" /\ pc = "idle" /\ c = NoCommand
  /\ internal_bp = None /\ syscall_bp = None
  /\ changed = FALSE /\ loc = NoLocals /\ prot = "rw"
  /\ result = NoBreak /\ seen = NotSeen /\ LIVE = FALSE /\ failed = "no"

-----------------------------------------------------------------------------
\* Leaving replay_step with thread nt.

\* Mutant: a trap instruction that is stepped counts as a step only.
diagnose_debugger_trap_step(nt, cpu) ==
  LET reasons == compute_trap_reasons(P, cpu, nt, changed)
      hit     == IF nt.sig = "SIGTRAP"
                 THEN reasons.breakpoint /\ ~reasons.singlestep /\ ip(P, nt) \in user_bps
                 ELSE nt.sig # NoSig /\ ip(P, nt) \in user_bps
      trap    == nt.sig = "SIGTRAP"
  IN [NoBreak EXCEPT
        !.breakpoint_hit = hit,
        !.signal = ~hit /\ nt.sig \notin {NoSig, "SIGTRAP", TIME_SLICE_SIGNAL},
        !.singlestep_complete = trap /\ reasons.singlestep /\ is_singlestep,
        !.watchpoints_hit = trap /\ reasons.watchpoint /\ (changed \/ nt.chg)]

\* Session::diagnose_debugger_trap; changed' is what compute_trap_reasons left.
diagnose_debugger_trap(nt, cpu) ==
  LET reasons == compute_trap_reasons(P, cpu, nt, changed)
      hit     == IF nt.sig = "SIGTRAP"
                 THEN reasons.breakpoint /\ ip(P, nt) \in user_bps
                 ELSE nt.sig # NoSig /\ ip(P, nt) \in user_bps
      trap    == nt.sig = "SIGTRAP"
  IN [NoBreak EXCEPT
        !.breakpoint_hit = hit,
        !.signal = ~hit /\ nt.sig \notin {NoSig, "SIGTRAP", TIME_SLICE_SIGNAL},
        !.singlestep_complete = trap /\ reasons.singlestep /\ is_singlestep,
        !.watchpoints_hit = trap /\ reasons.watchpoint /\ (changed \/ nt.chg)]

check_approaching_ticks_target(nt) ==
  c.ticks_target > 0 /\ c.ticks_target - tick_count(P, nt.pos) <= SkidSize

\* Unfinished: a debugger trap, or close to the ticks target.
Incomplete(nt, cpu) ==
  LET d == diagnose_debugger_trap(nt, cpu)
      back == [nt EXCEPT !.past = IF d.breakpoint_hit THEN FALSE ELSE @,
                         !.chg = IF d.watchpoints_hit THEN FALSE ELSE @]
  IN /\ task' = [task EXCEPT ![tid] = back]
     /\ result' = [d EXCEPT !.approaching = check_approaching_ticks_target(nt)]
     /\ changed' = (changed /\ ~d.watchpoints_hit)
     /\ failed' = IF d.signal \/ (d.singlestep_complete /\ ~is_singlestep)
                  THEN "unexpected break" ELSE failed
     /\ pc' = "idle" /\ UNCHANGED <<frame, step>>

\* Ticks are compared with the recorded ones, except where replay may not have
\* the same (has_deterministic_ticks, check_ticks_consistency).
TicksConsistent(nt) ==
  \/ has_ticks_slop(F) \/ step = "TSTEP_PROGRAM_ASYNC_SIGNAL_INTERRUPT"
  \/ tick_count(P, nt.pos) = F.ticks

\* Done: the frame is retired and the next one read.
Complete(nt) ==
  LET signalled == step \in {"TSTEP_DETERMINISTIC_SIGNAL", "TSTEP_PROGRAM_ASYNC_SIGNAL_INTERRUPT"}
                   /\ F.sig # NoSig
  IN /\ task' = [task EXCEPT ![tid] = nt]
     /\ result' = [NoBreak EXCEPT
          !.signal = signalled /\ F.ev # "INSTRUCTION_TRAP",
          !.singlestep_complete =
             /\ is_singlestep
             /\ \/ signalled \/ step = "TSTEP_EXIT_SYSCALL"
                \/ step = "TSTEP_DELIVER_SIGNAL" /\ ~F.fatal,
          !.watchpoints_hit = changed,
          !.approaching = check_approaching_ticks_target(nt)]
     /\ changed' = FALSE
     /\ failed' = IF TicksConsistent(nt) THEN failed ELSE "ticks mismatch"
     /\ frame' = frame + 1 /\ step' = "TSTEP_NONE" /\ pc' = "idle"

\* The modified program raised a signal the recording does not have.
GoLive(nt) ==
  /\ task' = [task EXCEPT ![tid] = nt]
  /\ result' = [NoBreak EXCEPT !.status = "GOING_LIVE"]
  /\ pc' = "idle" /\ UNCHANGED <<frame, step, changed, failed>>

Fail(why, nt) ==
  /\ failed' = why /\ task' = [task EXCEPT ![tid] = nt]
  /\ pc' = "idle" /\ UNCHANGED <<frame, step, changed, result>>

Return(completion, nt, cpu) ==
  CASE completion = "INCOMPLETE" -> Incomplete(nt, cpu)
    [] completion = "COMPLETE"   -> Complete(nt)
    [] completion = "GO_LIVE"    -> GoLive(nt)
    [] OTHER                     -> Fail(completion, nt)

\* What the debugger should learn of: its trap instruction was executed, its
\* watched value changed.
Note(nt) ==
  seen' = [bp    |-> seen.bp \/ (nt.past /\ nt.kern /\ ip(P, nt) \in user_bps),
           watch |-> seen.watch \/ nt.chg]

-----------------------------------------------------------------------------
\* Pieces the loops share.

\* compute_ticks_request: the request, or "none" when the target is too close.
compute_ticks_request(t) ==
  LET period == c.ticks_target - SkidSize - tick_count(P, t.pos)
  IN IF c.ticks_target = 0 THEN [go |-> TRUE, request |-> Unlimited]
     ELSE [go |-> period > 0, request |-> Min({period, MaxTicksRequest})]

clear_wait_status(t) == [t EXCEPT !.sig = NoSig]

\* handle_unrecorded_cpuid_fault: CPUID faults now and did not when recording.
is_unrecorded_cpuid_fault(t) ==
  t.sig = "SIGSEGV" /\ scen.faulting /\ P[t.pos].op = "cpuid"
AfterCpuid(t) ==
  LET n == [AtEntry(P, t, t.pos + 1) EXCEPT !.sig = IF is_singlestep THEN "SIGTRAP" ELSE NoSig]
  IN [n EXCEPT !.ss = n.stepped]

\* perform_interrupted_syscall: a buffered system call met outside of a flush.
perform_interrupted_syscall(t) == AtEntry(P, t, t.pos + 1)

\* The ways a resume for the constraints can stop.
Resumed(t, cpu, emulate, request) ==
  CASE c.command = "RUN_SINGLESTEP" -> {StepOne(P, cpu, t, emulate)}
    [] c.command = "RUN_SINGLESTEP_FAST_FORWARD" ->
         fast_forward_through_instruction(P, cpu, t, emulate, c.states)
    [] OTHER -> RunOn(P, cpu, t, emulate, request)

\* continue_or_step: what it makes of a stop nt.  Only steps are made without
\* emulation of system calls, and flush_syscallbuf runs without it.
continue_or_step(nt) ==
  IF is_unrecorded_cpuid_fault(nt)
  THEN [done |-> IF is_singlestep THEN "COMPLETE" ELSE "INCOMPLETE", t |-> AfterCpuid(nt)]
  ELSE IF nt.sig = NoSig /\ ~is_singlestep /\ P[nt.pos].op = "usys"
  THEN [done |-> "INCOMPLETE", t |-> perform_interrupted_syscall(nt)]
  ELSE [done |-> IF nt.sig = NoSig THEN "no signal or trap" ELSE "COMPLETE", t |-> nt]

\* cont_syscall_boundary: what it makes of a stop nt.
cont_syscall_boundary(nt) ==
  CASE nt.sig \in {TIME_SLICE_SIGNAL, "SIGTRAP"} -> [done |-> "INCOMPLETE", t |-> nt]
    [] is_unrecorded_cpuid_fault(nt) -> [done |-> "INCOMPLETE", t |-> AfterCpuid(nt)]
    [] nt.sig = "SIGSEGV" /\ ~is_unrecorded_cpuid_fault(nt) ->
         [done |-> IF scen.muplay_enabled THEN "GO_LIVE" ELSE "unrecorded signal", t |-> nt]
    [] nt.sig = NoSig /\ P[nt.pos].op = "usys" ->
         [done |-> "INCOMPLETE", t |-> perform_interrupted_syscall(nt)]
    [] OTHER -> [done |-> "COMPLETE", t |-> nt]

\* continue_or_step emulates system calls unless it steps.
Emulate == c.command = "RUN_CONTINUE"

\* compute_trap_reasons has the address space look at its watchpoints.
Looked(nt) == [nt EXCEPT !.chg = FALSE]

-----------------------------------------------------------------------------
\* TSTEP_ENTER_SYSCALL.

\* The resume, with the breakpoint at bp, and what is made of its stop.
ReachedSyscall(r, bp) ==
  /\ bp # None /\ r.t.sig = "SIGTRAP" /\ r.t.past /\ r.t.kern
  /\ ip(P, r.t) = bp /\ bp \notin user_bps
EnterSyscallTo(insn, request) ==
  LET bp == IF syscall_bp = None /\ scen.readonly THEN insn ELSE syscall_bp
      cpu == Cpu({bp})
  IN \E nt \in Resumed(T, cpu, TRUE, request) :
       LET r == cont_syscall_boundary(nt)
           arrived == [r.t EXCEPT !.sig = NoSig]
       IN /\ Note(nt)
          /\ syscall_bp' = IF r.done = "INCOMPLETE" /\ ReachedSyscall(r, bp) THEN None ELSE bp
          /\ CASE r.done = "INCOMPLETE" /\ ReachedSyscall(r, bp) ->
                    IF SameRegs(r.t) THEN Complete(arrived) ELSE Fail("register mismatch", r.t)
               [] r.done = "COMPLETE" ->
                    IF bp # None THEN Fail("syscall without trap", r.t)
                    ELSE IF SameRegs(r.t) THEN Complete(r.t) ELSE Fail("register mismatch", r.t)
               [] OTHER -> Return(r.done, r.t, cpu)

\* enter_syscall: run to a breakpoint on the syscall instruction where its code
\* cannot be overwritten, and to the system call otherwise.
enter_syscall ==
  /\ pc = "TSTEP_ENTER_SYSCALL"
  /\ LET insn == P[F.pos].ip
         req  == compute_ticks_request(T)
     IN IF AtFrame(T)
        THEN /\ UNCHANGED <<syscall_bp, seen>>
             /\ IF F.ev = "ENTERING_SYSCALL" THEN Complete(T) ELSE Fail("entered twice", T)
        ELSE IF ~req.go
        THEN /\ syscall_bp' = IF syscall_bp = None /\ scen.readonly THEN insn ELSE syscall_bp
             /\ UNCHANGED seen /\ Incomplete(clear_wait_status(T), Cpu({}))
        ELSE EnterSyscallTo(insn, req.request)
  /\ UNCHANGED <<scen, user_bps, c, internal_bp, loc, prot, LIVE>>

-----------------------------------------------------------------------------
\* TSTEP_PROGRAM_ASYNC_SIGNAL_INTERRUPT: emulate_async_signal.

guard_unexpected_signal(t) == t.sig \in {TIME_SLICE_SIGNAL, "SIGTRAP"}
ticks_left(t) == F.ticks - tick_count(P, t.pos)

\* Step 1: the tick counter is programmed SkidSize short of the target.
AdvanceByTicks ==
  /\ pc = "TSTEP_PROGRAM_ASYNC_SIGNAL_INTERRUPT"
  /\ ticks_left(T) - SkidSize > SkidSize
  /\ \E nt \in Resumed(T, Cpu({}), Emulate, Min({MaxTicksRequest, ticks_left(T)}) - SkidSize) :
       LET r == continue_or_step(nt)
       IN /\ Note(nt)
          /\ IF r.done = "no signal or trap" \/ ~guard_unexpected_signal(r.t)
             THEN Fail("unrecorded signal or syscall", r.t)
             ELSE IF r.t.sig = "SIGTRAP" THEN Incomplete(r.t, Cpu({}))
             ELSE task' = [task EXCEPT ![tid] = r.t] /\ UNCHANGED <<pc, frame, step, changed, result, failed>>
  /\ UNCHANGED <<scen, user_bps, c, internal_bp, syscall_bp, loc, prot, LIVE>>

GetClose ==
  /\ pc = "TSTEP_PROGRAM_ASYNC_SIGNAL_INTERRUPT"
  /\ ticks_left(T) - SkidSize <= SkidSize
  /\ IF ticks_left(T) < 0 THEN Fail("overshot target ticks", T)
     ELSE pc' = "approach" /\ UNCHANGED <<task, frame, step, changed, result, failed>>
  /\ loc' = NoLocals
  /\ UNCHANGED <<scen, user_bps, c, internal_bp, syscall_bp, prot, seen, LIVE>>

\* Mutant: the ip is not moved back to the breakpoint.
ApproachTrapped_noback ==
  /\ pc = "approach" /\ loc.pending_SIGTRAP
  /\ LET cpu     == Cpu({internal_bp})
         reasons == compute_trap_reasons(P, cpu, T, changed)
         debugger == \/ is_singlestep
                     \/ reasons.watchpoint /\ (changed \/ T.chg)
                     \/ reasons.breakpoint /\ T.past /\ ip(P, T) \in user_bps
         Stay(t) == /\ task' = [task EXCEPT ![tid] = Looked(t)]
                    /\ changed' = (changed \/ T.chg)
                    /\ loc' = [loc EXCEPT !.pending_SIGTRAP = FALSE]
                    /\ UNCHANGED <<pc, frame, step, result, failed, internal_bp>>
         No(why) == Fail(why, T) /\ UNCHANGED <<loc, internal_bp>>
     IN IF debugger
        THEN IF is_singlestep /\ ~reasons.singlestep THEN No("stepping without step")
             ELSE internal_bp' = None /\ UNCHANGED loc /\ Incomplete(T, Cpu({}))
        ELSE IF reasons.breakpoint
        THEN IF internal_bp # None /\ T.past /\ ip(P, T) = TargetRegs.ip /\ ~reasons.singlestep
             THEN Stay(T)
             ELSE No("not the internal breakpoint")
        ELSE IF (IF reasons.singlestep THEN loc.run_command # "RUN_CONTINUE" ELSE reasons.watchpoint)
        THEN Stay(T) ELSE No("unexplained trap")
  /\ UNCHANGED <<scen, user_bps, c, syscall_bp, prot, seen, LIVE>>

\* Step 2, the part about a SIGTRAP the thread is stopped by: is it one for the
\* debugger, the internal breakpoint on the target, or neither?
ApproachTrapped ==
  /\ pc = "approach" /\ loc.pending_SIGTRAP
  /\ LET cpu     == Cpu({internal_bp})
         reasons == compute_trap_reasons(P, cpu, T, changed)
         debugger == \/ is_singlestep
                     \/ reasons.watchpoint /\ (changed \/ T.chg)
                     \/ reasons.breakpoint /\ T.past /\ ip(P, T) \in user_bps
         Stay(t) == /\ task' = [task EXCEPT ![tid] = Looked(t)]
                    /\ changed' = (changed \/ T.chg)
                    /\ loc' = [loc EXCEPT !.pending_SIGTRAP = FALSE]
                    /\ UNCHANGED <<pc, frame, step, result, failed, internal_bp>>
         No(why) == Fail(why, T) /\ UNCHANGED <<loc, internal_bp>>
     IN IF debugger
        THEN IF is_singlestep /\ ~reasons.singlestep THEN No("stepping without step")
             ELSE internal_bp' = None /\ UNCHANGED loc /\ Incomplete(T, Cpu({}))
        ELSE IF reasons.breakpoint
        THEN IF internal_bp # None /\ T.past /\ ip(P, T) = TargetRegs.ip /\ ~reasons.singlestep
             THEN Stay([T EXCEPT !.past = FALSE])
             ELSE No("not the internal breakpoint")
        ELSE IF (IF reasons.singlestep THEN loc.run_command # "RUN_CONTINUE" ELSE reasons.watchpoint)
        THEN Stay(T) ELSE No("unexplained trap")
  /\ UNCHANGED <<scen, user_bps, c, syscall_bp, prot, seen, LIVE>>

\* The part after it: done at the target, or resume once more.  On the target
\* ip itself the thread is stepped, elsewhere it runs to a breakpoint there.
Approach ==
  /\ pc = "approach" /\ ~loc.pending_SIGTRAP
  /\ LET elsewhere == TargetRegs.ip # ip(P, T)
         asked     == elsewhere \/ c.command = "RUN_SINGLESTEP" \/ ip(P, T) \in user_bps
         bp        == IF elsewhere THEN TargetRegs.ip ELSE None
         Stops     == IF asked THEN Resumed(T, Cpu({bp}), Emulate, Unlimited)
                      ELSE fast_forward_through_instruction(P, Cpu({}), T, FALSE, c.states \cup {TargetRegs})
         After(nt) == IF asked THEN continue_or_step(nt)
                      ELSE [done |-> IF nt.sig = NoSig THEN "no signal or trap" ELSE "COMPLETE", t |-> nt]
     IN IF AtFrame(T)
        THEN internal_bp' = None /\ UNCHANGED <<loc, seen>> /\ Complete(T)
        ELSE \E nt \in Stops :
               LET r == After(nt)
                   wrong == \/ r.done = "no signal or trap"
                            \/ ~AtFrame(r.t) /\ ~guard_unexpected_signal(r.t)
               IN /\ Note(nt)
                  /\ internal_bp' = bp
                  /\ loc' = [pending_SIGTRAP |-> r.t.sig = "SIGTRAP",
                             run_command |-> IF asked THEN c.command ELSE "RUN_SINGLESTEP_FAST_FORWARD"]
                  /\ IF wrong THEN Fail("unrecorded signal or syscall", r.t)
                     ELSE IF ticks_left(r.t) < 0 THEN Fail("overshot target ticks", r.t)
                     ELSE /\ task' = [task EXCEPT ![tid] = r.t]
                          /\ UNCHANGED <<pc, frame, step, changed, result, failed>>
  /\ UNCHANGED <<scen, user_bps, c, syscall_bp, prot, LIVE>>

-----------------------------------------------------------------------------
\* TSTEP_DETERMINISTIC_SIGNAL: run on until the signal is raised again.
emulate_deterministic_signal ==
  /\ pc = "TSTEP_DETERMINISTIC_SIGNAL"
  /\ IF AtFrame(T) THEN UNCHANGED seen /\ Complete(T)
     ELSE \E nt \in Resumed(T, Cpu({}), Emulate, Unlimited) :
       LET r == continue_or_step(nt)
           reasons == compute_trap_reasons(P, Cpu({}), r.t, changed)
           fordebugger == /\ r.t.sig = "SIGTRAP"
                          /\ \/ reasons.singlestep \/ reasons.watchpoint
                             \/ reasons.breakpoint /\ ip(P, r.t) \in user_bps
           there == IF F.ev = "INSTRUCTION_TRAP" THEN [r.t EXCEPT !.pos = F.pos] ELSE r.t
       IN /\ Note(nt)
          /\ IF r.done = "no signal or trap" THEN Fail(r.done, r.t)
             ELSE IF r.done = "INCOMPLETE" \/ r.t.sig = TIME_SLICE_SIGNAL
             THEN task' = [task EXCEPT ![tid] = r.t] /\ UNCHANGED <<pc, frame, step, changed, result, failed>>
             ELSE IF fordebugger THEN Incomplete(r.t, Cpu({}))
             ELSE IF r.t.sig # F.sig THEN Fail("unrecorded signal or syscall", r.t)
             ELSE IF ticks_left(r.t) # 0 THEN Fail("ticks mismatch", r.t)
             ELSE Complete(there)
  /\ UNCHANGED <<scen, user_bps, c, internal_bp, syscall_bp, loc, prot, LIVE>>

-----------------------------------------------------------------------------
\* TSTEP_FLUSH_SYSCALLBUF: let the thread run through its buffered system calls
\* up to the breakpoint table entry of the last one.

\* apply_mprotect_records, for a thread that went from before to nt.
apply_mprotect_records(before, nt) ==
  LET skip    == mprotect_record_count_completed(P, before)
      all     == mprotect_records(P, nt)
      records == SubSeq(all, skip + 1, Len(all))
      count   == mprotect_record_count_completed(P, nt)
      applied == {i \in 1..Len(records) : i - 1 >= count => KernelProt(P, nt) = records[i]}
  IN IF applied = {} THEN prot ELSE records[Max(applied)]

flush_syscallbuf ==
  /\ pc = "TSTEP_FLUSH_SYSCALLBUF"
  /\ LET req  == compute_ticks_request(T)
         stop == P[F.pos].ip
     IN IF ~req.go THEN UNCHANGED <<seen, prot>> /\ Incomplete(clear_wait_status(T), Cpu({}))
        ELSE \E nt \in Resumed(T, Cpu({stop}), FALSE, req.request) :
          LET r == continue_or_step(nt)
              t == r.t
          IN /\ Note(nt)
             /\ prot' = apply_mprotect_records(T, t)
             /\ IF r.done = "no signal or trap" THEN Fail(r.done, t)
                ELSE IF t.sig = TIME_SLICE_SIGNAL THEN Incomplete(t, Cpu({}))
                ELSE IF r.done = "INCOMPLETE"
                THEN task' = [task EXCEPT ![tid] = t] /\ UNCHANGED <<pc, frame, step, changed, result, failed>>
                ELSE IF t.sig # "SIGTRAP" THEN Fail("unrecorded signal or syscall", t)
                ELSE IF t.past /\ ip(P, t) = stop /\ stop \notin user_bps
                THEN Complete([t EXCEPT !.past = FALSE])
                ELSE Incomplete(t, Cpu({}))
  /\ UNCHANGED <<scen, user_bps, c, internal_bp, syscall_bp, loc, LIVE>>

-----------------------------------------------------------------------------
\* The other steps.

\* patch_next_syscall: run to the system call, back up, apply the patch.  The
\* entry after it is the patched code.
patch_next_syscall ==
  /\ pc = "TSTEP_PATCH_SYSCALL"
  /\ LET req == compute_ticks_request(T)
     IN IF ~req.go THEN UNCHANGED seen /\ Incomplete(clear_wait_status(T), Cpu({}))
        ELSE \E nt \in Resumed(T, Cpu({}), TRUE, req.request) :
          LET r == cont_syscall_boundary(nt)
              patched == [AtEntry(P, r.t, r.t.pos + 1) EXCEPT !.lost = @ \/ r.done = "GO_LIVE"]
          IN /\ Note(nt)
             /\ IF r.done \in {"COMPLETE", "GO_LIVE"} THEN Complete(patched)
                ELSE Return(r.done, r.t, Cpu({}))
  /\ UNCHANGED <<scen, user_bps, c, internal_bp, syscall_bp, loc, prot, LIVE>>

\* advance_to_ticks_target, when the target comes before the event.
advance_to_ticks_target ==
  /\ pc = "advance_to_ticks_target"
  /\ LET req == compute_ticks_request(T)
         cpu == Cpu({syscall_bp})
     IN IF ~req.go THEN UNCHANGED seen /\ Incomplete(clear_wait_status(T), cpu)
        ELSE \E nt \in Resumed(T, cpu, Emulate, req.request) :
          LET r == continue_or_step(nt)
          IN /\ Note(nt)
             /\ IF r.done = "no signal or trap" THEN Fail(r.done, r.t)
                ELSE IF r.t.sig = "SIGTRAP" THEN Incomplete(r.t, cpu)
                ELSE task' = [task EXCEPT ![tid] = r.t] /\ UNCHANGED <<pc, frame, step, changed, result, failed>>
  /\ UNCHANGED <<scen, user_bps, c, internal_bp, syscall_bp, loc, prot, LIVE>>

\* exit_syscall: registers and memory come from the trace.
exit_syscall ==
  /\ pc = "TSTEP_EXIT_SYSCALL"
  /\ LET t == AtEntry(P, T, T.pos + 1)
     IN IF SameRegs(t) THEN Complete(t) ELSE Fail("register mismatch", t)
  /\ UNCHANGED <<scen, user_bps, c, internal_bp, syscall_bp, loc, prot, seen, LIVE>>

\* emulate_signal_delivery: the thread is put where the kernel had it continue.
emulate_signal_delivery ==
  /\ pc = "TSTEP_DELIVER_SIGNAL"
  /\ Complete([T EXCEPT !.pos = F.pos, !.past = FALSE])
  /\ UNCHANGED <<scen, user_bps, c, internal_bp, syscall_bp, loc, prot, seen, LIVE>>

Retire ==
  /\ pc = "TSTEP_RETIRE" /\ Complete(T)
  /\ UNCHANGED <<scen, user_bps, c, internal_bp, syscall_bp, loc, prot, seen, LIVE>>

\* exit_task, end_task
exit_task ==
  /\ pc = "TSTEP_EXIT_TASK"
  /\ task' = [i \in DOMAIN task \ {tid} |-> task[i]]
  /\ result' = NoBreak /\ frame' = frame + 1 /\ step' = "TSTEP_NONE" /\ pc' = "idle"
  /\ UNCHANGED <<scen, user_bps, c, internal_bp, syscall_bp, changed, loc, prot, seen, failed, LIVE>>

-----------------------------------------------------------------------------
\* The calls.

ActionFor(f) ==
  CASE f.ev = "EXIT" -> "TSTEP_EXIT_TASK"
    [] f.ev \in {"SYSCALLBUF_ABORT_COMMIT", "SYSCALLBUF_RESET", "GROW_MAP"} -> "TSTEP_RETIRE"
    [] f.ev = "SYSCALLBUF_FLUSH" -> "TSTEP_FLUSH_SYSCALLBUF"
    [] f.ev = "PATCH_SYSCALL" -> "TSTEP_PATCH_SYSCALL"
    [] f.ev = "SCHED" -> "TSTEP_PROGRAM_ASYNC_SIGNAL_INTERRUPT"
    [] f.ev = "INSTRUCTION_TRAP" -> "TSTEP_DETERMINISTIC_SIGNAL"
    [] f.ev = "SIGNAL" -> IF f.deterministic THEN "TSTEP_DETERMINISTIC_SIGNAL"
                          ELSE "TSTEP_PROGRAM_ASYNC_SIGNAL_INTERRUPT"
    [] f.ev \in {"SIGNAL_DELIVERY", "SIGNAL_HANDLER"} -> "TSTEP_DELIVER_SIGNAL"
    [] f.ev \in {"ENTERING_SYSCALL", "ENTERING_SYSCALL_PTRACE"} -> "TSTEP_ENTER_SYSCALL"
    [] f.ev \in {"EXITING_SYSCALL", "EXITING_EXECVE"} -> "TSTEP_EXIT_SYSCALL"

\* revive_task_for_exec: the frame is for the thread group leader, which has
\* exited; the thread that called exec takes its tid.
Revived ==
  IF tid \in DOMAIN task THEN task
  ELSE LET t == CHOOSE i \in DOMAIN task : TRUE IN [i \in {tid} |-> task[t]]

\* setup_replay_one_trace_frame, and the effects some frames have right away.
setup_replay_one_trace_frame ==
  /\ step' = ActionFor(F)
  /\ task' = IF F.ev = "SYSCALLBUF_RESET" THEN [task EXCEPT ![tid].base = T.pos] ELSE Revived
  /\ result' = [NoBreak EXCEPT !.task_exit = F.ev = "EXIT"]
  /\ failed' = IF tid \notin DOMAIN task /\ (F.ev # "EXITING_EXECVE" \/ Cardinality(DOMAIN task) # 1)
               THEN "can't find task" ELSE failed
  /\ UNCHANGED pc

\* try_one_trace_step: which loop is entered.
try_one_trace_step ==
  /\ pc' = IF c'.ticks_target > 0 /\ ~has_ticks_slop(F) /\ F.ticks > c'.ticks_target
           THEN "advance_to_ticks_target" ELSE step
  /\ UNCHANGED <<step, task, result, failed>>

\* ReplaySession::replay_step up to its first resume.
replay_step ==
  /\ pc = "idle" /\ failed = "no"
  /\ IF AtEnd
     THEN result' = [NoBreak EXCEPT !.status = "REPLAY_EXITED"] /\ UNCHANGED <<pc, step, task, failed>>
     ELSE IF step = "TSTEP_NONE" THEN setup_replay_one_trace_frame
     ELSE try_one_trace_step
  /\ seen' = NotSeen
  /\ UNCHANGED <<scen, frame, internal_bp, syscall_bp, changed, loc, prot, LIVE>>

\* The debugger: it resumes with some constraints, and takes out a breakpoint
\* that was hit before it goes on.
Constraints ==
  LET targets == IF AtEnd \/ tid \notin DOMAIN task \/ result.approaching THEN {0}
                 ELSE {0} \cup {x \in scen.targets : x >= tick_count(P, T.pos)}
      Of(cmd) == [command : {cmd}, ticks_target : IF cmd = "RUN_CONTINUE" THEN targets ELSE {0},
                  states : IF cmd = "RUN_SINGLESTEP_FAST_FORWARD" THEN scen.states ELSE {{}}]
  IN UNION {Of(cmd) : cmd \in scen.commands}
Debugger ==
  /\ ~scen.muplay /\ result.status # "REPLAY_EXITED"
  /\ c' \in IF step = "TSTEP_NONE" THEN {NoCommand} ELSE Constraints
  /\ user_bps' = IF result.breakpoint_hit THEN user_bps \ {ip(P, T)} ELSE user_bps
  /\ replay_step

\* MuplaySession::muplay_step, called until it says that the replay exited.
muplay_step ==
  /\ scen.muplay /\ ~LIVE /\ result.status # "REPLAY_EXITED"
  /\ c' = NoCommand /\ UNCHANGED user_bps
  /\ replay_step

Loops ==
  \/ enter_syscall \/ exit_syscall \/ AdvanceByTicks \/ GetClose \/ ApproachTrapped \/ Approach
  \/ emulate_deterministic_signal \/ emulate_signal_delivery \/ flush_syscallbuf
  \/ patch_next_syscall \/ advance_to_ticks_target \/ Retire \/ exit_task
Done == (result.status = "REPLAY_EXITED" \/ failed # "no") /\ UNCHANGED vars
Next == Debugger \/ muplay_step \/ Loops \/ Done

\* The caller calls replay_step again and again, and the loops run on.
Spec     == Init /\ [][Next]_vars
FairSpec == Spec /\ WF_vars(Debugger \/ muplay_step \/ Loops)

-----------------------------------------------------------------------------
\* No assertion of replay fails: the ticks target is not overshot, the trap,
\* signal and registers met are the ones the trace has (guard_overshoot,
\* guard_unexpected_signal, check_ticks_consistency, validate_regs and the
\* assertions about internal breakpoints in emulate_async_signal).
AssertionsHold == failed = "no"

\* A frame is retired at exactly the instruction it was recorded at, however
\* late the tick counter interrupted and whatever the debugger had set there,
\* and an instruction a signal preempted is never executed on the way.
FramesAtRecordedPoint ==
  [][frame' = frame + 1 /\ tid \in DOMAIN task' =>
       LET t == task'[tid]
       IN /\ F.placed => t.pos = F.pos /\ t.past = F.past
          /\ ~t.lost]_vars

\* When replay_step returns, the debugger has been told of each breakpoint of
\* its own that was executed and of each change of its watched value, and the
\* thread is stopped at that breakpoint; no internal breakpoint is left, apart
\* from one on the syscall instruction a step in progress runs to; and a ticks
\* target was not passed.
DebuggerTold ==
  pc = "idle" /\ failed = "no" =>
    /\ seen.bp => result.breakpoint_hit
    /\ seen.watch => result.watchpoints_hit
    /\ result.breakpoint_hit => ip(P, T) \in user_bps /\ ~T.past
    /\ internal_bp = None /\ (syscall_bp # None => step = "TSTEP_ENTER_SYSCALL")
    /\ c.ticks_target > 0 /\ ~AtEnd /\ step # "TSTEP_NONE" =>
         tick_count(P, T.pos) <= c.ticks_target

\* Fast-forwarding through a string instruction enters no register state it was
\* told to stop before, and executes no iteration that accesses a watched
\* address, apart from the single step it always makes.
FastForwardStops ==
  \A i \in DOMAIN task :
    LET t == task[i]
        Q == scen.path[t.life]
    IN \A r \in t.ran :
         /\ [ip |-> Q[r].ip, past |-> FALSE, cx |-> Q[r].cx] \notin t.avoid
         /\ ~Watched(Q, Cpu({}), r - 1)

\* The replay comes to the end of the trace, unless a modified program left it.
ReplayFinishes == <>(result.status \in {"REPLAY_EXITED", "GOING_LIVE"})

=============================================================================

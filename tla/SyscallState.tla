----------------------------- MODULE SyscallState -----------------------------
(* One recorded system call, from its entry to its return                  *)
(* (TaskSyscallState in record_syscall.cc and the states of                *)
(* RecordSession::syscall_state_changed that call it): the parameters the  *)
(* kernel writes are moved to scratch memory while another thread of the   *)
(* program may run, and moved back, recorded and undone afterwards.        *)
(*                                                                         *)
(* Beside the recording, rmem is the memory of the replay at the same      *)
(* point: other threads run there as they did in the recording, the kernel *)
(* does not, and what the recorder wrote to the trace is applied at the    *)
(* events.                                                                 *)
EXTENDS SyscallParams, SequencesExt

CONSTANTS Scenarios,     \* what is called, and under which circumstances
          OtherWrites,   \* bound on the writes of the other thread
          Restarts       \* bound on the restarts of an interrupted call

VARIABLES sc,        \* the scenario: call, null pointers, scratch size, ...
          mem,       \* the cells of the recorded program, scratch included
          rmem,      \* the program's cells in the replay
          args,      \* registers: 0 the system call number, 1..6 the arguments
          st,        \* TaskSyscallState
          pc,        \* where the call is
          out,       \* what the kernel did
          kargs,     \* the arguments the kernel works with
          others, restarts,  \* counters against the bounds
          ok         \* no assertion of the recorder has failed

vars == <<sc, mem, rmem, args, st, pc, out, kargs, others, restarts, ok>>

-----------------------------------------------------------------------------
(* Values of cells: pointers and lengths are numbers, data are tokens. *)
Null == 0
Data == -1         \* what the program had there
Kernel == -2       \* what the kernel, or rr in its place, puts there
Other == -3        \* what the other thread puts there
Invalidated == -5  \* what a replaced register holds
RRSigs == -6       \* a signal mask with the signals rr needs in it
SafeSigs == -7     \* the same mask without them
Junk == -9         \* what scratch memory held before

ScratchPtr == 1000
Scratch(n) == {ScratchPtr + i : i \in 0..(n - 1)}

CellsFrom(a, n) == {a + i : i \in 0..(n - 1)}
Params(c) == {c.params[i] : i \in DOMAIN c.params}
PointerCells(c) == {p.loc : p \in {q \in Params(c) : q.loc > 6}}
LengthCells(c) == {p.mem : p \in Params(c)} \ {0}
MaskCells(c) == {Buf(p.buf) : p \in {q \in Params(c) : q.mutator}}
ParamCells(p) == CellsFrom(Buf(p.buf), p.incoming)
UserCells(c) == UNION {ParamCells(p) : p \in Params(c)}
                \cup PointerCells(c) \cup LengthCells(c) \cup c.at_entry \cup c.also

(* The program's data, where its pointers lead and what its lengths say. *)
InitialCell(s, a) ==
  CASE a \in PointerCells(s.call) ->
         LET p == CHOOSE q \in Params(s.call) : q.loc = a
         IN IF p.buf \in s.nulls THEN Null ELSE Buf(p.buf)
    [] a \in LengthCells(s.call) -> (CHOOSE q \in Params(s.call) : q.mem = a).len0
    [] a \in MaskCells(s.call) -> s.mask
    [] a >= ScratchPtr -> Junk
    [] OTHER -> Data

NoState == [present |-> FALSE, params |-> <<>>, scratch_enabled |-> FALSE,
            switchable |-> TRUE, saved |-> <<>>, entry |-> <<>>]
NoOutcome == [result |-> 0, kout |-> [a \in {} |-> 0]]

Init ==
  /\ sc \in Scenarios
  /\ mem = [a \in UserCells(sc.call) \cup Scratch(sc.scratch) |-> InitialCell(sc, a)]
  /\ rmem = [a \in UserCells(sc.call) |-> InitialCell(sc, a)]
  /\ args = [n \in 0..6 |-> IF n \in sc.nulls THEN Null ELSE IF n = 0 THEN 1 ELSE Buf(n)]
  /\ st = NoState /\ pc = "user" /\ out = NoOutcome /\ kargs = <<>>
  /\ others = 0 /\ restarts = 0 /\ ok = TRUE

-----------------------------------------------------------------------------
(* Handlers work on a world: memory, registers, state, replay and ok. *)
World == [mem |-> mem, args |-> args, st |-> st, rmem |-> rmem, ok |-> ok]
With(w, Op(_)) == CHOOSE r \in {Op(v) : v \in {w}} : TRUE
Becomes(w) ==
  /\ mem' = w.mem /\ args' = w.args /\ st' = w.st /\ rmem' = w.rmem /\ ok' = w.ok

Assert_(w, b) == [w EXCEPT !.ok = w.ok /\ b]
CopyCells(m, from, to, n) ==
  [a \in DOMAIN m |-> IF a \in CellsFrom(to, n) THEN m[from + (a - to)] ELSE m[a]]
set_remote_ptr(m, a, value) == [m EXCEPT ![a] = value]

(* The data goes to the trace, and from there to the replay. *)
record_remote(w, a, n) ==
  [w EXCEPT !.rmem = [b \in DOMAIN w.rmem |-> IF b \in CellsFrom(a, n) THEN w.mem[b] ELSE w.rmem[b]]]
record_local(w, a, n, from) ==
  [w EXCEPT !.rmem = [b \in DOMAIN w.rmem |-> IF b \in CellsFrom(a, n) THEN w.mem[from + (b - a)]
                                              ELSE w.rmem[b]]]

-----------------------------------------------------------------------------
(* rec_prepare_syscall *)

(* One parameter is noted, unless its pointer is null. *)
RegisterParam(w, acc, p) ==
  LET dest == IF p.loc <= 6 THEN w.args[p.loc] ELSE w.mem[p.loc]
      lost == p.mem # 0 /\ BufOf(p.mem) \in sc.nulls
      incoming == IF lost THEN 0 ELSE p.incoming
      moved == p.mode # IN_OUT_NO_SCRATCH
  IN IF dest = Null THEN acc
     ELSE [list |-> Append(acc.list,
             [dest |-> dest, scratch |-> IF moved THEN acc.scratch ELSE Null,
              incoming |-> incoming, mem |-> IF lost THEN 0 ELSE p.mem,
              from_syscall |-> p.from_syscall, mode |-> p.mode,
              reg |-> IF moved /\ p.loc <= 6 THEN p.loc ELSE 0,
              ptr |-> IF moved /\ p.loc > 6 THEN p.loc ELSE 0,
              mutator |-> p.mutator]),
           scratch |-> acc.scratch + IF moved THEN incoming ELSE 0]

relocations(list, a) ==
  {q.scratch + (a - q.dest) : q \in {list[i] : i \in
     {j \in DOMAIN list : a \in CellsFrom(list[j].dest, list[j].incoming)}}}
relocate_pointer_to_scratch(list, a) == CHOOSE x \in relocations(list, a) : TRUE

(* Input is copied to scratch first; then pointers, in registers and in    *)
(* the copies, and the places lengths come from, are redirected.           *)
MoveToScratch(w, list) ==
  LET Copy(m, p) == IF p.mode \in {IN_, IN_OUT} THEN CopyCells(m, p.dest, p.scratch, p.incoming)
                                                ELSE m
      Redirect(m, p) == IF p.ptr = 0 THEN m
                        ELSE set_remote_ptr(m, relocate_pointer_to_scratch(list, p.ptr), p.scratch)
      SetArg(r, p) == IF p.reg = 0 THEN r ELSE [r EXCEPT ![p.reg] = p.scratch]
      Resize(p) == IF p.mem = 0 THEN p
                   ELSE [p EXCEPT !.mem = relocate_pointer_to_scratch(list, p.mem)]
      one == \A i \in DOMAIN list : \A a \in {list[i].ptr, list[i].mem} \ {0} :
               Cardinality(relocations(list, a)) = 1
  IN IF ~one THEN Assert_(w, FALSE)
     ELSE [w EXCEPT !.mem = FoldLeft(Redirect, FoldLeft(Copy, w.mem, list), list),
                    !.args = FoldLeft(SetArg, w.args, list),
                    !.st.scratch_enabled = TRUE,
                    !.st.params = [i \in DOMAIN list |-> Resize(list[i])]]

done_preparing_internal(w, list, scratch) ==
  LET fits == scratch <= ScratchPtr + sc.scratch
      switchable == sc.call.switch /\ fits
      v == [w EXCEPT !.st = [NoState EXCEPT !.present = TRUE, !.params = list,
                                            !.switchable = switchable, !.entry = w.st.entry],
                     !.ok = w.ok /\ ~w.st.present]
  IN IF ~switchable \/ list = <<>> THEN v
     ELSE Assert_(MoveToScratch(v, list), \A i \in DOMAIN list : list[i].incoming < NoSize)

(* protect_rr_sigs keeps the mask it replaces. *)
Mutate(w, i) ==
  LET p == w.st.params[i]
      at == IF w.st.scratch_enabled THEN p.scratch ELSE p.dest
  IN IF ~p.mutator THEN w
     ELSE IF w.mem[at] # RRSigs THEN [w EXCEPT !.st.params[i].mutator = FALSE]
     ELSE [w EXCEPT !.mem[at] = SafeSigs,
                    !.st.saved = IF w.st.scratch_enabled THEN @ ELSE Append(@, RRSigs)]

done_preparing(w, list, scratch) ==
  With(done_preparing_internal(w, list, scratch),
       LAMBDA v : FoldLeft(Mutate, v, [i \in DOMAIN v.st.params |-> i]))

(* rr's own writes at the entry are recorded there, except PR_GET_TSC's. *)
WriteAtEntry(w) ==
  LET v == [w EXCEPT !.mem = [a \in DOMAIN w.mem |-> IF a \in sc.call.at_entry THEN Kernel
                                                     ELSE w.mem[a]]]
  IN IF sc.call.kind = "prctl" THEN v
     ELSE [v EXCEPT !.rmem = [a \in DOMAIN v.rmem |-> IF a \in sc.call.at_entry THEN v.mem[a]
                                                      ELSE v.rmem[a]]]

rec_prepare_syscall(w) ==
  LET v == WriteAtEntry([w EXCEPT !.st.entry = w.args])
      Register(acc, p) == RegisterParam(v, acc, p)
      all == FoldLeft(Register, [list |-> <<>>, scratch |-> ScratchPtr], sc.call.params)
      Hijack(u) == [u EXCEPT !.args = [n \in 0..6 |-> IF n \in sc.call.hijack THEN Invalidated
                                                      ELSE u.args[n]]]
  IN Hijack(done_preparing(v, all.list, all.scratch))

-----------------------------------------------------------------------------
(* Sizes after the call: the source is shared out in order. *)
is_same_source(p, q) ==
  (p.mem # 0 /\ p.mem = q.mem) \/ (p.from_syscall /\ q.from_syscall)

Least(S) == CHOOSE x \in S : \A y \in S : x <= y
NonNegative(n) == IF n < 0 THEN 0 ELSE n

Consumed(list, sizes, i) ==
  FoldLeft(LAMBDA n, j : n + IF is_same_source(list[j], list[i]) THEN sizes[j] ELSE 0,
           0, [j \in 1..(i - 1) |-> j])

(* Without a size, or with more consumed than there is, an assertion fails.*)
eval_param_size(w, result, sizes, i) ==
  LET p == w.st.params[i]
      consumed == Consumed(w.st.params, sizes, i)
      limits == (IF p.mem # 0 THEN {w.mem[p.mem]} ELSE {})
                \cup (IF p.from_syscall THEN {NonNegative(result)} ELSE {})
  IN [size |-> Least({p.incoming} \cup {n - consumed : n \in limits}),
      ok |-> p.incoming < NoSize /\ \A n \in limits : consumed <= n]

ActualSizes(w, result) ==
  FoldLeft(LAMBDA acc, i : LET e == eval_param_size(w, result, acc.sizes, i)
                           IN [sizes |-> Append(acc.sizes, e.size), ok |-> acc.ok /\ e.ok],
           [sizes |-> <<>>, ok |-> TRUE], [i \in DOMAIN w.st.params |-> i])

\* Mutant: pointers in memory are left.
RestorePointers_inRegisters(w) ==
  [w EXCEPT
     !.args = FoldLeft(LAMBDA r, p : IF p.reg = 0 THEN r ELSE [r EXCEPT ![p.reg] = p.dest],
                       w.args, w.st.params)]

(* Outputs are copied back, then the pointers of the program are set again *)
(* in registers and in memory, then the outputs are recorded: from memory  *)
(* if a pointer in memory was set, else from the copy of the scratch area. *)
RestorePointers(w) ==
  [w EXCEPT
     !.args = FoldLeft(LAMBDA r, p : IF p.reg = 0 THEN r ELSE [r EXCEPT ![p.reg] = p.dest],
                       w.args, w.st.params),
     !.mem = FoldLeft(LAMBDA m, p : IF p.ptr = 0 THEN m ELSE set_remote_ptr(m, p.ptr, p.dest),
                      w.mem, w.st.params)]

\* Mutant: always from the copy.
memory_cleaned_up_never(params) == FALSE

memory_cleaned_up(params) == \E i \in DOMAIN params : params[i].ptr # 0

ResultsFromScratch(w, result, write_back) ==
  LET actual == ActualSizes(w, result)
      params == w.st.params
      back == write_back
      data == w.mem
      moved(p) == p.mode \in {IN_OUT, OUT}
      CopyBack(m, i) == IF back /\ moved(params[i])
                        THEN [a \in DOMAIN m |->
                                IF a \in CellsFrom(params[i].dest, actual.sizes[i])
                                THEN data[params[i].scratch + (a - params[i].dest)] ELSE m[a]]
                        ELSE m
      Record(v, i) ==
        CASE ~back \/ params[i].mode = IN_ -> v
          [] params[i].mode = IN_OUT_NO_SCRATCH \/ memory_cleaned_up(params) ->
               record_remote(v, params[i].dest, actual.sizes[i])
          [] OTHER -> record_local(v, params[i].dest, actual.sizes[i], params[i].scratch)
      all == [i \in DOMAIN params |-> i]
  IN FoldLeft(Record, RestorePointers([w EXCEPT !.mem = FoldLeft(CopyBack, w.mem, all),
                                                !.ok = w.ok /\ actual.ok]), all)

(* In place: what was mutated is put back, from first to last. *)
RestoreMutated(w) ==
  FoldLeft(LAMBDA v, p : IF ~p.mutator THEN v
                         ELSE [v EXCEPT !.ok = v.ok /\ v.st.saved # <<>>,
                                        !.mem[p.dest] = IF v.st.saved = <<>> THEN @ ELSE Head(v.st.saved),
                                        !.st.saved = IF @ = <<>> THEN @ ELSE Tail(@)],
           w, w.st.params)

ResultsInPlace(w, result) ==
  LET v == RestoreMutated(w)
      actual == ActualSizes(v, result)
  IN FoldLeft(LAMBDA u, i : record_remote(u, u.st.params[i].dest, actual.sizes[i]),
              [v EXCEPT !.ok = v.ok /\ v.st.saved = <<>> /\ actual.ok],
              [i \in DOMAIN v.st.params |-> i])

(* The actions registered for after the call record what else it wrote. *)
AfterSyscallActions(w) ==
  [w EXCEPT !.rmem = [a \in DOMAIN w.rmem |-> IF a \in sc.call.also THEN w.mem[a] ELSE w.rmem[a]]]

process_syscall_results(w, result, write_back) ==
  LET v == Assert_(w, w.st.present)
  IN IF v.st.scratch_enabled THEN ResultsFromScratch(v, result, write_back)
                             ELSE ResultsInPlace(v, result)

abort_syscall_results(w) ==
  IF w.st.scratch_enabled THEN RestorePointers(w) ELSE RestoreMutated(w)

-----------------------------------------------------------------------------
(* The kernel follows the pointers it was given.  external *)
RECURSIVE KernelPtr(_, _, _)
KernelPtr(m, k, p) ==
  IF p.loc <= 6 THEN k[p.loc]
  ELSE LET holders == {q \in Params(sc.call) : p.loc \in ParamCells(q)}
       IN IF holders = {} THEN m[p.loc]
          ELSE LET q == CHOOSE x \in holders : TRUE
               IN m[KernelPtr(m, k, q) + (p.loc - Buf(q.buf))]

KernelAddress(m, k, a) ==
  LET holders == {q \in Params(sc.call) : a \in ParamCells(q)}
  IN IF holders = {} THEN a
     ELSE LET q == CHOOSE x \in holders : TRUE
          IN KernelPtr(m, k, q) + (a - Buf(q.buf))

(* How much of parameter i the kernel fills, given the result and lengths  *)
(* (-1: the kernel leaves that message alone).                             *)
KernelFill(c, result, lens) ==
  FoldLeft(LAMBDA sizes, i :
             LET p == c.params[i]
                 had == FoldLeft(LAMBDA n, j : n + IF is_same_source(c.params[j], p) THEN sizes[j] ELSE 0,
                                 0, [j \in 1..(i - 1) |-> j])
                 room == IF p.mem # 0 THEN lens[p.mem] ELSE IF p.from_syscall THEN result ELSE p.incoming
             IN Append(sizes, IF p.mode = IN_ \/ {p.buf, BufOf(p.mem)} \cap sc.nulls # {} THEN 0
                              ELSE NonNegative(Least({p.incoming, NonNegative(room) - had}))),
           <<>>, [i \in DOMAIN c.params |-> i])

(* The length of a message that is not received stays as it was. *)
KernelOutput(c, result, lens) ==
  LET sizes == KernelFill(c, result, lens)
      filled == UNION {CellsFrom(Buf(c.params[i].buf), sizes[i]) : i \in DOMAIN c.params}
      fixed == PointerCells(c) \cup LengthCells(c)
      lengths == {a \in LengthCells(c) : lens[a] >= 0 /\ BufOf(a) \notin sc.nulls}
  IN [a \in (filled \ fixed) \cup lengths \cup c.also |->
        IF a \in lengths THEN lens[a] ELSE Kernel]

Lengths(c) == [LengthCells(c) -> {-1, 1, 3}]
Results(c) == IF \E p \in Params(c) : p.from_syscall THEN 0..4 ELSE {0}

(* A call rr took over does nothing in the kernel: what it is to return is *)
(* then rr's to write, at the entry or at the exit.                        *)
TakenOver(c) == c.hijack # {} \/ c.expect_errno
Succeeds(c) ==
  IF TakenOver(c)
  THEN {[result |-> 0, kout |-> [a \in (c.also \cup c.at_entry) |-> Kernel]]}
  ELSE IF c.kind = "nanosleep" THEN {NoOutcome}  \* only an interrupted sleep has time left
  ELSE {[result |-> r, kout |-> KernelOutput(c, r, lens)] : r \in Results(c), lens \in Lengths(c)}
Fails == {[result |-> -1, kout |-> [a \in {} |-> 0]]}
Outcomes(c) == IF c.expect_errno THEN Fails ELSE Succeeds(c) \cup Fails

KernelWrites(m, k, kout) ==
  With([a \in DOMAIN kout |-> KernelAddress(m, k, a)],
       LAMBDA to : [b \in DOMAIN m |-> IF \E a \in DOMAIN kout : to[a] = b
                                       THEN kout[CHOOSE a \in DOMAIN kout : to[a] = b] ELSE m[b]])

-----------------------------------------------------------------------------
(* The steps of a call *)

(* syscall_state_changed, ENTERING_SYSCALL. *)
Enter ==
  /\ pc = "user"
  /\ Becomes(With(World, rec_prepare_syscall))
  /\ pc' = "kernel" /\ kargs' = args'
  /\ UNCHANGED <<sc, out, others, restarts>>

(* A pause in place of a wait only ends by a signal. *)
Complete ==
  /\ pc = "kernel"
  /\ ~(sc.call.kind = "wait" /\ 0 \in sc.call.hijack)
  /\ out' \in Outcomes(sc.call)
  /\ mem' = IF TakenOver(sc.call) THEN mem ELSE KernelWrites(mem, kargs, out'.kout)
  /\ pc' = "done"
  /\ UNCHANGED <<sc, rmem, args, st, kargs, others, restarts, ok>>

(* EXITING_SYSCALL, when the call is not to be restarted. *)
GiveBack(w, regs) ==
  [w EXCEPT !.args = [n \in 0..6 |-> IF n \in regs THEN w.st.entry[n] ELSE w.args[n]]]

(* The status of an emulated wait is written where the program wants it;   *)
(* a sleep that completed has no remaining time.                           *)
rec_process_syscall_arch(w) ==
  IF sc.call.expect_errno THEN w
  ELSE LET v == GiveBack(w, rec_process_registers(sc.call.kind))
       IN IF sc.call.kind = "wait" /\ out.result >= 0
          THEN [v EXCEPT !.mem = [a \in DOMAIN v.mem |-> IF a \in sc.call.also THEN Kernel ELSE v.mem[a]]]
          ELSE v

rec_process_syscall(w) ==
  LET write_back == ~(sc.call.kind = "nanosleep" /\ out.result = 0)
  IN [AfterSyscallActions(process_syscall_results(rec_process_syscall_arch(w), out.result, write_back))
        EXCEPT !.st = NoState]

Exit ==
  /\ pc = "done"
  /\ Becomes(With(World, rec_process_syscall))
  /\ pc' = "returned" /\ out' = NoOutcome
  /\ UNCHANGED <<sc, kargs, others, restarts>>

(* EXITING_SYSCALL, when it may be restarted.  A sleep writes its          *)
(* remaining time now; everything else is forgotten.                       *)
rec_prepare_restart_syscall(w) ==
  LET v == CASE sc.call.kind = "nanosleep" -> process_syscall_results(w, 0, TRUE)
             [] sc.call.kind = "wait" -> GiveBack(w, {0})
             [] OTHER -> w
  IN [GiveBack(v, 1..6) EXCEPT !.st = NoState]

Interrupted ==
  /\ pc = "kernel" /\ sc.call.switch /\ sc.call.restart # "never"
  /\ LET m == IF sc.call.kind = "nanosleep"
              THEN KernelWrites(mem, kargs, KernelOutput(sc.call, 0, <<>>)) ELSE mem
     IN Becomes(With([World EXCEPT !.mem = m], rec_prepare_restart_syscall))
  /\ pc' = "interrupted"
  /\ UNCHANGED <<sc, out, kargs, others, restarts>>

(* The call is made again with the arguments of the program, or with       *)
(* restart_syscall: then the kernel goes on with those it was given.       *)
Restart ==
  /\ pc = "interrupted" /\ restarts < Restarts
  /\ Becomes(With(World, rec_prepare_syscall))
  /\ kargs' = IF sc.call.restart = "block" THEN kargs ELSE args'
  /\ restarts' = restarts + 1 /\ pc' = "kernel"
  /\ UNCHANGED <<sc, out, others>>

(* The signal's handler returns, and the call with EINTR. *)
GiveUp ==
  /\ pc = "interrupted"
  /\ pc' = "returned"
  /\ UNCHANGED <<sc, mem, rmem, args, st, out, kargs, others, restarts, ok>>

(* handle_seccomp_trap for a call that was entered already, which a        *)
(* restarted call is.  The registers it sets at the end are those it read  *)
(* at the beginning.                                                       *)
handle_seccomp_trap(w) ==
  LET r == w.args
      v == abort_syscall_results(w)
  IN [v EXCEPT !.st = NoState, !.args = r]

SeccompTrap ==
  /\ pc = "kernel" /\ restarts > 0 /\ sc.seccomp
  /\ Becomes(With(World, handle_seccomp_trap))
  /\ pc' = "returned"
  /\ UNCHANGED <<sc, out, kargs, others, restarts>>

(* Another thread runs when the recorder lets it.  It leaves a pointer     *)
(* alone between an interruption and the restart.                          *)
OtherThreadWrites ==
  /\ pc \in {"kernel", "done", "interrupted"} /\ others < OtherWrites
  /\ st.switchable
  /\ \E a \in sc.shared :
       /\ a \in PointerCells(sc.call) => pc # "interrupted"
       /\ mem' = [mem EXCEPT ![a] = Other]
       /\ rmem' = [rmem EXCEPT ![a] = Other]
  /\ others' = others + 1
  /\ UNCHANGED <<sc, args, st, pc, out, kargs, restarts, ok>>

(* The program goes on. *)
Returned == pc = "returned" /\ UNCHANGED vars

Next == \/ Enter \/ Complete \/ Exit \/ Interrupted \/ Restart \/ GiveUp
        \/ SeccompTrap \/ OtherThreadWrites \/ Returned

Spec == Init /\ [][Next]_vars

-----------------------------------------------------------------------------
InCall == pc \in {"kernel", "done"}
Outputs(c) ==
  (UNION {ParamCells(p) : p \in {q \in Params(c) : q.mode # IN_}} \ PointerCells(c))
  \cup c.also \cup c.at_entry

(* Memory that is not moved: the kernel writes it in place. *)
NotMoved(c) ==
  c.also \cup UNION {ParamCells(p) : p \in {q \in Params(c) : q.mode = IN_OUT_NO_SCRATCH}}

(* No assertion of TaskSyscallState fails: every redirected pointer is in  *)
(* exactly one parameter, every size is known when it is used and no more  *)
(* is shared out than there is, saved data is there to be restored.        *)
AssertionsHold == ok

(* Whenever another task may run, or the program itself does, its memory   *)
(* in the replay is what it was in the recording: all that was written on  *)
(* its behalf has been recorded.                                           *)
ReplayMatches ==
  (~InCall \/ st.switchable) =>
    \A a \in DOMAIN rmem \ (IF InCall THEN NotMoved(sc.call) ELSE {}) : mem[a] = rmem[a]

(* While the call is prepared the program's registers are the entry ones,  *)
(* and a mask changed in place counts as what is kept to restore it.       *)
MutatedInPlace ==
  IF st.scratch_enabled THEN <<>> ELSE SelectSeq(st.params, LAMBDA p : p.mutator)
SavedAt(a) == {i \in DOMAIN MutatedInPlace : MutatedInPlace[i].dest = a}
ProgramMemory ==
  [a \in DOMAIN rmem |-> IF InCall /\ SavedAt(a) # {}
                         THEN st.saved[CHOOSE i \in SavedAt(a) : TRUE] ELSE mem[a]]

Direct == INSTANCE DirectSyscall WITH
            umem <- ProgramMemory,
            uargs <- IF InCall THEN st.entry ELSE args,
            phase <- pc, kout <- out.kout, outs <- Outputs(sc.call)

(* To the program a recorded call is a call: redirecting its parameters,   *)
(* replacing its registers and undoing both leaves no trace.               *)
ImplementsDirectSyscall == Direct!Spec
=============================================================================

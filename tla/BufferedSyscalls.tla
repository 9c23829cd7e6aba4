-------------------------- MODULE BufferedSyscalls --------------------------
(* Buffered system calls of one tracee, first recorded and then replayed:  *)
(* the wrappers of preload/syscallbuf.c with the syscall buffer, and the   *)
(* part of rr that flushes, aborts, resets and reloads the buffer.  What   *)
(* each wrapper redirects is in SyscallWrappers; signals and the order of  *)
(* the tracee's instructions inside a wrapper are in Syscallbuf.           *)
(*                                                                         *)
(* The buffer is a sequence of cells; a record is its syscall number, its  *)
(* result and the redirected parameters.  What the kernel writes for a     *)
(* call is a token of its own, so data of one call never looks like        *)
(* another's.  Behind each of the program's buffers lies one more cell,    *)
(* which is none of the call's business.                                   *)
EXTENDS SyscallWrappers, SequencesExt

CONSTANTS Scenarios,               \* records [program, cap, chaos, forced, traps]
          MPROTECT_RECORD_COUNT

VARIABLES sc,                      \* the scenario: never changes
          phase,                   \* "record" or "replay"
          w,                       \* the tracee and rr's state
          trace,                   \* the recorded frames
          results                  \* what each call left, in the recording

vars == <<sc, phase, w, trace, results>>

RecordHeader == 2
NameSize == 2
TrapRet == 9                       \* the syscall number left in the result register
ENOMEM == 12
EACCES == 13
stored_record_size(n) == 2 * ((n + 1) \div 2)
Least(a, b) == IF a < b THEN a ELSE b

Size(params) == FoldSeq(LAMBDA p, n : n + p.size, 0, params)
Offset(v, c, k) == v.num + RecordHeader + Size(SubSeq(c.params, 1, k - 1))
Put(buf, at, cells) ==
  [j \in DOMAIN buf |-> IF j \in at + 1 .. at + Len(cells) THEN cells[j - at] ELSE buf[j]]
Params(c) == DOMAIN c.params
HasOut(c, rules) == \E k \in Params(c) : c.params[k].out \in rules

-----------------------------------------------------------------------------
(* The kernel *)

Token(v, k, j) == 100 * v.i + 10 * k + j
FileData(i) == <<100 * i + 91, 100 * i + 92>>

(* What the kernel writes for parameter k if the call returns o.ret. *)
KernelCells(v, c, o, k) ==
  LET p == c.params[k]
      n == CASE o.ret < 0 \/ o.mode = "trap" -> 0
             [] p.out \in {"ret", "ret_capped", "word"} -> Least(o.ret, p.size)
             [] p.out = "name" -> Least(o.len, p.size)
             [] p.out = "pointers" -> 0
             [] OTHER -> 1
  IN [j \in 1 .. n |-> IF p.out = "namelen" THEN o.len ELSE Token(v, k, j)]
Outputs(v, c, o) == [k \in Params(c) |-> KernelCells(v, c, o, k)]

WriteUser(mem, c, outputs) ==
  [a \in DOMAIN mem |->
     IF \E k \in Params(c) : c.params[k].arg = a
       THEN Put(mem[a], 0, outputs[CHOOSE k \in Params(c) : c.params[k].arg = a])
       ELSE mem[a]]

(* A call that fails with ENOMEM has changed the pages before the hole it  *)
(* met; one that is refused has changed none (of the one mapping here).    *)
RefusedMprotect(c, ret) == c.name = "mprotect" /\ ret < 0 /\ ret # -ENOMEM

(* The effects that are no memory: a protection, a cloned range.           *)
KernelEffect(v, c, o) ==
  CASE o.mode = "trap" -> v
    [] c.name = "mprotect" /\ ~RefusedMprotect(c, o.ret) -> [v EXCEPT !.prot = v.i]
    [] c.kind = "clone_ioctl" /\ o.ret >= 0 -> [v EXCEPT !.clones = Append(@, v.i)]
    [] OTHER -> v

-----------------------------------------------------------------------------
(* The wrapper *)

Forced(v) == sc.chaos /\ v.i \in sc.forced
force_traced_syscall_for_chaos_mode(v, c) ==
  sc.chaos /\ (c.kind = "futex" \/ (c.chaos /\ Forced(v)))

is_bufferable_fd(v) == ~sc.program[v.i].fd_disabled

start_commit_buffered_syscall(v, c) ==
  v.num + stored_record_size(RecordHeader + Size(c.params)) <= sc.cap - RecordHeader

(* The wrapper makes the call itself, traced. *)
Traced(v, c) ==
  \/ c.kind = "traced"
  \/ force_traced_syscall_for_chaos_mode(v, c)
  \/ c.refuse /\ sc.program[v.i].refused
  \/ c.fd /\ ~is_bufferable_fd(v)
  \/ c.name = "mprotect" /\ v.mprotects >= MPROTECT_RECORD_COUNT
  \/ ~start_commit_buffered_syscall(v, c)

(* In the replay the copy is of the buffer's data onto itself. *)
memcpy_input_parameter(v, buf, at, cells) ==
  IF phase = "replay" THEN buf ELSE Put(buf, at, cells)

prep_syscall(v, c) ==
  LET named == Put(v.buf, v.num, <<c.name>>)
      Fill(buf, k) ==
        LET p == c.params[k] IN
        CASE p.in -> memcpy_input_parameter(v, buf, Offset(v, c, k), SubSeq(v.mem[p.arg], 1, 1))
          [] p.out = "pointers" -> Put(buf, Offset(v, c, k), <<"pointer">>)
          [] OTHER -> buf
  IN [v EXCEPT !.buf = FoldLeft(Fill, named, [k \in Params(c) |-> k])]

(* The kernel's output lands in the buffer, a futex's in the program's.    *)
untraced_syscall(v, c, outputs) ==
  IF HasOut(c, {"futex"}) THEN [v EXCEPT !.mem = WriteUser(@, c, outputs)]
  ELSE [v EXCEPT !.buf = FoldLeft(LAMBDA buf, k : Put(buf, Offset(v, c, k), outputs[k]),
                                  @, [k \in Params(c) |-> k])]

copy_futex_int(v, c) ==
  IF phase = "replay"
    THEN [v EXCEPT !.mem = WriteUser(@, c, [k \in Params(c) |->
                                               SubSeq(v.buf, Offset(v, c, k) + 1, Offset(v, c, k) + 1)])]
    ELSE [v EXCEPT !.buf = FoldLeft(LAMBDA buf, k :
                             Put(buf, Offset(v, c, k), SubSeq(v.mem[c.params[k].arg], 1, 1)),
                             @, [k \in Params(c) |-> k])]

(* Mutant: the sender's name is copied whole, however long. *)
copy_output_uncapped(v, c, ret, k) ==
  LET p == c.params[k]
      NameLen == CHOOSE n \in Params(c) : c.params[n].out = "namelen"
  IN CASE p.out = "always" -> 1
       [] p.out = "pointers" \/ ret < 0 \/ v.failed -> 0
       [] p.out \in {"ok", "namelen"} -> 1
       [] p.out \in {"ret", "word"} -> ret
       [] p.out = "ret_capped" -> Least(ret, p.size)
       [] p.out = "name" -> v.buf[Offset(v, c, NameLen) + 1]

(* How many cells of parameter k are copied back. *)
copy_output_buffer(v, c, ret, k) ==
  LET p == c.params[k]
      NameLen == CHOOSE n \in Params(c) : c.params[n].out = "namelen"
  IN CASE p.out = "always" -> 1
       [] p.out = "pointers" \/ ret < 0 \/ v.failed -> 0
       [] p.out \in {"ok", "namelen"} -> 1
       [] p.out \in {"ret", "word"} -> ret
       [] p.out = "ret_capped" -> Least(ret, p.size)
       [] p.out = "name" -> LET n == v.buf[Offset(v, c, NameLen) + 1]
                            IN IF c.kind = "recvmsg" THEN n ELSE Least(n, NameSize)

(* overrun notes that a recvmsg has copied more of a name than the program *)
(* has room for.                                                           *)
copy_outputs(v, c, ret) ==
  LET Copied(k) == copy_output_buffer(v, c, ret, k)
      TooLong(k) == c.kind = "recvmsg" /\ c.params[k].out = "name" /\ Copied(k) > NameSize
  IN CASE c.kind = "futex" -> copy_futex_int(v, c)
       [] c.kind = "time" -> [v EXCEPT !.mem[1][1] = ret]
       [] OTHER -> [v EXCEPT !.mem = WriteUser(@, c, [k \in Params(c) |->
                               SubSeq(v.buf, Offset(v, c, k) + 1, Offset(v, c, k) + Copied(k))]),
                             !.overrun = @ \/ \E k \in Params(c) : TooLong(k)]

(* A failed recvmsg keeps the cells the wrapper itself wrote. *)
ptr_overwritten_end(c) == RecordHeader + Size(SubSeq(c.params, 1, 2))

(* Where the record ends. *)
record_end(v, c, ret) ==
  LET last == Len(c.params)
      full == RecordHeader + Size(c.params)
  IN CASE c.kind = "recvmsg" /\ (ret < 0 \/ v.failed) -> ptr_overwritten_end(c)
       [] HasOut(c, {"ret", "ret_capped"}) ->
            full - c.params[last].size + copy_output_buffer(v, c, ret, last)
       [] OTHER -> full

commit_raw_syscall(v, c, end, ret) ==
  LET checked == [v EXCEPT !.ok = @ /\ v.buf[v.num + 1] = c.name /\ end >= RecordHeader]
  IN IF v.abort
       THEN [checked EXCEPT !.abort = FALSE, !.failed = FALSE,
                            !.buf = Put(@, v.num + 1, <<0>>)]
       ELSE [checked EXCEPT !.buf = Put(@, v.num + 1, <<ret>>),
                            !.num = @ + stored_record_size(end)]

(* Mutant: a failed mprotect is listed like any other. *)
mprotect_record_unchecked(v, c, ret) ==
  IF c.name # "mprotect" THEN v
  ELSE [v EXCEPT !.mrecs = Append(@, v.i), !.mprotects = @ + 1]

(* The mprotect wrapper lists what it asked for; a refused one as nothing. *)
mprotect_record(v, c, ret) ==
  IF c.name # "mprotect" THEN v
  ELSE [v EXCEPT !.mrecs = IF RefusedMprotect(c, ret) THEN @ ELSE Append(@, v.i),
                 !.mprotects = @ + 1]

Epilogue(v, c, ret) ==
  LET copied == copy_outputs(mprotect_record(v, c, ret), c, ret)
  IN commit_raw_syscall(copied, c, record_end(copied, c, ret), ret)

(* The stages of a call: a read that may be cloned is three calls. *)
Stages(e, v) ==
  IF e.cloned /\ ~e.fd_disabled /\ ~Forced(v) THEN read_cloned ELSE <<e.call>>

Rest(c, todo, ret) ==
  CASE c.kind = "clone_lseek" -> IF ret > 0 THEN Tail(todo) ELSE <<sys_read>>
    [] c.kind = "clone_ioctl" -> IF ret >= 0 THEN Tail(todo) ELSE <<sys_read>>
    [] c.kind = "ptrace" -> IF ret = 2 THEN <<>> ELSE <<ptrace_traced>>
    [] OTHER -> <<>>

(* The program sets up its arguments and calls. *)
SetUp(v) ==
  IF v.i > Len(sc.program) THEN v
  ELSE LET named == HasOut(sc.program[v.i].call, {"namelen"}) IN
       [v EXCEPT !.todo = Stages(sc.program[v.i], v),
                 !.mem[2][1] = IF named THEN NameSize ELSE @,
                 !.direct[2][1] = IF named THEN NameSize ELSE @]

ReturnToProgram(v, c, traced, ret) ==
  LET todo == IF traced /\ c.kind = "ptrace" THEN <<>> ELSE Rest(c, v.todo, ret)
  IN IF todo # <<>> THEN [v EXCEPT !.todo = todo]
     ELSE SetUp([v EXCEPT !.i = @ + 1, !.left = [ret |-> ret, mem |-> v.mem]])

-----------------------------------------------------------------------------
(* rr, recording *)

(* rr's map takes the protection; misled notes that the kernel did not.    *)
protect(v, prot, refused) == [v EXCEPT !.cached = prot, !.misled = refused]

apply_mprotect_records(v, skip) ==
  IF Len(v.mrecs) > skip THEN protect(v, Last(v.mrecs), FALSE) ELSE v

(* An mprotect that rr sees is applied to the map whatever it returned.    *)
on_syscall_exit(v, c, ret) ==
  IF c.name = "mprotect" THEN protect(v, v.i, RefusedMprotect(c, ret)) ELSE v

maybe_flush_syscallbuf(v) ==
  IF v.num = 0 \/ v.flushed # 0
    THEN [v EXCEPT !.ok = @ /\ (v.flushed = 0 \/ v.flushed = v.num)]
    ELSE [apply_mprotect_records(v, 0) EXCEPT
            !.flushed = v.num,
            !.out = Append(@, [k |-> "FLUSH", cells |-> SubSeq(v.buf, 1, v.num)])]

reset_syscallbuf(v) ==
  [v EXCEPT !.buf = Put(@, 0, [j \in 1 .. v.num |-> 0]),
            !.num = 0, !.mrecs = <<>>, !.mprotects = 0]

maybe_reset_syscallbuf(v) ==
  IF v.flushed = 0 THEN v
  ELSE [reset_syscallbuf(v) EXCEPT !.flushed = 0, !.out = Append(@, [k |-> "RESET"])]

Emit(v, f) == [v EXCEPT !.out = Append(@, f)]

record_traced(v, c, o) ==
  LET outputs == Outputs(v, c, o)
      flushed == maybe_flush_syscallbuf(v)
      called == KernelEffect([flushed EXCEPT !.mem = IF c.kind = "time"
                                THEN [@ EXCEPT ![1][1] = o.ret] ELSE WriteUser(@, c, outputs)], c, o)
  IN maybe_reset_syscallbuf(
       Emit(on_syscall_exit(called, c, o.ret),
            [k |-> "SYSCALL", call |-> c, ret |-> o.ret, outputs |-> outputs,
             cells |-> <<>>]))

(* The read that follows a clone stores nothing in the buffer: the data    *)
(* are the file's in the recording, the clone's in the replay.             *)
read_directly(v, c) ==
  IF c.kind # "clone_read" THEN v
  ELSE IF phase = "record" THEN [v EXCEPT !.mem[1] = Put(@, 0, FileData(v.i))]
  ELSE [v EXCEPT !.mem[1] = Put(@, 0, FileData(v.clones[v.clone_pos])), !.clone_pos = @ + 1]

record_buffered(v, c, o) ==
  LET called == untraced_syscall(prep_syscall(v, c), c, Outputs(v, c, o))
  IN Epilogue(read_directly(KernelEffect(called, c, o), c), c, o.ret)

(* The tracee is descheduled in the call: it is recorded as a traced one,  *)
(* with the whole record's data, and the record is aborted.                *)
desched_state_changed(v, c, o) ==
  LET entered == maybe_flush_syscallbuf(prep_syscall(v, c))
      called == KernelEffect(untraced_syscall(entered, c, Outputs(v, c, o)), c, o)
      extra_data == SubSeq(called.buf, v.num + RecordHeader + 1,
                           v.num + RecordHeader + Size(c.params))
      frames == Emit(Emit(called, [k |-> "SYSCALL", call |-> c, ret |-> o.ret,
                                   outputs |-> <<>>, cells |-> extra_data]),
                     [k |-> "ABORT", ret |-> o.ret, failed |-> FALSE])
  IN maybe_reset_syscallbuf(Epilogue([frames EXCEPT !.abort = TRUE], c, o.ret))

(* A seccomp filter of the program's refuses the call with SIGSYS.  The    *)
(* record is aborted with no data, and marked as failed.                   *)
handle_seccomp_trap(v, c, o) ==
  LET entered == maybe_flush_syscallbuf(prep_syscall(v, c))
      frames == Emit(Emit(entered, [k |-> "SYSCALL", call |-> c, ret |-> o.ret,
                                    outputs |-> <<>>, cells |-> <<>>]),
                     [k |-> "ABORT", ret |-> o.ret, failed |-> TRUE])
  IN maybe_reset_syscallbuf(Epilogue([frames EXCEPT !.abort = TRUE, !.failed = TRUE], c, o.ret))

-----------------------------------------------------------------------------
(* What the kernel may answer, and whether the call is descheduled or      *)
(* trapped.                                                                *)
Rets(c) ==
  CASE HasOut(c, {"word"}) -> {-1, 1, 2}
    [] HasOut(c, {"ret", "ret_capped"}) -> {-1, 0, 1, 2}
    [] c.kind = "clone_lseek" -> {-1, 0, 1}
    [] c.kind = "clone_read" -> {2}
    [] c.kind = "time" -> {7}
    [] c.name = "mprotect" -> {-EACCES, -ENOMEM, 0}
    [] OTHER -> {-1, 0}
(* The length of the sender's name, which may be more than there is room   *)
(* for: the kernel then cuts the name, and reports the length it had.      *)
Lens(c) ==
  IF c.name \in {"recvfrom", "recvmsg"} THEN {0, NameSize, NameSize + 1} ELSE {0}
Answers(c) ==
  {o \in [ret : Rets(c), len : Lens(c), mode : {"plain"} \cup
            (IF c.block = MAY_BLOCK /\ c.kind # "clone_read" THEN {"desched"} ELSE {})] :
     o.ret < 0 => o.len = 0}
  \cup (IF c.name \in sc.traps THEN {[ret |-> TrapRet, len |-> 0, mode |-> "trap"]} ELSE {})

(* What the call does to a program that runs without rr.  What a ptrace    *)
(* call leaves after a partial read is not compared.                       *)
Direct(v, c, o, mem) ==
  CASE c.kind = "time" -> [v.direct EXCEPT ![1][1] = o.ret]
    [] c.kind = "clone_read" -> [v.direct EXCEPT ![1] = Put(@, 0, FileData(v.i))]
    [] c.name = "ptrace" -> mem
    [] OTHER -> WriteUser(v.direct, c, Outputs(v, c, o))

syscall_hook(v, c, o) ==
  CASE o.mode = "desched" -> desched_state_changed(v, c, o)
    [] o.mode = "trap" -> handle_seccomp_trap(v, c, o)
    [] OTHER -> record_buffered(v, c, o)

Recording == phase = "record" /\ w.i <= Len(sc.program)

RecordCall(traced) ==
  /\ Recording
  /\ LET c == Head(w.todo) IN
     /\ Traced(w, c) = traced
     /\ \E o \in Answers(c) :
          /\ traced => o.mode = "plain"
          /\ \E done \in {IF traced THEN record_traced(w, c, o) ELSE syscall_hook(w, c, o)} :
             \E next \in {ReturnToProgram([done EXCEPT !.direct = Direct(w, c, o, done.mem)],
                                           c, traced, o.ret)} :
               /\ w' = next
               /\ results' = IF next.i > w.i THEN Append(results, next.left) ELSE results
  /\ UNCHANGED <<sc, phase, trace>>
RecordTraced == RecordCall(TRUE)
RecordBuffered == RecordCall(FALSE)

(* Any other event of the tracee flushes the buffer. *)
RecordEvent ==
  /\ Recording
  /\ w.num > 0
  /\ w' = maybe_reset_syscallbuf(maybe_flush_syscallbuf(w))
  /\ UNCHANGED <<sc, phase, trace, results>>

Start(s, clones) ==
  [i |-> 1, todo |-> <<>>, buf |-> [j \in 1 .. s.cap |-> 0], num |-> 0, flushed |-> 0,
   mrecs |-> <<>>, mprotects |-> 0, prot |-> 0, cached |-> 0, misled |-> FALSE, overrun |-> FALSE,
   mem |-> [a \in 1 .. 3 |-> <<0, 0, 0>>], direct |-> [a \in 1 .. 3 |-> <<0, 0, 0>>],
   clones |-> clones, clone_pos |-> 1, abort |-> FALSE, failed |-> FALSE,
   left |-> <<>>, out |-> <<>>, target |-> 0, ok |-> TRUE]

(* The program exits; its trace is replayed. *)
RecordExit ==
  /\ phase = "record"
  /\ w.i > Len(sc.program)
  /\ trace' = maybe_reset_syscallbuf(maybe_flush_syscallbuf(w)).out
  /\ phase' = "replay"
  /\ w' = SetUp(Start(sc, w.clones))
  /\ UNCHANGED <<sc, results>>

-----------------------------------------------------------------------------
(* rr, replaying; the frames are consumed from the front of the trace.     *)

Replaying == phase = "replay" /\ w.ok

(* The recorded cells are put back, and the tracee runs until it has       *)
(* committed as many.                                                      *)
prepare_syscallbuf_records ==
  /\ Replaying
  /\ w.target = 0
  /\ trace # <<>> /\ Head(trace).k = "FLUSH"
  /\ w' = [w EXCEPT !.buf = Put(@, 0, Head(trace).cells), !.target = Len(Head(trace).cells)]
  /\ trace' = Tail(trace)
  /\ UNCHANGED <<sc, phase, results>>

replay_reset ==
  /\ Replaying
  /\ w.target = 0
  /\ trace # <<>> /\ Head(trace).k = "RESET"
  /\ w' = reset_syscallbuf(w)
  /\ trace' = Tail(trace)
  /\ UNCHANGED <<sc, phase, results>>

(* A buffered call, the result taken from the record. *)
flush_syscallbuf ==
  /\ Replaying
  /\ w.target > 0
  /\ LET c == Head(w.todo)
         prepared == prep_syscall(w, c)
         ret == w.buf[w.num + 2]
         redone == IF c.name = "mprotect" THEN KernelEffect(prepared, c, [ret |-> ret, mode |-> "plain"])
                   ELSE prepared
         \* the records just completed are applied
         done == apply_mprotect_records(Epilogue(read_directly(redone, c), c, ret), Len(w.mrecs))
     IN IF w.i > Len(sc.program) \/ Traced(w, c) THEN w' = [w EXCEPT !.ok = FALSE]
        ELSE \E v \in {done} :
               w' = ReturnToProgram([v EXCEPT !.ok = @ /\ v.num <= w.target,
                                       !.target = IF v.num = @ THEN 0 ELSE @], c, FALSE, ret)
  /\ UNCHANGED <<sc, phase, trace, results>>

(* A call with frames of its own: a traced one, or one whose record was    *)
(* aborted.                                                                *)
enter_syscall ==
  /\ Replaying
  /\ w.target = 0
  /\ trace # <<>> /\ Head(trace).k = "SYSCALL"
  /\ LET f == Head(trace)
         c == Head(w.todo)
         aborted == Len(trace) > 1 /\ trace[2].k = "ABORT"
         applied == [w EXCEPT !.mem = IF c.kind = "time" THEN [@ EXCEPT ![1][1] = f.ret]
                                      ELSE WriteUser(@, c, f.outputs)]
         redone == IF c.name # "mprotect" THEN applied
                   ELSE KernelEffect(applied, c, [ret |-> f.ret, mode |-> "plain"])
         prepared == prep_syscall(w, c)
         restored == [prepared EXCEPT
                        !.buf = Put(Put(@, w.num + RecordHeader, f.cells), w.num + 1, <<trace[2].ret>>),
                        !.abort = TRUE, !.failed = trace[2].failed]
         diverged == w.i > Len(sc.program) \/ f.call # c \/ Traced(w, c) = aborted
     IN /\ w' = IF diverged THEN [w EXCEPT !.ok = FALSE]
                ELSE IF aborted
                  THEN ReturnToProgram(Epilogue(restored, c, restored.buf[w.num + 2]), c, FALSE, f.ret)
                ELSE ReturnToProgram(on_syscall_exit(redone, c, f.ret), c, TRUE, f.ret)
        /\ trace' = SubSeq(trace, IF aborted THEN 3 ELSE 2, Len(trace))
  /\ UNCHANGED <<sc, phase, results>>

(* The replay has ended, or an assertion has. *)
Ended ==
  /\ phase = "replay"
  /\ ~w.ok \/ (trace = <<>> /\ w.target = 0)
  /\ UNCHANGED vars

Init ==
  /\ sc \in Scenarios
  /\ phase = "record"
  /\ w = SetUp(Start(sc, <<>>))
  /\ trace = <<>>
  /\ results = <<>>

Next ==
  \/ RecordTraced \/ RecordBuffered \/ RecordEvent \/ RecordExit
  \/ prepare_syscallbuf_records \/ replay_reset \/ flush_syscallbuf \/ enter_syscall
  \/ Ended

Spec == Init /\ [][Next]_vars

-----------------------------------------------------------------------------
(* The fatal errors and assertions of both sides: a committed record is    *)
(* the one that was started, the buffer does not change between its flush  *)
(* and its reset, the wrapper takes the same path in the replay as in the  *)
(* recording, and the records of a flush end where they did.               *)
AssertionsHold == w.ok

(* One cell is excepted below: the one behind the buffer for a sender's    *)
(* name.  When the kernel has cut a name, sys_recvmsg copies its full      *)
(* length (syscallbuf.c:2163; sys_recvfrom does not), and so into that     *)
(* cell what lies behind the name in the record or even behind the record. *)
Overrun(a, j) == w.overrun /\ a = 1 /\ j > NameSize
SameMemory(m, n) == \A a \in DOMAIN m : \A j \in DOMAIN m[a] : Overrun(a, j) \/ m[a][j] = n[a][j]

(* The replay gives the program what the recording gave it: whenever a     *)
(* call returns in the replay, its result and all of the program's buffers *)
(* (but for the overrun cell) are what they were when it returned in the   *)
(* recording, however the buffer was flushed, aborted and reset meanwhile. *)
ReplayMatches ==
  phase = "replay" /\ w.i > 1 =>
    /\ w.left.ret = results[w.i - 1].ret
    /\ SameMemory(w.left.mem, results[w.i - 1].mem)

(* The buffer is invisible to the program: in the recording every call     *)
(* leaves its memory (but for the overrun cell) as the kernel would have   *)
(* without rr, whether it was buffered, traced, descheduled or trapped,    *)
(* and whether or not the kernel had to cut what it returned.              *)
AsWithoutBuffer ==
  phase = "record" => SameMemory(w.mem, w.direct)

(* rr knows the protections the tracee set without telling it, whenever    *)
(* it has flushed, and in the replay at every stop: its map has the        *)
(* kernel's protection, unless the last mprotect applied to it was a       *)
(* traced one that the kernel refused, which is applied too                *)
(* (Task.cc:293, 324).                                                     *)
ProtectionsKnown ==
  (w.mprotects = 0 \/ phase = "replay") /\ ~w.misled => w.cached = w.prot
=============================================================================

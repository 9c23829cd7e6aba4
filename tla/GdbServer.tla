------------------------------ MODULE GdbServer ------------------------------
(* GdbServer.cc and DiversionSession.cc: rr as gdb's remote target.  gdb,   *)
(* which is external, sends packets over a connection that may hold them    *)
(* back and split them; the server answers from the replay, runs it forward *)
(* or backward, restarts it, and serves calls of gdb in a diversion, a copy *)
(* of the replay that may be changed.                                       *)
(*                                                                          *)
(* The replay is a fixed trace, a sequence of frames [tid, kind, ip, sig]:  *)
(* position p of the timeline is the point before frame p.  What            *)
(* ReplayTimeline does to get from one position to another is the subject   *)
(* of the module of that name.                                              *)
EXTENDS GdbConnection, GdbExpression, FiniteSetsExt, TLC

CONSTANTS Scenarios,          \* the debugging sessions to explore
          Splits,             \* tokens after which the network may cut
          MaxDiversionSteps,  \* steps a diversion takes before it stops or exits
          NumSymbols          \* symbols the thread library asks gdb for

VARIABLES w,      \* the server
          wire,   \* what gdb has sent and the socket has not yet delivered
          gdb,    \* gdb
          scen    \* the session
vars == <<w, wire, gdb, scen>>

None == 0

-----------------------------------------------------------------------------
(* The trace. *)
Trace == scen.trace
Positions == 1..(Len(Trace) + 1)
End == Len(Trace) + 1
tgid(t) == scen.tgid[t]
Debuggee == scen.debuggee
Tasks == DOMAIN scen.tgid
Alive(p) ==              \* a task is created just before its first frame
  {t \in Tasks : /\ \E q \in 1..Min({p, Len(Trace)}) : Trace[q].tid = t
                 /\ ~ \E q \in 1..(p - 1) : Trace[q].kind = "exit" /\ Trace[q].tid = t}
current_task(p) == IF p < End THEN Trace[p].tid ELSE None
LastOfGroup(t, p) == \A u \in Alive(p) : tgid(u) = tgid(t) => u = t
InExec(p) == p < End /\ Trace[p].kind = "exec"

(* The state of the replay that gdb can see at a position. *)
ReplayAt(p) == [pos |-> p, div |-> FALSE, mem |-> 0]

(* A breakpoint at the position that the running task has reached, whose    *)
(* condition holds there: timeline.add_breakpoint, evaluate_conditions.     *)
Memory(p) == 0 :> p @@ 1 :> 300
Hits(bps, p) == {b \in bps : p < End /\ b.addr = Trace[p].ip}
Reached(p) == p > 1 /\ p < End /\ Trace[p - 1].tid = Trace[p].tid
BreakpointHits(bps) ==
  {p \in Positions : Reached(p) /\ \E b \in Hits(bps, p) :
                       breakpoint_condition(b.cond, Memory(p), 0 :> Trace[p].ip)}

-----------------------------------------------------------------------------
(* Steps of the timeline.  A break status has the task that ran, and what   *)
(* stopped it; exited stands for REPLAY_EXITED.                             *)
Status(p, task) ==
  [pos |-> p, task |-> task, bp |-> FALSE, step |-> FALSE, sig |-> 0, exit |-> FALSE,
   exited |-> FALSE, setup |-> FALSE]

(* A task that is about to exit is reported first, and exits in the step    *)
(* after that.  hits has the positions at which a breakpoint is hit.        *)
StepFrom(p, setup, command, hits) ==
  LET f == Trace[p] IN
  IF p = End THEN [Status(p, None) EXCEPT !.exited = TRUE]
  ELSE IF f.kind = "exit" THEN
    IF setup THEN Status(p + 1, None)
    ELSE [Status(p, f.tid) EXCEPT !.exit = TRUE, !.setup = TRUE]
  ELSE [Status(p + 1, f.tid) EXCEPT !.bp = p + 1 \in hits, !.sig = f.sig, !.step = command = "step"]

(* A breakpoint whose condition fails is stepped over at once. *)
replay_step_forward(v, command, hits) ==
  LET r == StepFrom(v.pos, v.setup, command, hits)
      passed == Reached(r.pos) /\ Hits(v.bps, r.pos) # {} /\ r.pos > v.pos
                /\ ~r.bp /\ r.sig = 0 /\ ~r.step
  IN IF passed THEN StepFrom(r.pos, FALSE, "continue", hits) ELSE r

(* Positions before p at which a reverse continue stops: breakpoints and    *)
(* signals in the tasks stop_filter accepts, and the start of the debuggee, *)
(* where reverse execution ends with a task_exit status.                    *)
Barrier == scen.barrier
ReverseStops(p, filter, hits) ==
  {Barrier} \union {q \in Barrier..(p - 1) : Trace[q].tid \in filter /\ (q \in hits \/ Trace[q].sig # 0)}

ReverseStatus(q, hits) ==
  IF q = Barrier THEN [Status(q, current_task(q)) EXCEPT !.exit = TRUE]
  ELSE [Status(q, Trace[q].tid) EXCEPT !.bp = q \in hits, !.sig = Trace[q].sig]

Interrupted(v) ==
  {Status(q, current_task(q)) : q \in IF sniff_packet(v.c) THEN Barrier..v.pos ELSE {}}

reverse_continue(v, filter, hits) ==
  {ReverseStatus(Max(ReverseStops(v.pos, filter, hits)), hits)} \union Interrupted(v)

(* Back to the last position at which the task ran, unless another task     *)
(* that gdb cares about breaks on the way.                                  *)
reverse_singlestep(v, t, filter, hits) ==
  LET q == Max({Barrier} \union {o \in Barrier..(v.pos - 1) : Trace[o].tid = t /\ t \in filter})
      broken == \E o \in ReverseStops(v.pos, filter \ {t}, hits) : o > q
  IN IF broken THEN reverse_continue(v, filter, hits)
     ELSE {IF q = Barrier THEN ReverseStatus(q, hits) ELSE [Status(q, t) EXCEPT !.step = TRUE]}

(* The mark one step back, where the timeline knows it without replaying.   *)
lazy_reverse_singlestep(v, p, t) ==
  IF p > Barrier + 1 /\ p < End /\ Trace[p - 1].tid = t /\ Trace[p].tid = t /\ Trace[p - 1].sig = 0
     /\ ~ \E b \in v.bps : b.addr = Trace[p].ip
  THEN {p - 1} ELSE {}

(* Explicit checkpoints, counted for each mark. *)
add_explicit_checkpoint(v, p) == [v EXCEPT !.refs[p] = @ + 1]
remove_explicit_checkpoint(v, p) ==
  IF v.refs[p] > 0 THEN [v EXCEPT !.refs[p] = @ - 1] ELSE Fail(v, "checkpoint refcount")
can_add_checkpoint(p) == ~InExec(p)

Seek(v, p) == [v EXCEPT !.pos = p, !.setup = FALSE]

-----------------------------------------------------------------------------
(* The sessions.  While a diversion is active it answers gdb's requests.    *)
NoDiversion == [active |-> FALSE, refcount |-> 0, saved |-> None, alive |-> {}, bps |-> {},
                mem |-> 0, steps |-> 0]
Diverting(v) == v.div.active
SessionTasks(v) == IF Diverting(v) THEN v.div.alive ELSE Alive(v.pos)
find_task(v, t) == IF t \in SessionTasks(v) THEN t ELSE None

(* What gdb sees of the session. *)
View(v) ==
  IF Diverting(v) THEN [pos |-> v.div.steps, div |-> TRUE, mem |-> v.div.mem] ELSE ReplayAt(v.pos)

ThreadOf(t) == Thread(tgid(t), t)
get_threadid(v, t) == Thread(IF find_task(v, t) = None THEN 0 ELSE tgid(t), t)
matches_threadid(t, target) == target.pid \in {0, -1, tgid(t)} /\ target.tid \in {0, -1, t}

(* The answer to a question about a task. *)
About(v, t, at) == [thread |-> t, at |-> at]

-----------------------------------------------------------------------------
(* maybe_notify_stop.  r is the break status, at what gdb will see.         *)
is_last_thread_exit(v, r) == r.exit /\ LastOfGroup(r.task, v.pos)

StopSignal(v, req, r) ==
  IF InExec(v.pos) THEN 0
  ELSE IF is_last_thread_exit(v, r) THEN (IF req.dir = "forward" THEN 9 ELSE 0)
  ELSE IF r.sig # 0 THEN r.sig ELSE 5

maybe_notify_stop(v, req, r, at) ==
  LET do_stop == r.bp \/ r.step \/ r.sig # 0 \/ is_last_thread_exit(v, r) \/ InExec(v.pos)
      t == IF InExec(v.pos) THEN current_task(v.pos) ELSE r.task
      sig == StopSignal(v, req, r)
      told == notify_stop([v EXCEPT !.sig = sig], ThreadOf(t), sig, at)
  IN IF ~do_stop THEN v
     ELSE IF tgid(t) # Debuggee THEN [v EXCEPT !.sig = sig]
     ELSE [told EXCEPT !.lq = t, !.lc = t]

compute_run_command_from_actions(t, req) ==
  LET mine == SelectSeq(req.actions, LAMBDA a : matches_threadid(t, a.target))
  IN IF mine # <<>> /\ mine[1].type = "step" THEN "step" ELSE "continue"

(* The tasks whose stops a reverse execution reports, and its command.      *)
ReverseActions(req) == {a \in Range(req.actions) : a.target.pid \in {0, -1, Debuggee}}
compute_run_command_for_reverse_exec(req) ==
  IF \E a \in ReverseActions(req) : a.type = "step" THEN "step" ELSE "continue"
AllowedTasks(v, req) ==
  {t \in Tasks : /\ tgid(t) = Debuggee
                 /\ \E a \in ReverseActions(req) : a.target.tid \in {0, -1, t}
                                                  \/ a.target.tid \notin Alive(v.pos)}

-----------------------------------------------------------------------------
(* search_memory reads a page at a time, and a little more for a match that *)
(* crosses its end.  m has the mappings, the readable bytes, the range to   *)
(* search and the bytes to find.                                            *)
PageSize == 2
NextPage(a) == (a \div PageSize + 1) * PageSize
read_bytes_fallible(m, a, n) ==
  LET unreadable == {i \in 0..(n - 1) : a + i \notin DOMAIN m.bytes}
      nread == IF unreadable = {} THEN n ELSE Min(unreadable)
  IN [i \in 1..nread |-> m.bytes[a + i - 1]]
memmem(buf, find) == {i \in 1..(Len(buf) - Len(find) + 1) : SubSeq(buf, i, i + Len(find) - 1) = find}

RECURSIVE SearchPages(_, _, _)
SearchPages(m, lo, hi) ==
  LET size == PageSize + Len(m.find) - 1
      buf == read_bytes_fallible(m, lo, IF hi - lo < size THEN hi - lo ELSE size)
      found == memmem(buf, m.find)
  IN IF hi - lo < Len(m.find) THEN None
     ELSE IF found # {} THEN lo + Min(found) - 1
     ELSE SearchPages(m, IF hi < NextPage(lo) THEN hi ELSE NextPage(lo), hi)

(* A match may start in the mapping and end behind it. *)
SearchEnd(m, map) == Min({map.end + Len(m.find) - 1, m.hi})

RECURSIVE SearchMaps(_, _)
SearchMaps(m, maps) ==
  IF maps = <<>> THEN None
  ELSE LET map == Head(maps)
           lo == Max({map.start, m.lo})
           r == SearchPages(m, lo, Max({lo, SearchEnd(m, map)}))
       IN IF r # None THEN r ELSE SearchMaps(m, Tail(maps))
search_memory(m) == SearchMaps(m, m.maps)

-----------------------------------------------------------------------------
(* GdbCommand.cc: rr's own commands.  Most of them do not work in a         *)
(* diversion and end it; a checkpoint is taken of the replay in any case.   *)
EndsDiversion == {"when", "back", "forward"}

(* A checkpoint: its mark, the task that was continued, and whether the     *)
(* timeline holds a copy of the session for it.                             *)
Checkpoint(v) == [mark |-> v.pos, lc |-> v.lc, explicit |-> can_add_checkpoint(v.pos)]
HoldCheckpoint(v) == IF can_add_checkpoint(v.pos) THEN add_explicit_checkpoint(v, v.pos) ELSE v

invoke_checkpoint(v) ==
  [HoldCheckpoint(v) EXCEPT !.next = @ + 1, !.checkpoints = (v.next :> Checkpoint(v)) @@ @]
invoke_delete_checkpoint(v, id) ==
  LET cp == v.checkpoints[id]
      v1 == IF cp.explicit THEN remove_explicit_checkpoint(v, cp.mark) ELSE v
  IN IF id \notin DOMAIN v.checkpoints THEN v
     ELSE [v1 EXCEPT !.checkpoints = [i \in DOMAIN @ \ {id} |-> @[i]]]

(* The history: marks behind, the current one, marks ahead. *)
rr_history_push(v) ==
  [v EXCEPT !.back = IF v.current = None THEN @ ELSE Append(@, v.current),
            !.current = v.pos, !.ahead = <<>>]
GoTo(v, back, mark, ahead) == Seek([v EXCEPT !.back = back, !.current = mark, !.ahead = ahead], mark)
history_back(v) ==
  IF v.back = <<>> THEN v ELSE GoTo(v, Front(v.back), Last(v.back), Append(v.ahead, v.current))
history_forward(v) ==
  IF v.ahead = <<>> THEN v ELSE GoTo(v, Append(v.back, v.current), Last(v.ahead), Front(v.ahead))

Invoke(v, cmd) ==
  CASE cmd.name = "checkpoint" -> invoke_checkpoint(v)
    [] cmd.name = "delete checkpoint" -> invoke_delete_checkpoint(v, cmd.id)
    [] cmd.name = "rr-history-push" -> IF Diverting(v) THEN v ELSE rr_history_push(v)
    [] cmd.name = "back" -> history_back(v)
    [] cmd.name = "forward" -> history_forward(v)
    [] OTHER -> v              \* when, info checkpoints, unknown commands
rr_cmd(v, req) == LET v1 == Invoke(v, req.cmd) IN Reply(v1, "RR_CMD", About(v1, None, View(v1)))

-----------------------------------------------------------------------------
(* dispatch_debugger_request: requests that leave the position alone.       *)
(* First those that need no target task.                                    *)
Untargeted == {"GET_CURRENT_THREAD", "GET_OFFSETS", "GET_THREAD_LIST", "INTERRUPT",
               "GET_EXEC_FILE", "FILE_SETFS", "FILE_OPEN", "FILE_PREAD", "FILE_CLOSE"}

(* A file gets the lowest free number; only the maps of a task can be read. *)
FreeFd(v) == CHOOSE n \in 0..Cardinality(v.files) : n \notin v.files /\ \A m \in 0..(n - 1) : m \in v.files
open_file(v, task) ==
  IF find_task(v, task) = None THEN Reply(v, "FILE_OPEN", "ENOENT")
  ELSE Reply([v EXCEPT !.files = @ \union {FreeFd(v)}], "FILE_OPEN", FreeFd(v))

interrupt_diversion(v) ==
  LET t == find_task(v, v.lc)
      checked == Require(v, Diverting(v), "interrupt of the replay in dispatch")
      told == notify_stop(checked, IF t = None THEN AnyThread ELSE ThreadOf(t), 0, View(v))
      sel == IF t = None THEN v.lq ELSE t
  IN [told EXCEPT !.sig = 0, !.lq = sel]

dispatch_untargeted(v, req, dead) ==
  CASE req.type = "GET_CURRENT_THREAD" -> Reply(v, req.type, get_threadid(v, v.lc))
    [] req.type = "GET_OFFSETS" -> Reply(v, req.type, "")
    [] req.type = "GET_THREAD_LIST" ->
         Reply(v, req.type, IF dead THEN {} ELSE {t \in SessionTasks(v) : tgid(t) = v.c.tgid})
    [] req.type = "INTERRUPT" -> interrupt_diversion(v)
    [] req.type = "GET_EXEC_FILE" ->
         Reply(v, req.type, IF req.target = 0 THEN find_task(v, v.lc) # None
                            ELSE \E t \in SessionTasks(v) : tgid(t) = req.target)
    [] req.type = "FILE_SETFS" -> Reply(v, req.type, "F0")
    [] req.type = "FILE_OPEN" -> open_file(v, req.arg)
    [] req.type = "FILE_PREAD" -> Reply(v, req.type, req.arg \in v.files)
    [] req.type = "FILE_CLOSE" -> Reply([v EXCEPT !.files = @ \ {req.arg}], req.type, req.arg \in v.files)

(* The target is the thread named, or the one selected last, and is then    *)
(* the selected one.                                                        *)
Target(v, req) ==
  find_task(v, IF req.target.tid > 0 THEN req.target.tid
               ELSE IF req.type = "SET_CONTINUE_THREAD" THEN v.lc ELSE v.lq)
SelectTarget(v, req) ==
  LET t == Target(v, req) IN
  IF t = None THEN v
  ELSE IF req.type = "SET_CONTINUE_THREAD" THEN [v EXCEPT !.lc = t] ELSE [v EXCEPT !.lq = t]

Selecting == {"GET_IS_THREAD_ALIVE", "GET_THREAD_EXTRA_INFO", "SET_CONTINUE_THREAD",
              "SET_QUERY_THREAD"}
dispatch_selecting(v, req, t) ==
  CASE req.type = "GET_IS_THREAD_ALIVE" -> Reply(v, req.type, IF t = None THEN "E01" ELSE "OK")
    [] req.type = "GET_THREAD_EXTRA_INFO" ->
         IF t = None THEN Fail(v, "name of no task") ELSE Reply(v, req.type, t)
    [] OTHER -> reply_select_thread(v, t # None)

(* Breakpoints go to the timeline, and to a diversion as well. *)
Breakpoint(req) == [addr |-> req.addr, cond |-> req.cond]
set_break(v, req, t) ==
  LET b == {Breakpoint(req)}
      v1 == Require(v, t \in Alive(v.pos), "breakpoint for a task only the diversion has")
  IN Reply([v1 EXCEPT !.bps = @ \union b, !.div.bps = IF Diverting(v) THEN @ \union b ELSE @],
           req.type, "OK")
(* Removal names an address only. *)
remove_break(v, req, t) ==
  LET Without(bps) == {b \in bps : b.addr # req.addr}
      v1 == Require(v, t \in Alive(v.pos), "breakpoint for a task only the diversion has")
  IN Reply([v1 EXCEPT !.bps = Without(@), !.div.bps = Without(@)], req.type, "OK")

(* Memory and registers are only written in a diversion.  gdb's write of    *)
(* the original system call number is ignored elsewhere.                    *)
set_mem(v, req) ==
  IF req.len = 0 THEN Reply(v, req.type, "OK")
  ELSE IF ~Diverting(v) THEN Reply(v, req.type, "E01")
  ELSE Reply([v EXCEPT !.div.mem = 1], req.type, "OK")
set_reg(v, req) ==
  IF ~Diverting(v) THEN Reply(v, req.type, IF req.orig THEN "OK" ELSE "")
  ELSE Reply([v EXCEPT !.div.mem = 1], req.type, "OK")

(* gdb is asked for one symbol at a time; an empty name starts over. *)
qsymbol(v, req) ==
  LET left == IF req.name = "" THEN NumSymbols ELSE v.syms IN
  Reply([v EXCEPT !.syms = IF left = 0 THEN 0 ELSE left - 1], req.type,
        IF left = 0 THEN "OK" ELSE "qSymbol")

Questions == {"GET_AUXV", "GET_MEM", "GET_REG", "GET_REGS", "TLS"}
dispatch_targeted(v, req, t) ==
  CASE req.type \in Questions -> Reply(v, req.type, About(v, t, View(v)))
    [] req.type = "SET_MEM" -> set_mem(v, req)
    [] req.type = "SET_REG" -> set_reg(v, req)
    [] req.type = "SEARCH_MEM" -> Reply(v, req.type, search_memory(req.mem))
    [] req.type = "GET_STOP_REASON" ->
         consume_request(send_stop_reply_packet(v, get_threadid(v, v.lc), v.sig, View(v)))
    [] req.type = "SET_BREAK" -> set_break(v, req, t)
    [] req.type = "REMOVE_BREAK" -> remove_break(v, req, t)
    [] req.type \in {"READ_SIGINFO", "WRITE_SIGINFO"} -> Reply(v, req.type, "siginfo")
    [] req.type = "RR_CMD" -> rr_cmd(v, req)
    [] req.type = "QSYMBOL" -> qsymbol(v, req)
    [] OTHER -> Fail(v, "unknown request")

dispatch_debugger_request(v, req, dead) ==
  LET t == Target(v, req)
      sel == SelectTarget(v, req)
  IN IF req.type \in Untargeted THEN dispatch_untargeted(v, req, dead)
     ELSE IF req.type \in Selecting THEN dispatch_selecting(sel, req, t)
     ELSE IF t = None THEN notify_no_such_thread(v)
     ELSE dispatch_targeted(sel, req, t)

-----------------------------------------------------------------------------
(* debug_one_step.  pc tells where the server is:                           *)
(*   serve      at the top of the loop                                      *)
(*   requests   in process_debugger_requests, called by debug_one_step (ret *)
(*              "step"), at the end of the debuggee ("end") or after the    *)
(*              end of the trace ("exited")                                 *)
(*   lazy       waiting for a request after a lazy reverse step             *)
(*   divert     waiting for a request in a diversion                        *)
(*   diverted   with the request that a diversion has ended on              *)
(*   run, step_diversion, restart   about to do what cur asks for           *)
(*   closed     the debugger has gone                                       *)
detach_or_restart(v, req) ==
  [v EXCEPT !.lrr = NoReq, !.cur = req, !.pc = IF req.type = "RESTART" THEN "restart" ELSE "closed"]
Leaving(req) == req.type \in {"RESTART", "DETACH"}

handle_exited_state(v) ==
  [notify_exit_code(v) EXCEPT !.fin = v.pos, !.pc = "requests", !.ret = "exited"]

(* An interrupt stops the replay at once if a task of the debuggee is next; *)
(* otherwise the replay goes on until one is.                               *)
StopForInterrupt(v) ==
  LET t == current_task(v.pos)
      told == notify_stop(v, ThreadOf(t), IF v.end THEN 9 ELSE 0, ReplayAt(v.pos))
  IN [told EXCEPT !.ip = FALSE, !.sig = 0, !.pc = "serve"]

HandleRequest(v, req) ==
  LET v1 == IF is_resume_request(req) THEN [v EXCEPT !.lrr = req]
            ELSE Require([v EXCEPT !.ip = TRUE], req.type = "INTERRUPT", "not an interrupt")
      v2 == Require(v1, is_resume_request(v1.lrr), "interrupt with nothing to resume")
      t == current_task(v.pos)
  IN IF Leaving(req) THEN detach_or_restart(v, req)
     ELSE IF v2.failed # "no" THEN v2
     ELSE IF v2.ip /\ t = None THEN Fail(v2, "no current task")
     ELSE IF v2.ip /\ tgid(t) = Debuggee THEN StopForInterrupt(v2)
     ELSE [v2 EXCEPT !.cur = v2.lrr, !.pc = "run"]

(* At the end of the debuggee a request to go on is answered as if it had   *)
(* exited, except for the stop that is due after a restart.                 *)
HandleRequestAtEnd(v, req) ==
  IF is_resume_request(req) /\ req.dir = "forward"
  THEN IF v.ip THEN HandleRequest(v, req) ELSE handle_exited_state(v)
  ELSE HandleRequest([v EXCEPT !.end = @ /\ req.type = "DETACH"], req)

Return(v, req) ==
  CASE v.ret = "step" -> HandleRequest(v, req)
    [] v.ret = "end" -> HandleRequestAtEnd(v, req)
    [] v.ret = "exited" -> IF Leaving(req) THEN detach_or_restart(v, req)
                           ELSE Fail(v, "continue or interrupt after the end of the trace")

-----------------------------------------------------------------------------
(* process_debugger_requests, once a request has come.                      *)
divert(v) ==
  [v EXCEPT !.pc = "divert",
            !.div = [active |-> TRUE, refcount |-> 1, saved |-> v.lq, alive |-> Alive(v.pos),
                     bps |-> v.bps, mem |-> 0, steps |-> 0]]

ProcessRequest(v, req) ==
  CASE req.type = "READ_SIGINFO" -> divert(Reply(v, req.type, [siginfo |-> v.sig]))
    [] is_resume_request(req) \/ req.type \in {"INTERRUPT", "RESTART", "DETACH"} ->
         Return(IF req.type = "DETACH" THEN Reply(v, req.type, "OK") ELSE v, req)
    [] OTHER -> [dispatch_debugger_request(v, req, v.ret = "exited") EXCEPT !.pc = "requests"]

(* try_lazy_reverse_singlesteps: a reverse step of the current task may be  *)
(* answered with a mark that the timeline knows.  Registers are read from   *)
(* it; for any other request the timeline goes there first.                 *)
LazyStep(v, p, req) ==
  LET t == current_task(v.pos) IN
  IF /\ t # None /\ is_resume_request(req) /\ req.dir = "back" /\ Len(req.actions) = 1
     /\ req.actions[1].type = "step" /\ matches_threadid(t, req.actions[1].target)
  THEN lazy_reverse_singlestep(v, p, t) ELSE {}

TakeLazyStep(v, req, q) ==
  LET t == current_task(v.pos)
      r == [Status(v.pos, t) EXCEPT !.step = TRUE]
  IN [maybe_notify_stop(v, req, r, ReplayAt(q)) EXCEPT !.pc = "lazy", !.now = q]

(* Mutant: the timeline is left where an internal question took it. *)
GotRequest_noseek(v, req) ==
  LET steps == LazyStep(v, IF v.pc = "lazy" THEN v.now ELSE v.pos, req)
      on == {TakeLazyStep(v, req, q) : q \in steps}
      off == ProcessRequest([v EXCEPT !.now = None], req)
  IN IF v.pc = "lazy" /\ req.type = "GET_REGS"
     THEN {Reply(v, "GET_REGS", About(v, v.lq, ReplayAt(v.now)))}
     ELSE on \union {off}

(* The timeline may or may not know the mark. *)
GotRequest(v, req) ==
  LET steps == LazyStep(v, IF v.pc = "lazy" THEN v.now ELSE v.pos, req)
      on == {TakeLazyStep(v, req, q) : q \in steps}
      there == IF v.pc = "lazy" THEN [Seek(v, v.now) EXCEPT !.now = None] ELSE v
  IN IF v.pc = "lazy" /\ req.type = "GET_REGS"
     THEN {Reply(v, "GET_REGS", About(v, v.lq, ReplayAt(v.now)))}
     ELSE on \union {ProcessRequest(there, req)}

-----------------------------------------------------------------------------
(* Diversions.  When one ends, the request it could not handle is processed *)
(* by the replay; NONE stands for no request, and another is awaited.       *)
EndDiversion(v, req) ==
  [v EXCEPT !.div = NoDiversion, !.lq = v.div.saved,
            !.pc = IF req.type = "NONE" THEN "requests" ELSE "diverted"]

diverter_process_debugger_requests(v, req) ==
  LET rc == v.div.refcount IN
  CASE is_resume_request(req) ->
         IF rc > 0 THEN [v EXCEPT !.cur = req, !.pc = "step_diversion"] ELSE EndDiversion(v, req)
    [] Leaving(req) -> EndDiversion(v, req)
    [] req.type = "READ_SIGINFO" ->
         Reply([v EXCEPT !.div.refcount = rc + 1], req.type, [siginfo |-> 0])
    [] req.type = "WRITE_SIGINFO" ->
         Reply([Require(v, rc > 0, "diversion refcount") EXCEPT !.div.refcount = rc - 1],
               req.type, "E01")
    [] req.type = "RR_CMD" ->
         IF v.lc \in v.div.alive /\ req.cmd.name \notin EndsDiversion THEN rr_cmd(v, req)
         ELSE EndDiversion(v, req)
    [] OTHER -> dispatch_debugger_request(v, req, FALSE)

(* diversion_step: a signal or trap stops the task; a system call is        *)
(* executed, or left out if it names processes; an exit ends the diversion. *)
diversion_step(v) ==
  LET more == v.div.steps < MaxDiversionSteps
      v1 == [v EXCEPT !.div.steps = IF more THEN @ + 1 ELSE @, !.pc = "divert"]
      trap == [Status(v.pos, v.lc) EXCEPT !.bp = TRUE]
  IN {EndDiversion(v, NoReq), maybe_notify_stop(v1, v.cur, trap, View(v1))}
     \union (IF more THEN {v1} ELSE {})

StepDiversion(v) ==
  LET stopped == notify_stop(v, get_threadid(v, v.lc), 0, View(v)) IN
  IF v.cur.dir = "back" THEN {[stopped EXCEPT !.sig = 0, !.lq = v.lc, !.pc = "divert"]}
  ELSE IF v.lc \notin v.div.alive THEN {EndDiversion(v, NoReq)}
  ELSE diversion_step(v)

-----------------------------------------------------------------------------
(* Running the replay for gdb. *)
Moved(v, r) == [v EXCEPT !.pos = r.pos, !.setup = r.setup, !.pc = "serve"]

AfterRun(v, req, r) ==
  LET v1 == Moved(v, r)
      told == maybe_notify_stop(v1, req, r, ReplayAt(r.pos))
      ended == req.dir = "forward" /\ is_last_thread_exit(v1, r) /\ tgid(r.task) = Debuggee
  IN IF r.exited THEN handle_exited_state(v1) ELSE [told EXCEPT !.end = @ \/ ended]

(* The replay does not run past the exec of the debuggee. *)
RunForward(v, req, hits) ==
  LET t == current_task(v.pos)
      held == InExec(v.pos) /\ tgid(t) = Debuggee
      command == IF t = None THEN "continue" ELSE compute_run_command_from_actions(t, req)
  IN {IF held THEN Status(v.pos, None) ELSE replay_step_forward(v, command, hits)}

RunBackward(v, req, hits) ==
  IF compute_run_command_for_reverse_exec(req) = "continue"
  THEN reverse_continue(v, AllowedTasks(v, req), hits)
  ELSE reverse_singlestep(v, v.lc, AllowedTasks(v, req), hits)

(* The task is looked at for the actions of particular threads. *)
NoTask(v) ==
  IF v.cur.dir = "back" THEN compute_run_command_for_reverse_exec(v.cur) = "step" /\ v.lc \notin Alive(v.pos)
  ELSE v.pos = End /\ \E a \in Range(v.cur.actions) : a.target.pid > 0

RunReplay(v) ==
  LET statuses == UNION {IF v.cur.dir = "forward" THEN RunForward(v, v.cur, hits) ELSE RunBackward(v, v.cur, hits)
                           : hits \in {BreakpointHits(v.bps)}}
  IN IF NoTask(v) THEN {Fail(v, "no current task")} ELSE {AfterRun(v, v.cur, r) : r \in statuses}

-----------------------------------------------------------------------------
(* Reaching the point at which debugging starts. *)
at_target(v) ==
  /\ current_task(v.pos) # None /\ can_add_checkpoint(v.pos)
  /\ v.pos > v.target.event
  /\ v.target.pid \in {0, tgid(current_task(v.pos))}
  /\ ~v.setup

activate_debugger(v) ==
  LET t == current_task(v.pos)
      v1 == [v EXCEPT !.target = [pid |-> tgid(t), event |-> v.pos], !.lq = t, !.lc = t]
  IN IF t = None THEN Fail(v, "no current task")
     ELSE [HoldCheckpoint(v1) EXCEPT !.rcp = Checkpoint(v1), !.pc = "serve"]

(* serve_replay's and restart_session's loops of replay steps.  The second  *)
(* one ends at the exit of the debuggee as well.                            *)
RECURSIVE RunToTarget(_, _)
RunToTarget(v, restart) ==
  LET r == replay_step_forward(v, "continue", {})
      v1 == Moved(v, r)
  IN IF r.exited THEN [v1 EXCEPT !.pc = "no debuggee"]
     ELSE IF restart /\ is_last_thread_exit(v1, r) /\ tgid(r.task) = v.target.pid
     THEN [v1 EXCEPT !.end = TRUE]
     ELSE IF at_target(v1) THEN v1 ELSE RunToTarget(v1, restart)

restart_from(v, cp) ==
  LET v1 == [Seek(v, cp.mark) EXCEPT !.ip = TRUE, !.lq = cp.lc, !.lc = cp.lc, !.pc = "serve"]
      v2 == IF v.rcp.explicit THEN remove_explicit_checkpoint(v1, v.rcp.mark) ELSE v1
  IN HoldCheckpoint([v2 EXCEPT !.rcp = cp])

(* seek_to_before_event goes to some checkpoint before the event. *)
restart_from_event(v, event) ==
  LET e == IF v.fin - 1 < event THEN v.fin - 1 ELSE event
      marks == {1} \union {p \in Positions : v.refs[p] > 0 /\ p < e}
      v1 == [v EXCEPT !.ip = TRUE, !.target.event = e]
      Run(p) == RunToTarget(Seek(v1, p), TRUE)
  IN {IF Run(p).pc = "no debuggee" THEN Fail(v, "restart past the end") ELSE activate_debugger(Run(p))
        : p \in marks}

restart_session(v) ==
  LET v1 == [v EXCEPT !.end = FALSE, !.bps = {}] IN
  CASE v.cur.from = "checkpoint" ->
         IF v.cur.param \in DOMAIN v.checkpoints
         THEN {restart_from(v1, v.checkpoints[v.cur.param])}
         ELSE {[notify_restart_failed(v1) EXCEPT !.pc = "serve"]}
    [] v.cur.from = "previous" -> {restart_from(v1, v.rcp)}
    [] v.cur.from = "event" -> restart_from_event(v1, v.cur.param)

-----------------------------------------------------------------------------
(* The server's steps. *)
Running == w.failed = "no"

serve_replay ==
  /\ Running /\ w.pc = "start"
  /\ w' = LET v == RunToTarget(w, FALSE)
          IN IF v.pc = "no debuggee" THEN [v EXCEPT !.pc = "closed"] ELSE activate_debugger(v)
  /\ UNCHANGED <<wire, gdb, scen>>

debug_one_step ==
  /\ Running /\ w.pc = "serve"
  /\ w' = IF w.end THEN [w EXCEPT !.pc = "requests", !.ret = "end"]
          ELSE IF ~w.ip \/ w.lrr = NoReq THEN [w EXCEPT !.pc = "requests", !.ret = "step"]
          ELSE HandleRequest(w, w.lrr)
  /\ UNCHANGED <<wire, gdb, scen>>

(* A request has come: the function that asked for it handles it. *)
handle_request ==
  /\ Running /\ w.got
  /\ w' \in LET v == [w EXCEPT !.got = FALSE]
             IN IF w.pc = "divert" THEN {diverter_process_debugger_requests(v, w.c.req)}
                ELSE GotRequest(v, w.c.req)
  /\ UNCHANGED <<wire, gdb, scen>>

process_diverted_request ==
  /\ Running /\ w.pc = "diverted"
  /\ w' = ProcessRequest(w, w.c.req)
  /\ UNCHANGED <<wire, gdb, scen>>

Asking == w.pc \in {"requests", "lazy", "divert"} /\ ~w.reading /\ ~w.got

(* Mutant: a resume request waits for more from gdb. *)
get_request_blocks ==
  /\ Running /\ Asking
  /\ w' = IF w.c.req.type = "RESTART" THEN [w EXCEPT !.c = notify_restart(@), !.got = TRUE]
          ELSE [w EXCEPT !.c = skip_to_packet_start(@), !.reading = TRUE]
  /\ UNCHANGED <<wire, gdb, scen>>

(* A restart is turned into a question for the stop reason; a resume        *)
(* request stays in force while gdb sends nothing.                          *)
get_request ==
  /\ Running /\ Asking
  /\ w' = IF w.c.req.type = "RESTART" THEN [w EXCEPT !.c = notify_restart(@), !.got = TRUE]
          ELSE IF request_needs_immediate_response(w.c.req) THEN Fail(w, "request left unanswered")
          ELSE IF is_resume_request(w.c.req) /\ ~sniff_packet(w.c)
          THEN [w EXCEPT !.c = skip_to_packet_start(@), !.got = TRUE]
          ELSE [w EXCEPT !.c = skip_to_packet_start(@), !.reading = TRUE]
  /\ UNCHANGED <<wire, gdb, scen>>

(* read_packet waits for data until there is a whole packet. *)
read_packet ==
  /\ Running /\ w.reading /\ w.c.sock # <<>> /\ ~PacketComplete(skip_to_packet_start(w.c))
  /\ \E c \in {read_data_once(skip_to_packet_start(w.c))} :
       w' = IF c.alive THEN [w EXCEPT !.c = c]
            ELSE [w EXCEPT !.c = [c EXCEPT !.req = Req("DETACH")], !.reading = FALSE, !.got = TRUE]
  /\ UNCHANGED <<wire, gdb, scen>>

take_packet ==
  /\ Running /\ w.reading /\ PacketComplete(skip_to_packet_start(w.c))
  /\ \E v \in {process_packet([w EXCEPT !.c = skip_to_packet_start(@)])} :
       w' = IF v.c.req = NoReq THEN v ELSE [v EXCEPT !.reading = FALSE, !.got = TRUE]
  /\ UNCHANGED <<wire, gdb, scen>>

run_replay ==
  /\ Running /\ w.pc = "run"
  /\ w' \in RunReplay(w)
  /\ UNCHANGED <<wire, gdb, scen>>

run_diversion ==
  /\ Running /\ w.pc = "step_diversion"
  /\ w' \in StepDiversion(w)
  /\ UNCHANGED <<wire, gdb, scen>>

restart ==
  /\ Running /\ w.pc = "restart"
  /\ w' \in restart_session(w)
  /\ UNCHANGED <<wire, gdb, scen>>

NewGdb ==
  [wait |-> NoPacket, told |-> ReplayAt(1), sel |-> None, n |-> 0, ints |-> scen.ints, extra |-> 0,
   bad |-> "no", gone |-> FALSE, dead |-> FALSE, depth |-> 0, lives |-> scen.lives]

(* rr replay -k waits for another debugger when one has gone. *)
await_connection ==
  /\ Running /\ w.pc = "closed" /\ gdb.lives > 0
  /\ w' = activate_debugger([w EXCEPT !.bps = {}, !.c = NewConnection(Debuggee), !.lrr = NoReq])
  /\ wire' = <<>>
  /\ gdb' = [NewGdb EXCEPT !.lives = gdb.lives - 1]
  /\ UNCHANGED scen

-----------------------------------------------------------------------------
(* gdb (external).  It sends one packet at a time and waits for the answer; *)
(* while it waits for a stop it may send an interrupt.  A scenario has the  *)
(* packets to begin with and a set of packets that may follow.              *)
Type(p) == Request(NewConnection(Debuggee), p).type

GdbSends ==
  /\ gdb.wait = NoPacket /\ ~gdb.gone
  /\ \E p \in IF gdb.n < Len(scen.first) THEN {scen.first[gdb.n + 1]} ELSE scen.calls :
       /\ gdb.n < Len(scen.first) + scen.more
       /\ gdb.dead => p.k = "D" \/ Type(p) = "RESTART"
       /\ Type(p) = "WRITE_SIGINFO" => gdb.depth > 0
       /\ gdb' = [gdb EXCEPT !.wait = p, !.n = @ + 1]
       /\ wire' = wire \o PacketTokens(p)
  /\ UNCHANGED <<w, scen>>

GdbInterrupts ==
  /\ ~gdb.gone /\ Type(gdb.wait) = "CONT" /\ gdb.ints > 0
  /\ gdb' = [gdb EXCEPT !.ints = @ - 1, !.extra = @ + 1]
  /\ wire' = Append(wire, Interrupt)
  /\ UNCHANGED <<w, scen>>

GdbHangsUp ==
  /\ scen.hangup /\ ~gdb.gone
  /\ gdb' = [gdb EXCEPT !.gone = TRUE]
  /\ wire' = Append(wire, Hangup)
  /\ UNCHANGED <<w, scen>>

(* What gdb makes of something it receives. *)
Expected(p, r) ==
  CASE r.k = "stop" -> Type(p) \in {"CONT", "RESTART", "GET_STOP_REASON"}
    [] r.k = "exit" -> Type(p) = "CONT"
    [] OTHER -> r.for = IF Type(p) = "NONE" THEN "internal" ELSE Type(p)

(* The thread gdb asks about, and the state it believes the target is in.   *)
Answered(p, r) ==
  CASE r.k = "stop" -> [gdb EXCEPT !.told = r.at, !.sel = r.thread.tid, !.dead = FALSE,
                                      !.depth = IF r.at.div THEN @ ELSE 0]
    [] r.k = "exit" -> [gdb EXCEPT !.dead = TRUE]
    [] r.k = "error" -> gdb
    [] r.for = "SET_QUERY_THREAD" /\ r.r = "OK" /\ p.target.tid > 0 ->
         [gdb EXCEPT !.sel = p.target.tid]
    [] r.for = "READ_SIGINFO" ->
         [gdb EXCEPT !.depth = @ + 1,
                     !.told = IF gdb.told.div THEN @ ELSE [pos |-> 0, div |-> TRUE, mem |-> 0]]
    [] r.for = "WRITE_SIGINFO" -> [gdb EXCEPT !.depth = @ - 1]
    [] r.for \in {"SET_MEM", "SET_REG"} /\ r.r = "OK" /\ gdb.told.div -> [gdb EXCEPT !.told.mem = 1]
    [] r.for = "RR_CMD" -> [gdb EXCEPT !.told = r.r.at, !.depth = IF r.r.at.div THEN @ ELSE 0]
    [] r.for = "DETACH" -> [gdb EXCEPT !.gone = TRUE]
    [] OTHER -> gdb

(* Where gdb's find command should find something. *)
FirstMatch(m) ==
  LET n == Len(m.find)
      at == {a \in m.lo..(m.hi - n) : \A i \in 1..n : a + i - 1 \in DOMAIN m.bytes
                                                     /\ m.bytes[a + i - 1] = m.find[i]}
  IN IF at = {} THEN None ELSE Min(at)

GdbReceives ==
  /\ w.c.out # <<>> /\ ~gdb.gone
  /\ LET r == Head(w.c.out)
         p == gdb.wait
         stale == r.k = "reply" /\ r.for \in Questions
                  /\ (r.r.at # gdb.told
                      \/ r.r.thread # IF r.for = "TLS" THEN p.target.tid ELSE gdb.sel)
         missed == r.k = "reply" /\ r.for = "SEARCH_MEM" /\ r.r # FirstMatch(p.mem)
         extra == r.k = "stop" /\ gdb.extra > 0
         g == Answered(p, r)
     IN gdb' = IF p # NoPacket /\ Expected(p, r)
               THEN [g EXCEPT !.wait = NoPacket,
                              !.bad = IF stale THEN "stale" ELSE IF missed THEN "search" ELSE @]
               ELSE IF extra THEN [g EXCEPT !.extra = @ - 1]
               ELSE [gdb EXCEPT !.bad = "answer to no question"]
  /\ w' = [w EXCEPT !.c.out = Tail(@)]
  /\ wire' = IF w.c.no_ack THEN wire ELSE Append(wire, Ack)
  /\ UNCHANGED scen

(* The network delivers what was sent, and may cut it after the tokens of   *)
(* Splits.                                                                  *)
Deliver ==
  /\ wire # <<>> /\ w.pc \notin {"start", "closed"}
  /\ \E n \in {Len(wire)} \union {i \in DOMAIN wire : wire[i].kind \in Splits} :
       /\ w' = [w EXCEPT !.c.sock = @ \o SubSeq(wire, 1, n)]
       /\ wire' = SubSeq(wire, n + 1, Len(wire))
  /\ UNCHANGED <<gdb, scen>>

-----------------------------------------------------------------------------
NewServer ==
  [pos |-> 1, setup |-> FALSE, bps |-> {}, refs |-> [p \in Positions |-> 0],
   c |-> NewConnection(Debuggee), failed |-> "no", pc |-> "start", ret |-> "step",
   reading |-> FALSE, got |-> FALSE, cur |-> NoReq, lrr |-> NoReq, ip |-> FALSE, end |-> FALSE,
   lc |-> None, lq |-> None, sig |-> 0, fin |-> Len(Trace) + 2, target |-> scen.target,
   files |-> {}, syms |-> 0, checkpoints |-> <<>>, next |-> 1,
   rcp |-> [mark |-> 1, lc |-> None, explicit |-> FALSE], back |-> <<>>, current |-> None,
   ahead |-> <<>>, div |-> NoDiversion, now |-> None]

Init ==
  /\ scen \in Scenarios
  /\ w = NewServer
  /\ wire = <<>>
  /\ gdb = NewGdb

Server ==
  \/ serve_replay \/ debug_one_step \/ get_request \/ read_packet \/ take_packet
  \/ handle_request \/ process_diverted_request
  \/ run_replay \/ run_diversion \/ restart \/ await_connection
Environment == GdbSends \/ GdbInterrupts \/ GdbHangsUp

(* The debugger has gone, or the server waits for its next packet. *)
Idle ==
  /\ \/ ~Running
     \/ w.pc = "closed" /\ gdb.lives = 0
     \/ w.reading
  /\ UNCHANGED vars

Next == Server \/ GdbReceives \/ Deliver \/ Environment \/ Idle

(* rr and the network make progress; gdb reads what it is sent.  The        *)
(* server's weak fairness is spelled out with the condition under which a   *)
(* step of it is possible.                                                  *)
ServerCanStep ==
  /\ Running
  /\ CASE w.pc = "closed" -> gdb.lives > 0
       [] w.reading -> w.c.sock # <<>> \/ PacketComplete(skip_to_packet_start(w.c))
       [] OTHER -> TRUE
Fairness ==
  /\ []<>~ServerCanStep \/ []<><<Server>>_vars
  /\ WF_vars(Deliver) /\ WF_vars(GdbReceives)
FairSpec == Init /\ [][Next]_vars /\ Fairness

-----------------------------------------------------------------------------
(* No assertion of GdbServer.cc or GdbConnection.cc fails: a reply answers  *)
(* the request that is pending, a stop is only reported for a request to    *)
(* resume, an interrupt has a resume request to stop, the trace does not    *)
(* end under a restart, and checkpoints are released as often as taken.     *)
AssertionsHold == w.failed = "no"

(* Every answer is one gdb waits for: the reply is to the last packet, and  *)
(* a stop reply comes for a request to resume or restart.  An interrupt may *)
(* cross a stop, and then gives one more stop reply.                        *)
RepliesMatch == gdb.bad # "answer to no question"

(* What gdb is told about registers and memory is the state of the thread   *)
(* it selected, at the position of the last stop it was told of, in the     *)
(* diversion it called into (with its own writes) or in the replay.  So a   *)
(* lazy reverse step, the end of a diversion and a restart are invisible.   *)
AnswersAboutStop == gdb.bad # "stale"

(* A checkpoint gdb may restart from is held in the timeline, by as many    *)
(* references as there are checkpoints at its mark.                         *)
CheckpointHeld ==
  \A p \in Positions :
    LET mine == {i \in DOMAIN w.checkpoints : w.checkpoints[i].mark = p /\ w.checkpoints[i].explicit}
    IN w.refs[p] >= Cardinality(mine) + (IF w.rcp.mark = p /\ w.rcp.explicit THEN 1 ELSE 0)

(* search_memory finds the first occurrence in the range, one that crosses  *)
(* pages or adjoining mappings included, and no other.                      *)
SearchExact == gdb.bad # "search"

(* The replay runs forward past no breakpoint whose condition holds, and is *)
(* stopped by no other.  scen.wanted has the positions at which gdb's       *)
(* condition is true, or cannot be evaluated.                               *)
BreaksAt(q) == \E b \in Hits(w.bps, q) : b.cond = <<>> \/ q \in scen.wanted
Told == Len(w'.c.out) > Len(w.c.out)
ConditionsHonoured ==
  [][w.pc = "run" /\ w.cur.dir = "forward" /\ w'.pc # "run" /\ w'.failed = "no"
     => /\ \A q \in (w.pos + 1)..w'.pos : Reached(q) /\ BreaksAt(q) => q = w'.pos /\ Told
        /\ Told /\ Last(w'.c.out).k = "stop" /\ Last(w'.c.out).sig = 5
           /\ compute_run_command_from_actions(current_task(w.pos), w.cur) # "step"
           => Reached(w'.pos) /\ BreaksAt(w'.pos)]_vars

(* gdb gets an answer to every packet, a request to continue included: the  *)
(* server never blocks in read_packet while gdb waits for a stop, as long   *)
(* as the network does not cut between a packet and its checksum (Splits).  *)
GdbAnswered == gdb.wait # NoPacket ~> (gdb.wait = NoPacket \/ gdb.gone \/ ~Running)
=============================================================================

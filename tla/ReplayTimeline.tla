---------------------------- MODULE ReplayTimeline ----------------------------
(***************************************************************************)
(* Moving back and forth in a replay.  A replay only runs forward, so      *)
(* ReplayTimeline keeps marks (names of states) and checkpoints (copies of *)
(* the session), and goes back by restarting from a checkpoint and running *)
(* forward to where it wants to be.                                        *)
(*                                                                         *)
(* The recorded execution is a line of positions 0..LastPos.  One has a    *)
(* mark key (trace time and ticks), which several positions may share; a *)
(* mark is named by its position, which the code recognises by registers   *)
(* and return addresses.  A breakpoint is reported at its position, before *)
(* the instruction there runs; a watchpoint on arriving at its position.   *)
(* What is applied to the session is modelled in Breakpoints.              *)
(***************************************************************************)
EXTENDS Integers, Sequences, FiniteSets, SequencesExt, FiniteSetsExt

CONSTANTS LastPos,       \* the last position
          KeyOf,         \* position -> mark key, nondecreasing
          TimeOf,        \* position -> trace time, nondecreasing
          TicksOf,       \* position -> ticks of the task there
          TaskOf,        \* position -> the current task
          Silent,        \* positions where a single step does not end
          Clonable,      \* positions where a checkpoint is possible
          Attach,        \* where the debugger is activated
          StopLimit,     \* stop_count_limit
          Sessions       \* what the debugger sets and does, by the session's name

Pos == 0..LastPos
None == -1
NoTask == "none"
Keys == {KeyOf[p] : p \in Pos}

ASSUME TraceAssumption ==
  /\ LastPos \in Nat /\ Attach \in Pos
  /\ \A p \in Pos \ {LastPos} :
       /\ KeyOf[p] <= KeyOf[p + 1] /\ TimeOf[p] <= TimeOf[p + 1]
       /\ KeyOf[p] = KeyOf[p + 1] => TimeOf[p] = TimeOf[p + 1] /\ TicksOf[p] = TicksOf[p + 1]
       /\ TaskOf[p] # TaskOf[p + 1] => TimeOf[p] < TimeOf[p + 1]
       /\ (p = 0 \/ TimeOf[p] # TimeOf[p - 1]) => /\ TimeOf[p] = TimeOf[p + 1] /\ KeyOf[p] < KeyOf[p + 1]
                                                /\ p + 1 \in Silent

ASSUME SessionsAssumption ==
  \A n \in DOMAIN Sessions : LET s == Sessions[n] IN
    /\ s.laststop \in Pos /\ s.barrier \in Pos \cup {None}
    /\ \A p \in Pos : (p = 0 \/ TimeOf[p] # TimeOf[p - 1]) =>
         /\ p \notin s.strings
         /\ \A b \in s.breaksets : p \notin b
         /\ \A w \in s.watchsets : p + 1 \notin w

VARIABLES session, \* the name of the session, never changed
          tl,      \* the timeline: position, marks and checkpoints
          breaks,  \* what the debugger set: [bps, watches, ignored]
          quiet,   \* no_watchpoints_hit_interval_start and _end
          client,  \* the debugger's checkpoints: [held: position -> count, restart]
          op       \* the reverse operation under way, with its locals

vars == <<session, tl, breaks, quiet, client, op>>

LastStop      == Sessions[session].laststop    \* bound on how far the debugger goes
StringAt      == Sessions[session].strings     \* positions at a string instruction that repeats
Filters       == Sessions[session].filters     \* the sets of tasks whose stops may be wanted
Barrier       == Sessions[session].barrier     \* start of the reverse-execution barrier event, or -1
BreakSets     == Sessions[session].breaksets   \* the sets of positions breakpoints may be at
WatchSets     == Sessions[session].watchsets   \* the sets of positions where watchpoints may fire
IgnoredSets   == Sessions[session].ignoredsets \* the sets of positions where a condition is false
ShortInterval == Sessions[session].short       \* expecting_reverse_exec_inter_checkpoint_interval
LowInterval   == Sessions[session].low         \* low_overhead_inter_checkpoint_interval
MaxClient     == Sessions[session].maxclient   \* bound on the debugger's own checkpoints
Ops           == Sessions[session].ops         \* the operations of this session

Idle == [name |-> "idle"]

-----------------------------------------------------------------------------
(* Steps of the session *)

\* The first position after p in set S, or the last one.
NextIn(p, S) == LET after == {q \in S : q > p} IN IF after = {} THEN LastPos ELSE Min(after)

\* Where a replay_step only sets up the event to come (TSTEP_NONE); nothing runs, so
\* breaks are not hit.
Starts == {q \in Pos : q = 0 \/ TimeOf[q] # TimeOf[q - 1]}

\* Where RUN_CONTINUE stops: at the end of the event or a break.
RunTo(p, stops) == IF p \in Starts THEN p + 1 ELSE Min({NextIn(p, Starts), NextIn(p, stops)})

\* Where it may stop on the way to a mark at "limit".
Ahead(p, limit, stops) == (p + 1)..Min({limit, RunTo(p, stops)})

\* RUN_SINGLESTEP_FAST_FORWARD: iterations of a string instruction are taken
\* together up to the state before a stop state, but at least one of them.
FastForward(p, stops) ==
  Max({q \in (p + 1)..LastPos :
         q = p + 1 \/ (p..(q - 1) \subseteq StringAt /\ (p + 1)..q \cap stops = {})})

-----------------------------------------------------------------------------
(* Marks *)

\* The marks mark() adds while stepping from p to the next mark in vec: the
\* positions, the ones from which a plain single step led to the next one, and
\* the mark that was reached.
NewMarks(p, vec) ==
  LET walk[q \in p..LastPos] ==
        LET r == IF q = LastPos THEN LastPos ELSE FastForward(q, ToSet(vec))
        IN  IF q = LastPos \/ KeyOf[r] # KeyOf[q]
            THEN [added |-> <<q>>, steps |-> {}, next |-> None]
            ELSE LET step == IF r = q + 1 THEN {q} ELSE {}
                 IN  IF r \in ToSet(vec) THEN [added |-> <<q>>, steps |-> step, next |-> r]
                     ELSE [added |-> <<q>> \o walk[r].added,
                           steps |-> step \cup walk[r].steps, next |-> walk[r].next]
  IN  walk[p]

\* They go before the mark that was reached.
InsertMarks(t, vec, new) ==
  LET at == IF new.next = None THEN Len(vec) + 1 ELSE SelectInSeq(vec, LAMBDA m : m = new.next)
  IN  [t EXCEPT !.marks[KeyOf[t.cur]] = SubSeq(vec, 1, at - 1) \o new.added \o SubSeq(vec, at, Len(vec)),
                !.steps = @ \cup new.steps, !.aom = t.cur]

\* mark(): the current state gets a mark among those with its key.  It goes last if
\* the session is known to be after the last one; if not, it is found out where by
\* running a copy of the session forward.
mark(t) ==
  LET p   == t.cur
      vec == t.marks[KeyOf[p]]
  IN  IF p \in ToSet(vec) THEN t
      ELSE IF vec = << >> \/ Last(vec) = t.aom
      THEN [t EXCEPT !.marks[KeyOf[p]] = Append(@, p), !.aom = p]
      ELSE InsertMarks(t, vec, NewMarks(p, vec))

\* less_than: by key, and by place in the list of the key's marks.
less_than(t, a, b) ==
  \/ KeyOf[a] < KeyOf[b]
  \/ /\ KeyOf[a] = KeyOf[b] /\ a # b
     /\ LET vec == t.marks[KeyOf[a]]
        IN  \E i, j \in 1..Len(vec) : i < j /\ vec[i] = a /\ vec[j] = b

-----------------------------------------------------------------------------
(* Checkpoints *)

add_explicit_checkpoint(t) ==
  LET m == mark(t)
  IN  [m EXCEPT !.refs[t.cur] = @ + 1,
                !.keyed[KeyOf[t.cur]] = IF t.refs[t.cur] = 0 THEN @ + 1 ELSE @]

\* The checkpoint goes with its last reference, and with it the key's count.
remove_explicit_checkpoint(t, m) ==
  [t EXCEPT !.refs[m] = @ - 1, !.keyed[KeyOf[m]] = IF t.refs[m] = 1 THEN @ - 1 ELSE @]

\* The session is replaced by the copy at p.
AtCheckpoint(t, p) == [t EXCEPT !.cur = p, !.aom = p]

\* seek_to_before_key: stay if the session is closest, else the first checkpoint of
\* the last key before this one, else restart the replay.
seek_to_before_key(t, key) ==
  LET before == {k \in Keys : k < key /\ t.keyed[k] > 0}
      vec    == t.marks[Max(before)]
  IN  IF before = {} THEN IF KeyOf[t.cur] < key THEN t ELSE [t EXCEPT !.cur = 0, !.aom = None]
      ELSE IF Max(before) < KeyOf[t.cur] /\ KeyOf[t.cur] < key THEN t
      ELSE AtCheckpoint(t, vec[SelectInSeq(vec, LAMBDA p : t.refs[p] > 0)])

\* With the current state marked if it has the key of m: stay if it is not after m,
\* else the last checkpoint with that key that is not.
SeekBack(t, m) ==
  LET vec    == t.marks[KeyOf[m]]
      usable == {i \in 1..Len(vec) : t.refs[vec[i]] > 0 /\ ~less_than(t, m, vec[i])}
  IN  IF KeyOf[t.cur] = KeyOf[m] /\ ~less_than(t, m, t.cur) THEN t
      ELSE IF usable # {} THEN AtCheckpoint(t, vec[Max(usable)])
      ELSE seek_to_before_key(t, KeyOf[m])

seek_up_to_mark(t, m) == SeekBack(IF KeyOf[t.cur] = KeyOf[m] THEN mark(t) ELSE t, m)

\* seek_to_mark: from there replay_step_to_mark runs forward until at the mark, which
\* it never is if it starts after it.
RunToMark(t, m) == [t EXCEPT !.cur = m, !.aom = m, !.lost = @ \/ t.cur > m]

seek_to_mark(t, m) == RunToMark(seek_up_to_mark(t, m), m)

inter_checkpoint_interval(strategy) == IF strategy = "low" THEN LowInterval ELSE ShortInterval

next_interval_length(len) == IF len >= LowInterval THEN 2 * len ELSE len + ShortInterval

\* Mutant: keeps them all.
discard_past_lax(rec, now, strategy) == {}

\* discard_past_reverse_exec_checkpoints: of the N-th interval, N - 1 checkpoints may
\* be left; the latest ones that are not in the interval before go first.
discard_past(rec, now, strategy) ==
  LET round[n \in 0..(LastPos + 1)] ==
        IF n = 0 THEN [len |-> inter_checkpoint_interval(strategy), count |-> 0, left |-> rec, doomed |-> {}]
        ELSE LET r      == round[n - 1]
                 found  == {p \in r.left : p >= now - r.len}
                 excess == r.count + Cardinality(found) - (n - 1)
                 dead   == {p \in found : Cardinality({q \in found : q > p}) < excess}
             IN  [len |-> next_interval_length(r.len),
                  count |-> r.count + Cardinality(found \ dead),
                  left |-> r.left \ found, doomed |-> r.doomed \cup dead]
  IN  round[LastPos + 1].doomed

\* Checkpoints of reverse execution at these positions are given up.
Discard(t, P) ==
  [FoldSet(LAMBDA p, u : remove_explicit_checkpoint(u, p), t, P) EXCEPT !.rec = @ \ P]

\* maybe_add_reverse_exec_checkpoint: future checkpoints go, and one is added if there
\* is none close enough.  Progress is measured by position.
AddIfDue(t, strategy) ==
  LET now == t.cur
  IN  IF \/ \E p \in t.rec : p >= now - inter_checkpoint_interval(strategy)
         \/ now \notin Clonable
      THEN t
      ELSE [add_explicit_checkpoint(Discard(t, discard_past(t.rec, now, strategy)))
              EXCEPT !.rec = @ \cup {now}]

maybe_add_reverse_exec_checkpoint(t, strategy) ==
  AddIfDue(Discard(t, {p \in t.rec : p > t.cur}), strategy)

\* set_short_checkpoint: the new one is added before the old one goes.
ReplaceShort(t) ==
  [(IF t.short = None THEN t ELSE remove_explicit_checkpoint(t, t.short)) EXCEPT !.short = t.cur]

set_short_checkpoint(t) ==
  IF t.cur \in Clonable THEN ReplaceShort(add_explicit_checkpoint(t)) ELSE mark(t)

-----------------------------------------------------------------------------
(* The debugger's requests *)

\* The debugger has control.  After a replay_step that only set up an event it has it
\* only because of an interrupt.
Stopped == op = Idle /\ ("interrupt" \in Ops \/ tl.cur - 1 \notin Starts)

\* Checkpoint's constructor and its opposite: where the session can be copied the
\* checkpoint is explicit, elsewhere it is only a mark.
Checkpoint(t) == IF t.cur \in Clonable THEN add_explicit_checkpoint(t) ELSE mark(t)
DropCheckpoint(t, p) == IF p \in Clonable THEN remove_explicit_checkpoint(t, p) ELSE t

\* activate_debugger has been called at Attach, with the breaks the debugger sets first.
Init ==
  /\ tl = Checkpoint([cur |-> Attach, marks |-> [k \in Keys |-> << >>], steps |-> {}, aom |-> None,
                      refs |-> [p \in Pos |-> 0], keyed |-> [k \in Keys |-> 0],
                      rec |-> {}, short |-> None, lost |-> FALSE])
  /\ session \in DOMAIN Sessions
  /\ breaks \in [bps : BreakSets, watches : WatchSets, ignored : IgnoredSets]
  /\ quiet = [start |-> None, end |-> None]
  /\ client = [held |-> [p \in Pos |-> 0], restart |-> Attach]
  /\ op = Idle

\* add_watchpoint and remove_watchpoint: a new watchpoint ends the interval in which
\* none fires.
SetWatchpoints(w) ==
  /\ "set" \in Ops /\ Stopped
  /\ breaks' = [breaks EXCEPT !.watches = w]
  /\ quiet' = IF w \subseteq breaks.watches THEN quiet ELSE [quiet EXCEPT !.start = None]
  /\ UNCHANGED <<tl, client, op>>

\* replay_step_forward: run to a break or the end of the event, or single-step.  At a
\* breakpoint the debugger takes it away for a single step; one whose condition is false
\* is stepped over here.
StepForward(q) ==
  LET p    == tl.cur
      over == p \in breaks.bps \cap breaks.ignored
  IN  /\ "forward" \in Ops /\ op = Idle
      /\ q <= LastStop
      /\ q \in {p + 1} \cup IF p \in breaks.bps THEN {} ELSE {RunTo(p, breaks.bps \cup breaks.watches)}
      /\ tl' = IF over THEN [maybe_add_reverse_exec_checkpoint(tl, "low") EXCEPT !.cur = q]
               ELSE maybe_add_reverse_exec_checkpoint([tl EXCEPT !.cur = q], "low")
      /\ UNCHANGED <<breaks, quiet, client, op>>

\* The "checkpoint" and "delete checkpoint" commands.
AddCheckpoint ==
  /\ "checkpoint" \in Ops /\ Stopped
  /\ FoldFunction(+, 0, client.held) < MaxClient
  /\ tl' = Checkpoint(tl)
  /\ client' = [client EXCEPT !.held[tl.cur] = @ + 1]
  /\ UNCHANGED <<breaks, quiet, op>>

RemoveCheckpoint(p) ==
  /\ Stopped /\ client.held[p] > 0
  /\ tl' = DropCheckpoint(tl, p)
  /\ client' = [client EXCEPT !.held[p] = @ - 1]
  /\ UNCHANGED <<breaks, quiet, op>>

\* Mutant: no reference of its own.
RestartedBorrowed(p) == DropCheckpoint(seek_to_mark(tl, p), client.restart)

\* restart_session: the debugger's restart checkpoint becomes a second reference to p.
Restarted(p) == Checkpoint(DropCheckpoint(seek_to_mark(tl, p), client.restart))

RestartFrom(p) ==
  /\ "restart" \in Ops /\ Stopped
  /\ client.held[p] > 0 \/ p = client.restart
  /\ tl' = Restarted(p)
  /\ breaks' = [breaks EXCEPT !.bps = {}, !.watches = {}]
  /\ client' = [client EXCEPT !.restart = p]
  /\ UNCHANGED <<quiet, op>>

\* find_singlestep_before.
StepBefore(t, m) ==
  LET vec == t.marks[KeyOf[m]]
      i   == CHOOSE j \in 1..Len(vec) : vec[j] = m
  IN  IF i = 1 \/ vec[i - 1] \notin t.steps THEN None ELSE vec[i - 1]

\* lazy_reverse_singlestep: the state before m, if it is known without going there.
lazy_reverse_singlestep(t, m) ==
  LET b == StepBefore(t, m)
  IN  IF /\ quiet.start # None /\ quiet.end # None /\ b # None
         /\ ~less_than(t, b, quiet.start) /\ less_than(t, b, quiet.end)
         /\ m \notin breaks.bps
      THEN b ELSE None

\* try_lazy_reverse_singlesteps: one step back answered from the marks, and the seek.
LazyReverseStep ==
  /\ "step" \in Ops /\ Stopped
  /\ \E here \in {mark(tl)} : \E back \in {lazy_reverse_singlestep(here, tl.cur)} :
       /\ back # None
       /\ tl' = seek_to_mark(here, back)
  /\ op' = [name |-> "done", goal |-> "step", origin |-> tl.cur, task |-> TaskOf[tl.cur],
            filter |-> {TaskOf[tl.cur]}, how |-> "found"]
  /\ UNCHANGED <<breaks, quiet, client>>

\* The stop is reported to the debugger.
Report ==
  /\ op.name = "done"
  /\ op' = Idle
  /\ UNCHANGED <<tl, breaks, quiet, client>>

-----------------------------------------------------------------------------
(* reverse_continue *)

Continuing(goal, origin, end, task, filter) ==
  [name |-> "continue", pc |-> "outer", goal |-> goal, origin |-> origin, end |-> end,
   filter |-> filter, task |-> task, ticks |-> 0, start |-> None, dest |-> None,
   watch |-> FALSE, restart |-> << >>, first |-> FALSE, at_bp |-> FALSE, stops |-> 0]

Done(how) == [name |-> "done", goal |-> op.goal, origin |-> op.origin, task |-> op.task,
              filter |-> op.filter, how |-> how]

ReverseContinue(filter) ==
  /\ "continue" \in Ops /\ Stopped
  /\ tl' = mark(tl)
  /\ op' = Continuing("continue", tl.cur, tl.cur, NoTask, filter)
  /\ UNCHANGED <<breaks, quiet, client>>

\* Where to start from when the session is not before "end".
EarlierStart(here) ==
  IF op.restart = << >> THEN mark(seek_to_before_key(here, KeyOf[op.end]))
  ELSE seek_to_mark(here, Last(op.restart))

\* The head of the loop: find a state before "end" to run forward from.
ContinueOuter ==
  /\ op.name = "continue" /\ op.pc = "outer"
  /\ \E here \in {mark(tl)} :
     LET late == ~less_than(here, tl.cur, op.end)
     IN  \E from \in {IF late THEN EarlierStart(here) ELSE here} :
           IF late /\ op.restart = << >> /\ ~less_than(from, from.cur, op.end)
           THEN /\ tl' = from
                /\ op' = Done("exited")
           ELSE /\ tl' = maybe_add_reverse_exec_checkpoint(from, "short")
                /\ op' = [op EXCEPT !.pc = "inner", !.start = from.cur, !.first = late,
                                    !.restart = IF late /\ @ # << >> THEN Front(@) ELSE @,
                                    !.at_bp = FALSE, !.stops = 0]
  /\ UNCHANGED <<breaks, quiet, client>>

\* One step towards "end" with breakpoints and watchpoints applied: a single step off
\* a breakpoint, a breakpoint hit where the session is, or a run.  A run may end on a
\* breakpoint that it has not hit yet.
StepsToEnd ==
  LET p == tl.cur
      stops == breaks.bps \cup breaks.watches
      At(q, bp, step) == [pos |-> q, bp |-> bp, step |-> step, watch |-> q \in breaks.watches,
                          task |-> TaskOf[q - 1]]
  IN  IF op.at_bp THEN {At(p + 1, FALSE, p + 1 \notin Silent)}
      ELSE IF p \in breaks.bps
      THEN {[pos |-> p, bp |-> TRUE, step |-> FALSE, watch |-> FALSE, task |-> TaskOf[p]]}
      ELSE UNION {{At(q, bp, FALSE) : bp \in {FALSE, (q \in breaks.bps \ breaks.watches /\ p \notin Starts)}} :
                    q \in Ahead(p, op.end, stops)}

\* Mutant: conditions are not evaluated.
FilteredUnconditionally(r) ==
  LET wanted == r.task \in op.filter
  IN  [bp |-> r.bp /\ wanted, watch |-> r.watch /\ wanted, any |-> wanted /\ (r.bp \/ r.watch \/ r.step)]

\* The break status reverse_continue goes by: conditions and the filter applied.
Filtered(r) ==
  LET wanted == r.task \in op.filter /\ r.pos \notin breaks.ignored
  IN  [bp |-> r.bp /\ wanted, watch |-> r.watch /\ wanted,
       any |-> (wanted /\ (r.bp \/ r.watch)) \/ (r.step /\ r.task \in op.filter)]

\* The breakpoint where the operation started is not a place to stop.
BreakpointFound(f, q) == f.bp /\ q # op.end

\* What a step does to the locals of reverse_continue.
AfterStep(r) ==
  LET q     == r.pos
      f     == Filtered(r)
      bp    == BreakpointFound(f, q)
      found == f.watch \/ q = Barrier \/ bp
      ticks == IF TaskOf[q] = r.task THEN TicksOf[q] ELSE TicksOf[q - 1]
  IN  [op EXCEPT !.at_bp = r.bp,
                 !.first = @ /\ ~(op.dest # op.start /\ f.any),
                 !.dest = IF found THEN q ELSE @,
                 !.watch = IF found THEN f.watch /\ q # Barrier ELSE @,
                 !.task = IF found THEN r.task ELSE @,
                 !.ticks = IF found THEN ticks ELSE @,
                 !.stops = IF r.bp \/ r.watch THEN @ + 1 ELSE @]

\* And to the session: a reverse-execution checkpoint if one is due, a short checkpoint
\* at the first break, and a mark where something was found.
SessionAfterStep(r, o) ==
  LET Short(t) == IF op.first /\ ~o.first THEN set_short_checkpoint(t) ELSE t
      Found(t) == IF o.dest = r.pos THEN mark(t) ELSE t
  IN  Found(Short(maybe_add_reverse_exec_checkpoint([tl EXCEPT !.cur = r.pos], "short")))

\* Starting reverse_singlestep.
Stepping(goal, origin, from, task, ticks, filter, unset) ==
  [name |-> "step", pc |-> "seek", goal |-> goal, origin |-> origin, task |-> task,
   target |-> ticks - 1, filter |-> filter, end |-> from, at |-> from, start |-> None,
   barrier |-> unset, other |-> FALSE, step_start |-> None, cand |-> None, cand_other |-> FALSE]

\* Leaving the loop with a destination: a seek, or a step back over a watchpoint.
Finish(t, o) ==
  IF o.watch
  THEN /\ tl' = t
       /\ \E u \in BOOLEAN : op' = Stepping(o.goal, o.origin, o.dest, o.task, o.ticks, {o.task}, u)
  ELSE /\ tl' = seek_to_mark(t, o.dest)
       /\ op' = Done("found")

\* Mutant: "end" stays.
EarlierEndSame == op.end

\* Nothing was found: what lies before the state this round started from is next.
EarlierEnd == op.start

\* One round of the inner loop that reaches "end": all breaks before it are known.
ContinueAtEnd(r) ==
  /\ op.name = "continue" /\ op.pc = "inner"
  /\ r \in StepsToEnd /\ r.pos = op.end
  /\ \E o \in {AfterStep(r)} : \E t \in {SessionAfterStep(r, o)} :
       IF o.dest # None THEN Finish(t, o)
       ELSE /\ tl' = t
            /\ op' = [o EXCEPT !.pc = "outer", !.end = EarlierEnd]
  /\ UNCHANGED <<breaks, quiet, client>>

\* One that does not.
ContinueInner(r) ==
  /\ op.name = "continue" /\ op.pc = "inner"
  /\ r \in StepsToEnd /\ r.pos # op.end
  /\ \E o \in {AfterStep(r)} :
       /\ tl' = SessionAfterStep(r, o)
       /\ op' = [o EXCEPT !.pc = IF (r.bp \/ r.watch) /\ o.stops > StopLimit THEN "limit" ELSE @]
  /\ UNCHANGED <<breaks, quiet, client>>

\* One after which interrupt_check finds that the debugger sent something.
ContinueInterrupted(r) ==
  /\ "interrupt" \in Ops
  /\ op.name = "continue" /\ op.pc = "inner"
  /\ r \in StepsToEnd /\ r.pos # op.end
  /\ tl' = seek_to_mark(SessionAfterStep(r, AfterStep(r)), op.end)
  /\ op' = [Done("interrupted") EXCEPT !.task = NoTask]
  /\ UNCHANGED <<breaks, quiet, client>>

\* Where to look next when nothing is found after the intermediate point.
RestartPoints == op.restart \o (IF op.dest # None THEN <<op.start>> ELSE << >>) \o <<tl.cur>>

\* Too many stops: run_forward_to_intermediate_point goes on to some state q before
\* "end" without breakpoints, or makes no progress (q is the current state).
ContinueLimit(q) ==
  /\ op.name = "continue" /\ op.pc = "limit"
  /\ q \in tl.cur..(op.end - 1)
  /\ tl' = [mark(tl) EXCEPT !.cur = q]
  /\ op' = IF q = tl.cur THEN [op EXCEPT !.pc = "inner"]
           ELSE [op EXCEPT !.pc = "outer", !.dest = None, !.restart = RestartPoints]
  /\ UNCHANGED <<breaks, quiet, client>>

-----------------------------------------------------------------------------
(* reverse_singlestep *)

\* The step is for last_continue_tuid: the task of the last stop or the one the debugger
\* selected, which may keep its choice for the step and have all tasks run ("select").
\* Its ticks are those of its last state so far.
ReverseStep(task, filter) ==
  LET ran == {p \in 0..tl.cur : TaskOf[p] = task}
  IN  /\ "step" \in Ops /\ Stopped
      /\ task \in filter /\ ran # {}
      /\ \/ filter = {task} \/ "select" \in Ops \/ task = TaskOf[tl.cur]
         \/ tl.cur > 0 /\ task = TaskOf[tl.cur - 1]
      /\ tl' = mark(tl)
      /\ \E u \in BOOLEAN : op' = Stepping("step", tl.cur, tl.cur, task, TicksOf[Max(ran)], filter, u)
      /\ UNCHANGED <<breaks, quiet, client>>

\* Go back until the time or the ticks differ from those of "end".
StepSeek ==
  /\ op.name = "step" /\ op.pc = "seek"
  /\ IF TimeOf[op.at] = TimeOf[op.end] /\ TicksOf[op.at] = TicksOf[op.end]
     THEN /\ tl' = maybe_add_reverse_exec_checkpoint(seek_to_before_key(tl, KeyOf[op.at]), "short")
          /\ op' = IF KeyOf[tl'.cur] = KeyOf[op.at] THEN Done("exited") ELSE [op EXCEPT !.at = tl'.cur]
     ELSE /\ tl' = mark(tl)
          /\ op' = [op EXCEPT !.pc = "run", !.start = tl.cur, !.other = FALSE]
  /\ UNCHANGED <<breaks, quiet, client>>

AtTarget == /\ tl.cur # op.end /\ TaskOf[tl.cur] = op.task
            /\ TicksOf[tl.cur] >= op.target

\* Running forward to near the target: the stepping task without breakpoints and up to
\* the ticks, another task of the filter to its first break, the rest without.
StepRun(q) ==
  LET p     == tl.cur
      mine  == TaskOf[p] = op.task
      armed == TaskOf[p] \in op.filter /\ ~mine /\ ~op.other
      stops == IF armed THEN breaks.bps \cup breaks.watches ELSE {}
      near  == {r \in Pos : TaskOf[r] = op.task /\ TicksOf[r] >= op.target}
  IN  /\ op.name = "step" /\ op.pc = "run"
      /\ p # op.end /\ ~AtTarget /\ p < LastPos
      /\ q \in IF armed /\ p \in breaks.bps THEN {p}
               ELSE IF mine THEN Ahead(p, LastPos, near) ELSE {RunTo(p, stops)}
      /\ tl' = maybe_add_reverse_exec_checkpoint([tl EXCEPT !.cur = q], "short")
      /\ op' = [op EXCEPT !.barrier = @ \/ q = Barrier,
                          !.other = @ \/ (armed /\ p \notin Starts /\ q \in breaks.bps \cup breaks.watches)]
      /\ UNCHANGED <<breaks, quiet, client>>

\* At "end" with nothing to step from: report the other task's break, or go back more.
StepNotFound ==
  /\ op.name = "step" /\ op.pc = "run"
  /\ tl.cur = op.end /\ ~op.barrier
  /\ IF op.other
     THEN /\ tl' = mark(tl)
          /\ op' = Continuing("other", op.origin, tl.cur, NoTask, op.filter)
     ELSE /\ op' = [op EXCEPT !.pc = "seek", !.end = op.start, !.at = op.start]
          /\ UNCHANGED tl
  /\ UNCHANGED <<breaks, quiet, client>>

\* Near the target, or past a barrier: from here single steps.
StepPrepare ==
  /\ op.name = "step" /\ op.pc = "run"
  /\ AtTarget \/ (tl.cur = op.end /\ op.barrier)
  /\ tl' = set_short_checkpoint(tl)
  /\ op' = [op EXCEPT !.pc = "step", !.step_start = tl.cur, !.other = FALSE, !.cand_other = FALSE,
                      !.cand = IF tl.cur = Barrier THEN tl.cur ELSE None]
  /\ quiet' = [quiet EXCEPT !.start = None]
  /\ UNCHANGED <<breaks, client>>

\* mark_after_singlestep: one plain step led from "from" to the current state.
mark_after_singlestep(t, from) ==
  IF t.cur = from + 1 /\ KeyOf[t.cur] = KeyOf[from]
  THEN [t EXCEPT !.steps = @ \cup {from}] ELSE t

\* One round of the stepping loop.  At a breakpoint the first attempt gets nowhere and
\* is repeated with breakpoints and watchpoints unapplied: "seen" is where the first
\* attempt ended, "pos" where the round does.
SingleStep ==
  LET p     == tl.cur
      run   == RunTo(p, breaks.bps \cup breaks.watches)
      runbp == run \in breaks.bps \ breaks.watches /\ p \notin Starts
      Fwd(q, stops) == [seen |-> q, pos |-> FastForward(q, stops \cup {op.end})]
      Arr(q) == [seen |-> q, pos |-> q]
  IN  IF TaskOf[p] \notin op.filter THEN Arr(RunTo(p, {}))
      ELSE IF TaskOf[p] = op.task
      THEN IF p \in breaks.bps THEN Fwd(p, {}) ELSE Arr(Fwd(p, breaks.watches).pos)
      ELSE IF p \in breaks.bps THEN [seen |-> p, pos |-> FastForward(p, {})]
      ELSE IF runbp THEN [seen |-> run, pos |-> FastForward(run, {})] ELSE Arr(run)

\* update_observable_break_status.
IntervalStart(seen) ==
  IF quiet.start = None \/ seen \in breaks.watches \ {tl.cur} THEN seen ELSE quiet.start

\* The session after a round, with the marks made on the way.
MarkRound(r, mine) == mark([mark([tl EXCEPT !.cur = IF mine THEN tl.cur ELSE r.seen]) EXCEPT !.cur = r.pos])

\* The end of a round, which led to t1: the session and the locals.
RoundOf(r, mine, t1) ==
  LET p    == tl.cur
      done == mine /\ r.pos \notin Silent
      far  == done /\ less_than(t1, op.end, r.pos)
      hit  == /\ TaskOf[p] \in op.filter /\ ~mine
              /\ r.seen # r.pos \/ r.pos \in breaks.watches
      o1   == IF done THEN [op EXCEPT !.cand = op.step_start, !.cand_other = op.other,
                                      !.other = FALSE, !.step_start = r.pos]
              ELSE [op EXCEPT !.other = @ \/ hit]
      o2   == IF r.pos = Barrier THEN [o1 EXCEPT !.cand = r.pos, !.cand_other = FALSE, !.other = FALSE]
              ELSE o1
  IN  [t |-> IF done THEN mark_after_singlestep(t1, p) ELSE t1,
       o |-> IF far THEN op ELSE o2,
       start |-> IF TaskOf[p] \in op.filter THEN IntervalStart(r.seen) ELSE None,
       over |-> far \/ ~less_than(t1, r.pos, op.end)]

Stepped ==
  LET mine == TaskOf[tl.cur] = op.task /\ op.task \in op.filter
      From(r) == RoundOf(r, mine, MarkRound(r, mine))
  IN  From(SingleStep)

StepOn ==
  /\ op.name = "step" /\ op.pc = "step" /\ tl.cur < LastPos
  /\ \E s \in {Stepped} :
       /\ ~s.over
       /\ tl' = maybe_add_reverse_exec_checkpoint(s.t, "short")
       /\ op' = s.o
       /\ quiet' = [quiet EXCEPT !.start = s.start]
  /\ UNCHANGED <<breaks, client>>

\* What the stepping loop found.
StepChoice(o) ==
  IF o.other \/ o.cand_other THEN "other" ELSE IF o.cand # None THEN "found" ELSE "further"

\* The round that reaches "end".
StepEnd ==
  /\ op.name = "step" /\ op.pc = "step" /\ tl.cur < LastPos
  /\ \E s \in {Stepped} :
       /\ s.over
       /\ quiet' = [start |-> s.start, end |-> IF s.start = None THEN None ELSE op.end]
       /\ \/ /\ StepChoice(s.o) = "other"
             /\ tl' = mark(s.t)
             /\ op' = Continuing("other", op.origin, s.t.cur, NoTask, op.filter)
          \/ /\ StepChoice(s.o) = "found"
             /\ tl' = seek_to_mark(s.t, s.o.cand)
             /\ op' = Done("found")
          \/ /\ StepChoice(s.o) = "further"
             /\ tl' = s.t
             /\ \E u \in BOOLEAN :
                  op' = [s.o EXCEPT !.pc = "seek", !.end = op.start, !.at = op.start, !.barrier = u]
  /\ UNCHANGED <<breaks, client>>

-----------------------------------------------------------------------------

Request ==
  \/ \E w \in WatchSets : SetWatchpoints(w)
  \/ \E q \in Pos : StepForward(q)
  \/ AddCheckpoint
  \/ \E p \in Pos : RemoveCheckpoint(p) \/ RestartFrom(p)
  \/ \E f \in Filters : ReverseContinue(f) \/ \E k \in f : ReverseStep(k, f)
  \/ LazyReverseStep

Advance ==
  \/ ContinueOuter
  \/ /\ op.name = "continue" /\ op.pc = "inner"
     /\ \E r \in StepsToEnd : ContinueAtEnd(r) \/ ContinueInner(r) \/ ContinueInterrupted(r)
  \/ \E q \in Pos : ContinueLimit(q)
  \/ StepSeek
  \/ \E q \in Pos : StepRun(q)
  \/ StepNotFound
  \/ StepPrepare
  \/ StepOn
  \/ StepEnd

Busy == op.name \in {"continue", "step"}

Next == ((op = Idle /\ Request) \/ (Busy /\ Advance) \/ Report) /\ UNCHANGED session

Spec == Init /\ [][Next]_vars

\* A reverse operation runs in rr's only thread until it returns: while it is under way
\* its steps go on.  (Weak fairness of Advance, which is enabled whenever Busy is.)
FairSpec == Spec /\ (([]<>~Busy) \/ []<><<Busy>>_vars)

-----------------------------------------------------------------------------

\* The shape of the timeline, the debugger's requests and the operation.
TypeOK ==
  /\ tl.cur \in Pos /\ tl.aom \in Pos \cup {None} /\ tl.short \in Pos \cup {None}
  /\ \A k \in Keys : \A p \in ToSet(tl.marks[k]) : p \in Pos /\ KeyOf[p] = k
  /\ tl.steps \subseteq Pos /\ tl.rec \subseteq Pos /\ tl.lost \in BOOLEAN
  /\ \A p \in Pos : tl.refs[p] \in Nat
  /\ quiet.start \in Pos \cup {None} /\ quiet.end \in Pos \cup {None}
  /\ client.restart \in Pos
  /\ op.name \in {"idle", "continue", "step", "done"}

\* The marks of a key are in the order of the execution, and the session is at or after
\* current_at_or_after_mark: mark() puts a new mark last on the strength of that.  A mark
\* from which a plain single step leads to the next mark is followed by the mark of the
\* very next state: lazy_reverse_singlestep steps over no state.  And a seek never starts
\* after the mark it is to reach, from where it would run on for ever.
MarksInOrder ==
  /\ ~tl.lost
  /\ \A k \in Keys : \A i \in 1..(Len(tl.marks[k]) - 1) : tl.marks[k][i] < tl.marks[k][i + 1]
  /\ tl.aom # None => tl.aom <= tl.cur
  /\ \A p \in tl.steps : \E i \in 1..(Len(tl.marks[KeyOf[p]]) - 1) :
       tl.marks[KeyOf[p]][i] = p /\ tl.marks[KeyOf[p]][i + 1] = p + 1

\* One reference, or none.
Held(b) == IF b THEN 1 ELSE 0

\* The reference counts are those of the holders (the debugger, its restart checkpoint,
\* reverse execution, the short checkpoint), and marks_with_checkpoints counts the marks
\* of each key that have one.
CheckpointCounts ==
  /\ \A k \in Keys : tl.keyed[k] = Cardinality({p \in ToSet(tl.marks[k]) : tl.refs[p] > 0})
  /\ \A p \in Pos :
       tl.refs[p] = Held(p = client.restart /\ p \in Clonable) + Held(p \in tl.rec)
                    + Held(p = tl.short) + IF p \in Clonable THEN client.held[p] ELSE 0

\* The timeline's marks and checkpoints are in order and counted.
TimelineIntact == TypeOK /\ MarksInOrder /\ CheckpointCounts

Wanted(q, task) == task \in op.filter /\ q \notin breaks.ignored
BreakpointsBefore == {q \in breaks.bps : q < op.origin /\ Wanted(q, TaskOf[q])}
WatchesBefore == {q \in breaks.watches : q > 0 /\ q <= op.origin /\ Wanted(q, TaskOf[q - 1])}
StopsBefore == BreakpointsBefore \cup WatchesBefore \cup {q \in {Barrier} : q # None /\ q <= op.origin}

\* The states after p and up to q in which a step of the task ends.  A string instruction
\* is one step, except near q and where a watchpoint fires.
StepEnds(task, p, q) ==
  {r \in (p + 1)..q : /\ TaskOf[r - 1] = task /\ r \notin Silent
                      /\ {r - 1, r} \subseteq StringAt => {r, r + 1} \cap ({q} \cup breaks.watches) # {}}

\* reverse_continue stops at the last break before where it started: on a breakpoint or
\* the barrier, or one step of the task before a watchpoint fires.  It reports the start of
\* the replay only if there is none, and an interrupted one has passed none.
ReverseContinueExact ==
  op.name = "done" /\ op.goal \in {"continue", "other"} =>
    CASE op.how = "exited" -> StopsBefore = {}
      [] op.how = "interrupted" ->
           /\ \A q \in BreakpointsBefore : q < tl.cur
           /\ \A q \in StopsBefore : q <= tl.cur
      [] op.how = "found" ->
           /\ StopsBefore # {}
           /\ LET last == Max(StopsBefore)
              IN  IF last = Barrier \/ last \in BreakpointsBefore THEN tl.cur = last
                  ELSE /\ tl.cur < last
                       /\ StepEnds(TaskOf[last - 1], tl.cur, last - 1) = {}
      [] OTHER -> FALSE

\* reverse_singlestep goes back by exactly one step of its task, or to the barrier.
ReverseStepExact ==
  op.name = "done" /\ op.goal = "step" /\ op.how = "found" =>
    /\ tl.cur < op.origin
    /\ Cardinality(StepEnds(op.task, tl.cur, op.origin)) = IF tl.cur = Barrier THEN 0 ELSE 1

\* Reverse execution stops where running forward again and again would say.
ReverseExact == ReverseContinueExact /\ ReverseStepExact

\* When maybe_add_reverse_exec_checkpoint adds a checkpoint there are at most N in the
\* N-th interval before it, so their number grows with the logarithm of the distance.
CheckpointDensity ==
  [][LET added == tl'.rec \ tl.rec
         now   == Max(added)
         len[n \in 1..LastPos] ==
           IF n = 1 THEN ShortInterval ELSE next_interval_length(len[n - 1])
     IN  added # {} => \A n \in 1..LastPos :
           Cardinality({p \in tl'.rec : now - len[n] <= p /\ p <= now}) <= n]_vars

\* Reverse execution ends, wherever the breaks are.
ReverseEnds == Busy ~> ~Busy

=============================================================================

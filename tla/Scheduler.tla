----------------------------- MODULE Scheduler -----------------------------
(***************************************************************************)
(* The recording scheduler (Scheduler.cc) and the part of                  *)
(* RecordSession::record_step that drives it.  One tracee runs at a time;  *)
(* reschedule() picks it from task_priority_set, or from the round-robin   *)
(* queue while that is not empty, or sleeps in waitpid(-1).                *)
(*                                                                         *)
(* The kernel runs between any two stages of reschedule(): a tracee that   *)
(* rr has resumed stops with a status, a SIGKILL or a SIGCONT arrives.     *)
(* A scan of the tasks is one stage.                                       *)
(*                                                                         *)
(* Tasks are 1 .. MaxTasks in pointer order, the order in which            *)
(* task_priority_set keeps tasks of one priority.                          *)
(***************************************************************************)
EXTENDS Integers, Sequences, FiniteSets, SequencesExt

CONSTANTS MaxTasks,       \* bound: tasks alive at once
          Nice,           \* values that setpriority() is called with
          MaxSlice,       \* max_ticks_, one unit for one resumption
          Recordings      \* options of rr, and what the recorded program does

ASSUME ConstantsAssumption ==
    /\ MaxTasks \in Nat \ {0}
    /\ Nice \subseteq Int
    /\ MaxSlice \in Nat \ {0}
    /\ \A r \in Recordings : /\ DOMAIN r.group = 1 .. MaxTasks
                              /\ r.enable_chaos \in BOOLEAN
                              /\ r.always_switch \in BOOLEAN

Tasks == 1 .. MaxTasks
None  == 0

ExitPriority == -9999
INT32_MAX    == 2147483647

VARIABLES
    recording,              \* the member of Recordings, never changed
    live,                   \* the tasks of the session
    task,                   \* the fields of each RecordTask, below
    task_priority_set,      \* pairs <<priority, task>>
    task_round_robin_queue,
    current_,
    slice,                  \* ticks left in current_'s timeslice
    must_run_task, enable_poll,
    interval,               \* last_reschedule_in_high_priority_only_interval
    by_waitpid,             \* of the Rescheduled result
    last_task_switchable,
    pc                      \* the stage of record_step / reschedule

queues == <<task_priority_set, task_round_robin_queue>>
vars   == <<recording, live, task, queues, current_, slice, must_run_task,
            enable_poll, interval, by_waitpid, last_task_switchable, pc>>

enable_chaos  == recording.enable_chaos
always_switch == recording.always_switch
Group == recording.group   \* the thread group of each task
Ops   == recording.ops     \* the operations the recorded program performs

(***************************************************************************)
(* A task.  ev: running user code, in a syscall that may block, or in one  *)
(* that never really does.  is_stopped: rr has seen it stop.  status: what *)
(* the kernel holds for the next wait.  seen: what a wait has returned and *)
(* record_step has not yet handled.  emulated_stop: not NOT_STOPPED.       *)
(***************************************************************************)
Record == [priority : Int, in_round_robin_queue : BOOLEAN,
           unstable : BOOLEAN, stable_exit : BOOLEAN,
           ev : {"user", "blocked", "yield", "execve"}, is_stopped : BOOLEAN,
           status : {"none", "stop", "exit", "exec"},
           seen : {"none", "stop", "exit", "exec"},
           emulated_stop : BOOLEAN, sigcont : BOOLEAN]

NewTask(prio) ==
    [priority |-> prio, in_round_robin_queue |-> FALSE,
     unstable |-> FALSE, stable_exit |-> FALSE,
     ev |-> "user", is_stopped |-> TRUE, status |-> "none", seen |-> "none",
     emulated_stop |-> FALSE, sigcont |-> FALSE]

\* choose_random_priority, and priorities without chaos mode
NewPriorities(inherited) == IF enable_chaos THEN {0, 1} ELSE {inherited}

Init ==
    /\ recording \in Recordings
    /\ live = {1}
    /\ \E p \in NewPriorities(0) :
        /\ task = [t \in Tasks |-> NewTask(IF t = 1 THEN p ELSE 0)]
        /\ task_priority_set = {<<p, 1>>}
    /\ task_round_robin_queue = << >>
    /\ current_ = None /\ slice = 0
    /\ must_run_task = None /\ enable_poll = FALSE
    /\ interval = FALSE /\ by_waitpid = FALSE
    /\ last_task_switchable = "PREVENT_SWITCH"
    /\ pc = "record_step"

-----------------------------------------------------------------------------
(* The two containers.                                                     *)

RRTask == IF task_round_robin_queue = << >> THEN None
          ELSE Head(task_round_robin_queue)

\* maybe_pop_round_robin_task(t), as new values of the queues and the tasks
Popped(t, tk) ==
    IF t # None /\ t = RRTask
    THEN [queue |-> Tail(task_round_robin_queue),
          set   |-> task_priority_set \cup {<<tk[t].priority, t>>},
          task  |-> [tk EXCEPT ![t].in_round_robin_queue = FALSE]]
    ELSE [queue |-> task_round_robin_queue, set |-> task_priority_set,
          task  |-> tk]

maybe_pop_round_robin_task(t, tk) ==
    /\ task_round_robin_queue' = Popped(t, tk).queue
    /\ task_priority_set' = Popped(t, tk).set
    /\ task' = Popped(t, tk).task

\* the loop that clears the queue before waitpid(-1)
PopAll(tk) ==
    /\ task_round_robin_queue' = << >>
    /\ task_priority_set' = task_priority_set \cup
            {<<tk[t].priority, t>> : t \in ToSet(task_round_robin_queue)}
    /\ task' = [t \in Tasks |-> [tk[t] EXCEPT !.in_round_robin_queue = FALSE]]

Before(a, b) == a[1] < b[1] \/ (a[1] = b[1] /\ a[2] < b[2])

ByPriority(S) == SetToSortSeq(S, Before)

schedule_one_round_robin(t, tk) ==
    LET p      == Popped(t, tk)
        others == SelectSeq([i \in 1 .. Cardinality(p.set) |->
                                ByPriority(p.set)[i][2]], LAMBDA u : u # t)
    IN  /\ task_round_robin_queue' = Append(p.queue \o others, t)
        /\ task_priority_set' = {}
        /\ task' = [u \in Tasks |->
                      [p.task[u] EXCEPT !.in_round_robin_queue = u \in live]]

\* Mutant: a task in the round-robin queue is put in the other one too.
update_task_priority_internal_IgnoresQueue(t, value, tk) ==
    LET v == IF tk[t].stable_exit /\ ~enable_chaos THEN ExitPriority ELSE value
    IN  /\ task' = [tk EXCEPT ![t].priority = v]
        /\ task_priority_set' =
             (task_priority_set \ {<<tk[t].priority, t>>}) \cup {<<v, t>>}
        /\ UNCHANGED task_round_robin_queue

update_task_priority_internal(t, value, tk) ==
    LET v == IF tk[t].stable_exit /\ ~enable_chaos THEN ExitPriority ELSE value
    IN  /\ task' = [tk EXCEPT ![t].priority = v]
        /\ task_priority_set' =
             IF tk[t].in_round_robin_queue THEN task_priority_set
             ELSE (task_priority_set \ {<<tk[t].priority, t>>}) \cup {<<v, t>>}
        /\ UNCHANGED task_round_robin_queue

-----------------------------------------------------------------------------
(* is_task_runnable.                                                       *)

may_be_blocked(t) == task[t].ev # "user" \/ task[t].emulated_stop

\* the states in which it returns true
Runnable(t) ==
    \/ task[t].unstable
    \/ ~may_be_blocked(t)
    \/ /\ task[t].emulated_stop
       /\ task[t].sigcont \/ "exit" \in {task[t].status, task[t].seen}
    \/ /\ ~task[t].emulated_stop
       /\ task[t].ev = "yield" \/ task[t].status # "none"

\* it only learns that t has no SIGCONT; it must be polled for one
Polled(t) == /\ ~task[t].unstable
             /\ task[t].emulated_stop /\ ~task[t].sigcont

\* it returns true because of an event that it has taken from the kernel
ByWaitpid(t) == Runnable(t) /\ ~task[t].unstable /\ may_be_blocked(t)
                /\ ~Polled(t)

\* did_waitpid: the status moves from the kernel to rr.  A blocking wait
\* returns once the tracee has stopped.
Waited(r, blocking) ==
    IF r.status = "none" /\ ~blocking THEN r
    ELSE [r EXCEPT !.seen = IF r.status = "none" THEN "stop" ELSE r.status,
                   !.status = "none", !.is_stopped = TRUE]

\* the tasks after is_task_runnable has been called for those in S
Checked(S) ==
    LET resumed == {Group[u] : u \in {v \in S : ByWaitpid(v)
                                               /\ task[v].emulated_stop}}
        woken(u, r) == IF u \in live /\ Group[u] \in resumed
                       THEN [r EXCEPT !.emulated_stop = FALSE,
                                      !.sigcont = FALSE]
                       ELSE r
    IN  [u \in Tasks |->
            woken(u, IF u \notin S THEN task[u]
                     ELSE IF ByWaitpid(u) THEN Waited(task[u], TRUE)
                     ELSE IF Polled(u) THEN Waited(task[u], FALSE)
                     ELSE task[u])]

\* Mutant: tasks of equal priority do not take turns.
ScanOrders_AlwaysFromStart(t, threshold) ==
    LET S == {p \in task_priority_set : p[1] <= threshold}
    IN  {[i \in 1 .. Cardinality(S) |-> ByPriority(S)[i][2]]}

\* the order in which find_next_runnable_task(t, .., threshold) asks
ScanOrders(t, threshold) ==
    LET S == {p \in task_priority_set : p[1] <= threshold}
        AfterT(p) == t # None /\ p[1] = task[t].priority /\ p[2] > t
        Rotated(a, b) == \/ a[1] < b[1]
                         \/ a[1] = b[1] /\ AfterT(a) /\ ~AfterT(b)
                         \/ /\ a[1] = b[1] /\ AfterT(a) = AfterT(b)
                            /\ a[2] < b[2]
        orders == IF enable_chaos
                  THEN {s \in SetToSeqs(S) : \A i, j \in DOMAIN s :
                                               i < j => s[i][1] <= s[j][1]}
                  ELSE {SetToSortSeq(S, Rotated)}
    IN  {[i \in DOMAIN s |-> s[i][2]] : s \in orders}

\* Ask the tasks of a sequence until one is runnable.
Scan(order) ==
    LET i       == SelectInSeq(order, Runnable)
        asked   == ToSet(IF i = 0 THEN order ELSE SubSeq(order, 1, i))
        next    == IF i = 0 THEN None ELSE order[i]
        waited  == next # None /\ ByWaitpid(next)
    IN  [next |-> next, by_waitpid |-> waited, task |-> Checked(asked),
         poll |-> enable_poll \/ \E u \in asked : Polled(u),
         must_run |-> IF waited THEN next ELSE None]

\* Mutant: a task that is in a group stop is not polled for.
Asked_NoPoll(r) ==
    by_waitpid' = r.by_waitpid /\ enable_poll' = FALSE
    /\ must_run_task' = r.must_run

\* the outputs of a scan other than the tasks
Asked(r) == /\ by_waitpid' = r.by_waitpid
            /\ enable_poll' = r.poll
            /\ must_run_task' = r.must_run

treat_as_high_priority(t) ==
    Cardinality(task_priority_set) > 1 /\ task[t].priority = 0

-----------------------------------------------------------------------------
(* reschedule().                                                           *)

setup_new_timeslice == slice' \in IF enable_chaos THEN 0 .. MaxSlice
                                  ELSE {MaxSlice}

\* end of the loop: an unstable task cannot be resumed, only waited for
SelectOrWait(r) ==
    IF r.next # None /\ ~task[r.next].unstable
    THEN /\ current_' = r.next
         /\ setup_new_timeslice
         /\ pc' = "handle"
         /\ task' = r.task
         /\ UNCHANGED queues
    ELSE /\ PopAll(r.task)
         /\ pc' = "waitpid"
         /\ UNCHANGED <<current_, slice>>

\* maybe_reset_priorities: in chaos mode every task gets a new priority
MaybeResetPriorities ==
    \/ UNCHANGED <<task, queues>>
    \/ /\ enable_chaos
       /\ \E f \in [live -> {0, 1}] :
            task' = [t \in Tasks |-> IF t \in live
                                     THEN [task[t] EXCEPT !.priority = f[t]]
                                     ELSE task[t]]
       /\ task_priority_set' = {<<task'[p[2]].priority, p[2]>> :
                                  p \in task_priority_set}
       /\ UNCHANGED task_round_robin_queue

Reschedule ==
    /\ pc = "record_step" /\ live # {}
    /\ must_run_task' = None /\ enable_poll' = FALSE /\ by_waitpid' = FALSE
    /\ MaybeResetPriorities
    /\ pc' = IF current_ # None /\ last_task_switchable = "PREVENT_SWITCH"
             THEN "unswitchable" ELSE "loop"
    /\ UNCHANGED <<live, current_, slice, interval, last_task_switchable>>

\* |current| is un-switchable: wait for it if it is running
Unswitchable ==
    /\ pc = "unswitchable"
    /\ task[current_].is_stopped \/ task[current_].status # "none"
    /\ by_waitpid' = ~task[current_].is_stopped
    /\ task' = [task EXCEPT ![current_] =
                  IF @.is_stopped THEN @ ELSE Waited(@, TRUE)]
    /\ pc' = "handle"
    /\ UNCHANGED <<live, queues, current_, slice, must_run_task, enable_poll,
                   interval, last_task_switchable>>

\* the head of the loop: look for a task of higher priority than current_
LoopHead ==
    /\ pc = "loop"
    /\ interval' \in IF enable_chaos THEN BOOLEAN ELSE {FALSE}
    /\ IF current_ # None /\ RRTask = None
       THEN \E order \in ScanOrders(current_, task[current_].priority - 1) :
              LET r == Scan(order) IN
                /\ Asked(r)
                /\ IF r.next # None THEN SelectOrWait(r)
                   ELSE /\ task' = r.task /\ pc' = "again"
                        /\ UNCHANGED <<queues, current_, slice>>
       ELSE /\ pc' = IF current_ = None THEN "next" ELSE "again"
            /\ UNCHANGED <<task, queues, current_, slice, must_run_task,
                           enable_poll, by_waitpid>>
    /\ UNCHANGED <<live, last_task_switchable>>

\* the conditions to carry on with current_, but for is_task_runnable
MayCarryOn ==
    /\ ~task[current_].unstable /\ ~always_switch
    /\ RRTask \in {None, current_}
    /\ treat_as_high_priority(current_) \/ ~interval
    /\ slice > 0

RunAgain ==
    /\ pc = "again"
    /\ LET r == Scan(IF MayCarryOn THEN <<current_>> ELSE << >>) IN
        /\ Asked(r)
        /\ IF r.next # None
           THEN pc' = "handle" /\ task' = r.task /\ UNCHANGED queues
           ELSE pc' = "next" /\ maybe_pop_round_robin_task(current_, r.task)
    /\ UNCHANGED <<live, current_, slice, interval, last_task_switchable>>

\* the task at the front of the round-robin queue, if it is runnable
TryRoundRobin ==
    /\ pc = "next" /\ RRTask # None
    /\ LET r == Scan(<<RRTask>>) IN
        /\ Asked(r)
        /\ IF r.next # None THEN SelectOrWait(r)
           ELSE /\ maybe_pop_round_robin_task(RRTask, r.task)
                /\ pc' = "loop"
                /\ UNCHANGED <<current_, slice>>
    /\ UNCHANGED <<live, interval, last_task_switchable>>

\* Mutant: also one whose event has been taken must wait.
MustSleep_EvenByWaitpid(r) ==
    r.next # None /\ interval /\ ~treat_as_high_priority(r.next)

\* In a high-priority-only interval a low-priority task that is merely
\* runnable must wait; one whose event has been taken must run.
MustSleep(r) == /\ r.next # None /\ interval
                /\ ~treat_as_high_priority(r.next)
                /\ ~r.by_waitpid

FindNext ==
    /\ pc = "next" /\ RRTask = None
    /\ \E order \in ScanOrders(current_, INT32_MAX) :
        LET r == Scan(order) IN
          /\ Asked(r)
          /\ IF MustSleep(r)
             THEN /\ pc' = "loop" /\ task' = r.task
                  /\ UNCHANGED <<queues, current_, slice>>
             ELSE SelectOrWait(r)
    /\ UNCHANGED <<live, interval, last_task_switchable>>

\* waitpid(-1) returns t; a task that reports an exec was not dying after all
WaitAny ==
    /\ pc = "waitpid"
    /\ \E t \in live :
        /\ task[t].status # "none"
        /\ task' = [task EXCEPT
             ![t] = [Waited(@, TRUE) EXCEPT
                       !.unstable = @ /\ task[t].status # "exec"]]
        /\ current_' = t /\ must_run_task' = t
    /\ by_waitpid' = TRUE
    /\ setup_new_timeslice
    /\ pc' = "handle"
    /\ UNCHANGED <<live, queues, enable_poll, interval, last_task_switchable>>

\* waitpid(-1) fails with EINTR: the polling timer, or a signal to rr
Interrupted ==
    /\ pc' = "record_step"
    /\ UNCHANGED <<live, task, queues, current_, slice, must_run_task,
                   enable_poll, interval, by_waitpid, last_task_switchable>>

PollTimer == pc = "waitpid" /\ enable_poll /\ Interrupted
SignalToRR == pc = "waitpid" /\ "sigint" \in Ops /\ Interrupted

-----------------------------------------------------------------------------
(* record_step with the task that reschedule() returned.                   *)

t_ == current_

InGroup(t) == {u \in live : Group[u] = Group[t]}

destabilize(t, tk) ==
    [u \in Tasks |-> IF u \in InGroup(t) THEN [tk[u] EXCEPT !.unstable = TRUE]
                     ELSE tk[u]]

\* record_step returns; the event has been dealt with
Return(switchable) ==
    /\ pc' = "record_step"
    /\ last_task_switchable' = switchable
    /\ UNCHANGED <<must_run_task, enable_poll, interval, by_waitpid>>

\* Scheduler::on_destroy, for a current task that leaves the session to next
on_destroy(t, tk, next) ==
    /\ live' = live \ {t}
    /\ current_' = next
    /\ task_round_robin_queue' = RemoveFirst(task_round_robin_queue, t)
    /\ task_priority_set' = task_priority_set \ {<<tk[t].priority, t>>}
    /\ task' = [tk EXCEPT ![t] = NewTask(0)]

\* handle_ptrace_exit_event
ExitEvent ==
    /\ pc = "handle" /\ task[t_].seen = "exit"
    /\ on_destroy(t_, IF task[t_].stable_exit THEN task
                      ELSE destabilize(t_, task), None)
    /\ Return("PREVENT_SWITCH")
    /\ UNCHANGED slice

\* other events of a task in an unstable exit are not recorded
UnstableEvent ==
    /\ pc = "handle" /\ task[t_].seen # "exit" /\ task[t_].unstable
    /\ task' = [task EXCEPT ![t_].seen = "none"]
    /\ Return("ALLOW_SWITCH")
    /\ UNCHANGED <<live, queues, current_, slice>>

\* PTRACE_EVENT_EXEC for a leader whose death went unreported: the task that
\* called execve takes its place, and is set_current()
ExecRace ==
    /\ pc = "handle" /\ task[t_].seen = "exec" /\ InGroup(t_) # {t_}
    /\ \E e \in InGroup(t_) \ {t_} :
        /\ task[e].ev = "execve"
        /\ on_destroy(t_, [task EXCEPT ![e].unstable = FALSE,
                                       ![e].is_stopped = FALSE,
                                       ![e].ev = "blocked"], e)
    /\ Return("PREVENT_SWITCH")
    /\ UNCHANGED slice

Steps == /\ pc = "handle"
         /\ task[t_].seen \in {"none", "stop", "exec"}
         /\ task[t_].seen = "exec" => InGroup(t_) = {t_}
         /\ ~task[t_].unstable

\* t_ after its event: in state ev, stopped or resumed
Now(ev, stopped) == [task EXCEPT ![t_].seen = "none", ![t_].ev = ev,
                                 ![t_].is_stopped = stopped]

UseTick == slice' = IF slice > 0 THEN slice - 1 ELSE 0

\* task_continue
Continue ==
    /\ Steps
    /\ task' = Now("user", FALSE)
    /\ Return("PREVENT_SWITCH") /\ UseTick
    /\ UNCHANGED <<live, queues, current_>>

\* stopped where another task may run: the end of the timeslice, a signal
\* handler frame set up
SwitchPoint ==
    /\ Steps
    /\ task' = Now("user", TRUE)
    /\ Return("ALLOW_SWITCH") /\ UseTick
    /\ UNCHANGED <<live, queues, current_>>

EnterBlocking ==
    /\ Steps
    /\ \E e \in {"blocked", "execve"} \cap Ops : task' = Now(e, FALSE)
    /\ Return("ALLOW_SWITCH") /\ UseTick
    /\ UNCHANGED <<live, queues, current_>>

SchedYield ==
    /\ Steps /\ "yield" \in Ops
    /\ schedule_one_round_robin(t_, Now("yield", FALSE))
    /\ slice' = 0
    /\ Return("ALLOW_SWITCH")
    /\ UNCHANGED <<live, current_>>

\* EV_SCHED of a task that seems to spin on a lock
SpinLock ==
    /\ Steps /\ "spin" \in Ops
    /\ schedule_one_round_robin(t_, Now("user", TRUE))
    /\ slice' = 0
    /\ Return("ALLOW_SWITCH")
    /\ UNCHANGED <<live, current_>>

\* exit(), or exit_group() in the last thread
Exit ==
    /\ Steps /\ "exit" \in Ops
    /\ update_task_priority_internal(t_, task[t_].priority,
            [Now("blocked", FALSE) EXCEPT ![t_].stable_exit = TRUE])
    /\ Return("ALLOW_SWITCH") /\ UseTick
    /\ UNCHANGED <<live, current_>>

SetPriority ==
    /\ Steps /\ "setpriority" \in Ops /\ ~enable_chaos
    /\ \E u \in live, v \in Nice :
         update_task_priority_internal(u, v, Now("user", FALSE))
    /\ Return("PREVENT_SWITCH") /\ UseTick
    /\ UNCHANGED <<live, current_>>

\* on_create, for a new process or a thread of this one; the new task is
\* stopped at its first instruction
Clone ==
    /\ Steps /\ "clone" \in Ops
    /\ \E u \in Tasks \ live, p \in NewPriorities(task[t_].priority) :
        /\ (u = Group[u] /\ InGroup(u) = {}) \/ Group[u] = Group[t_]
        /\ live' = live \cup {u}
        /\ task' = [Now("user", FALSE) EXCEPT ![u] = NewTask(p)]
        /\ task_priority_set' = task_priority_set \cup {<<p, u>>}
    /\ Return("PREVENT_SWITCH") /\ UseTick
    /\ UNCHANGED <<task_round_robin_queue, current_>>

\* SIGSTOP: every thread of the process enters an emulated stop
GroupStop ==
    /\ Steps /\ "sigstop" \in Ops
    /\ task' = [u \in Tasks |-> IF u \in InGroup(t_)
                 THEN [Now("user", TRUE)[u] EXCEPT !.emulated_stop = TRUE]
                 ELSE task[u]]
    /\ Return("ALLOW_SWITCH") /\ UseTick
    /\ UNCHANGED <<live, queues, current_>>

\* Mutant: rr insists on the dying task.
FatalSignal_PreventsSwitch ==
    /\ Steps /\ "fatal" \in Ops
    /\ task' = destabilize(t_, Now("user", FALSE))
    /\ Return("PREVENT_SWITCH") /\ UseTick
    /\ UNCHANGED <<live, queues, current_>>

\* a fatal signal is delivered: the whole process dies as it pleases
FatalSignal ==
    /\ Steps /\ "fatal" \in Ops
    /\ task' = destabilize(t_, Now("user", FALSE))
    /\ Return("ALLOW_SWITCH") /\ UseTick
    /\ UNCHANGED <<live, queues, current_>>

RecordStep ==
    \/ ExitEvent \/ UnstableEvent \/ ExecRace \/ Continue \/ SwitchPoint
    \/ EnterBlocking \/ SchedYield \/ SpinLock \/ Exit \/ SetPriority
    \/ Clone \/ GroupStop \/ FatalSignal

-----------------------------------------------------------------------------
(* The kernel.                                                             *)

rrState == <<recording, live, queues, current_, slice, must_run_task, enable_poll,
             interval, by_waitpid, last_task_switchable, pc>>

\* a resumed tracee stops
Stops(t) ==
    /\ t \in live /\ ~task[t].is_stopped /\ task[t].status = "none"
    /\ task[t].ev = "execve" => InGroup(t) = {t}
    /\ task' = [task EXCEPT ![t].status =
                  IF task[t].stable_exit THEN "exit"
                  ELSE IF task[t].ev = "execve" THEN "exec" ELSE "stop"]
    /\ UNCHANGED rrState

\* a task of a process that is being killed reaches PTRACE_EVENT_EXIT
Dies(t) ==
    /\ t \in live /\ task[t].unstable /\ task[t].ev # "execve"
    /\ task[t].status # "exit" /\ task[t].seen # "exit"
    /\ task' = [task EXCEPT ![t].status = "exit"]
    /\ UNCHANGED rrState

Killed(S) == [u \in Tasks |-> IF u \in S /\ task[u].seen # "exit"
                              THEN [task[u] EXCEPT !.status = "exit"]
                              ELSE task[u]]

\* SIGKILL from outside, at any time
SIGKILL(t) ==
    /\ "sigkill" \in Ops /\ t \in live
    /\ task' = Killed(InGroup(t)) /\ task' # task
    /\ UNCHANGED rrState

\* execve kills the other threads
ExecKills(t) ==
    /\ t \in live /\ task[t].ev = "execve"
    /\ ~task[t].is_stopped /\ task[t].status = "none"
    /\ task' = Killed(InGroup(t) \ {t}) /\ task' # task
    /\ UNCHANGED rrState

\* the exit event of the leader is skipped over by a racing PTRACE_CONT: what
\* its thread id reports next is the exec
ExitSkipped(t) ==
    /\ t \in live /\ task[t].ev = "execve" /\ task[t].status = "none"
    /\ t # Group[t] /\ InGroup(t) = {t, Group[t]}
    /\ ~task[Group[t]].is_stopped /\ task[Group[t]].status = "exit"
    /\ task' = [task EXCEPT ![Group[t]].status = "exec"]
    /\ UNCHANGED rrState

\* a SIGCONT from outside the tracees
SIGCONT(t) ==
    /\ t \in live /\ task[t].emulated_stop /\ ~task[t].sigcont
    /\ task' = [u \in Tasks |-> IF u \in InGroup(t) /\ task[u].emulated_stop
                 THEN [task[u] EXCEPT !.sigcont = TRUE] ELSE task[u]]
    /\ UNCHANGED rrState

Kernel == \E t \in Tasks : \/ Stops(t) \/ Dies(t) \/ SIGKILL(t)
                           \/ ExecKills(t) \/ ExitSkipped(t) \/ SIGCONT(t)

\* can_end(): every task is gone
Ended == pc = "record_step" /\ live = {} /\ UNCHANGED vars

RRStep == /\ \/ Reschedule \/ Unswitchable \/ LoopHead \/ RunAgain
             \/ TryRoundRobin \/ FindNext \/ WaitAny \/ PollTimer
             \/ RecordStep
          /\ UNCHANGED recording

Next == RRStep \/ (SignalToRR /\ UNCHANGED recording) \/ Kernel \/ Ended

Spec == Init /\ [][Next]_vars

(***************************************************************************)
(* rr itself keeps running.  A tracee that runs user code, or is in a      *)
(* sched_yield, stops sooner or later: at the latest when                  *)
(* interrupt_after_elapsed_time() runs out.  A blocked one need not.  One   *)
(* that runs on at the end of its timeslice gets the TIME_SLICE_SIGNAL.    *)
(***************************************************************************)
FairSpec ==
    /\ Spec
    /\ WF_vars(RRStep)
    /\ SF_vars(slice = 0 /\ SwitchPoint /\ UNCHANGED recording)
    /\ \A t \in Tasks : WF_vars(task[t].ev \in {"user", "yield"} /\ Stops(t))

-----------------------------------------------------------------------------
\* The variables have the types of Scheduler.h and RecordTask.h; current_ and the
\* round-robin queue hold only tasks that on_destroy has not taken out.
TypeOK ==
    /\ live \subseteq Tasks
    /\ \A t \in Tasks : task[t] \in Record
    /\ task_priority_set \subseteq Int \X Tasks
    /\ \A i \in DOMAIN task_round_robin_queue :
          task_round_robin_queue[i] \in live
    /\ current_ \in live \cup {None} /\ must_run_task \in Tasks \cup {None}
    /\ slice \in 0 .. MaxSlice
    /\ enable_poll \in BOOLEAN /\ interval \in BOOLEAN
    /\ by_waitpid \in BOOLEAN
    /\ last_task_switchable \in {"PREVENT_SWITCH", "ALLOW_SWITCH"}
    /\ pc \in {"record_step", "unswitchable", "loop", "again", "next",
               "waitpid", "handle"}

\* Every task of the session is in exactly one of the priority set, under its
\* present priority, and the round-robin queue, once; in_round_robin_queue
\* says which; no dead task is left in them.  (find_next_runnable_task
\* increments the result of task_priority_set.find without looking, and
\* on_destroy erases by key.)
InOneQueue ==
    \A t \in Tasks :
        LET keys   == {p \in task_priority_set : p[2] = t}
            places == {i \in DOMAIN task_round_robin_queue :
                         task_round_robin_queue[i] = t}
        IN  IF t \notin live THEN keys = {} /\ places = {}
            ELSE IF task[t].in_round_robin_queue
            THEN keys = {} /\ Cardinality(places) = 1
            ELSE keys = {<<task[t].priority, t>>} /\ places = {}

\* "otherwise we will lose an event and probably deadlock!!!": a wait status
\* that reschedule() has taken from the kernel reaches record_step, as the
\* event of the task that it returns.  Only the death of a task in an emulated
\* stop may be put off, and such a task stays runnable.
NoLostEvent ==
    \A t \in live : task[t].seen # "none" =>
        \/ pc = "handle" /\ t = current_
        \/ task[t].seen = "exit" /\ Runnable(t)

\* validate_scheduled_task: the task that is scheduled is the one that must
\* run, and it is at the front of a round-robin queue in use.
ScheduledTaskValid ==
    pc = "handle" => /\ must_run_task \in {None, current_}
                     /\ RRTask \in {None, current_}

\* "Only tasks blocked in a syscall can be switched away from, otherwise we
\* have races" (record_step): a tracee that runs user code and is not dying is
\* the current task, rr does not look for another one meanwhile.
OneRunsAtATime ==
    \A t \in live :
        (~task[t].is_stopped /\ ~task[t].unstable /\ ~may_be_blocked(t)) =>
            /\ t = current_ /\ last_task_switchable = "PREVENT_SWITCH"
            /\ pc \in {"record_step", "unswitchable"}

\* The scheduler's bookkeeping: each task is in one queue, the task that is
\* scheduled is the right one, and no other runs beside it.
ScheduleSound == TypeOK /\ InOneQueue /\ ScheduledTaskValid /\ OneRunsAtATime

\* Task::wait: "Don't wait for unstable tasks".  The un-switchable task is
\* never in an unstable exit, so the wait for it is not indefinite.
NeverWaitsForUnstable ==
    pc = "unswitchable" => ~task[current_].unstable

\* A task that can run is not starved by others of its priority, by tasks
\* that yield and by rounds of round-robin scheduling (as long as tasks do not
\* keep exiting: with no current_ a scan starts at the first task again).
NoStarvation ==
    \A t \in Tasks :
        (t \in live /\ ~may_be_blocked(t)) ~> (t \notin live \/ current_ = t)

\* A process in an emulated stop leaves it after a SIGCONT, even if no other
\* tracee ever reports to waitpid(-1): the stop is polled for.
SIGCONTIsNoticed ==
    \A t \in Tasks :
        (t \in live /\ task[t].sigcont) ~> (t \notin live \/ ~task[t].sigcont)

=============================================================================

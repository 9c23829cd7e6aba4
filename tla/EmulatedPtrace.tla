---------------------------- MODULE EmulatedPtrace ----------------------------
(***************************************************************************)
(* A recorded task that ptraces or waits for another recorded task.  rr is *)
(* the only real ptracer, so the recorder emulates the requests, the stops *)
(* they cause, the SIGCHLDs and the wait calls that report them            *)
(* (RecordTask.cc, record_syscall.cc, RecordSession.cc, record_signal.cc). *)
(*                                                                         *)
(* The tasks are a tracer "p", a process with the threads "a" and "b", and *)
(* "n", which "a" may create.  The recorder handles one task at a time; an *)
(* action is what one of its steps does to the task it has picked.  The    *)
(* kernel is visible through the signals it holds for a task (priv) or for *)
(* a process (shared) and through the children it reports to real waits.   *)
(***************************************************************************)
EXTENDS WaitStatus, Sequences, FiniteSets, FiniteSetsExt

CONSTANT
  Sessions  \* what the tasks may do: see session below

Tasks == {"p", "a", "b", "n"}
NoTask == "none"

(* The signals of rr: SIGSTKFLT ends a timeslice, and a SIGCHLD whose      *)
(* si_value marks it as synthetic announces an emulated stop.              *)
TIME_SLICE_SIGNAL == 16
SYNTHETIC_SIGCHLD == 117
Chlds == {SIGCHLD, SYNTHETIC_SIGCHLD}

NoCall == [op |-> "none", cmd |-> "", pid |-> NoTask, sig |-> 0, opts |-> {}]
Ptrace(cmd, pid, sig, opts) ==
  [op |-> "ptrace", cmd |-> cmd, pid |-> pid, sig |-> sig, opts |-> opts]
Wait(how, pid, opts) ==
  [op |-> "wait", cmd |-> how, pid |-> pid, sig |-> 0, opts |-> opts]
Call(op) == [NoCall EXCEPT !.op = op]

VARIABLES
  session,  \* parent: real parent of "a"; newborn: "thread" or "process";
            \* live: the tasks at the start; calls[t]: the calls t may make;
            \* budget[t]: how many; sends: the signals others may send;
            \* blocked: whether "p" blocks SIGCHLD
  task,     \* the recorder's and the kernel's state of each task
  priv,     \* the signals pending for a task
  shared,   \* the signals pending for a process
  zombies,  \* processes that a real wait of their parent would report
  failed    \* the assertions of the recorder that have failed

vars == <<session, task, priv, shared, zombies, failed>>

(* The state that the recorder's functions change, as one value: a function *)
(* of the code is an operator from worlds to worlds.                        *)
World == [task |-> task, priv |-> priv, shared |-> shared,
          zombies |-> zombies, failed |-> failed]
Becomes(w) ==
  /\ task' = w.task /\ priv' = w.priv /\ shared' = w.shared
  /\ zombies' = w.zombies /\ failed' = w.failed
  /\ UNCHANGED session

(* Op(w), with w evaluated once. *)
With(w, Op(_)) == CHOOSE r \in {Op(v) : v \in {w}} : TRUE

Assert(w, what, ok) == IF ok THEN w ELSE [w EXCEPT !.failed = @ \cup {what}]

(* A task as its constructor leaves it, running user code. *)
NewTask(life) ==
  [life |-> life, ev |-> "user", call |-> NoCall, sysemu |-> FALSE, run |-> FALSE,
   sig |-> 0, ptracer |-> NoTask, seized |-> FALSE, opts |-> {},
   stop |-> "NOT_STOPPED", code |-> 0, pending |-> FALSE,
   ptraceSIGCHLD |-> FALSE, SIGCHLDPending |-> FALSE, queuedExit |-> FALSE,
   cont |-> "", msg |-> NoTask, saved |-> {}, stashed |-> <<>>,
   wait |-> NoCall, calls |-> 0]

Init ==
  /\ session \in Sessions
  /\ task = [t \in Tasks |->
               [NewTask(IF t \in session.live THEN "live" ELSE "unborn")
                 EXCEPT !.calls = session.budget[t]]]
  /\ priv = [t \in Tasks |-> {}]
  /\ shared = [t \in Tasks |-> {}]
  /\ zombies = {}
  /\ failed = {}

-------------------------------------------------------------------------------
(* Processes.  All tasks are in one process group. *)

Tgid(t) == IF t = "b" \/ (t = "n" /\ session.newborn = "thread") THEN "a" ELSE t
ParentOf(t) ==
  CASE Tgid(t) = "p" -> "init"
    [] Tgid(t) = "a" -> session.parent
    [] Tgid(t) = "n" -> "a"
Live(w) == {t \in Tasks : w.task[t].life = "live"}
Threads(w, t) == {x \in Live(w) : Tgid(x) = Tgid(t)}
Tracees(w, t) == {x \in Live(w) : w.task[x].ptracer = t}
Children(w, t) == {x \in Live(w) : ParentOf(x) = Tgid(t)}
is_clone_child(t) == Tgid(t) # t
is_sig_blocked(t, sig) == t = "p" /\ session.blocked /\ sig \in Chlds

(* A standard signal that is already pending is not queued again; a        *)
(* SIGCONT discards the pending stops of the process and a SIGSTOP its     *)
(* pending SIGCONTs.                                                       *)
Queue(pending, sig) ==
  CASE sig \in Chlds /\ pending \cap Chlds # {} -> pending
    [] sig = SIGCONT -> (pending \ {SIGSTOP, SIGTSTP}) \cup {sig}
    [] sig \in {SIGSTOP, SIGTSTP} -> (pending \ {SIGCONT}) \cup {sig}
    [] OTHER -> pending \cup {sig}

(* tgkill() and rt_tgsigqueueinfo(); kill() and rt_sigqueueinfo(). *)
tgkill(w, t, sig) == [w EXCEPT !.priv[t] = Queue(@, sig)]
kill(w, p, sig) ==
  [w EXCEPT !.shared[p] = Queue(@, sig),
            !.priv = [t \in Tasks |-> IF Tgid(t) # p THEN @[t]
                                      ELSE IF sig = SIGCONT THEN @[t] \ {SIGSTOP, SIGTSTP}
                                      ELSE IF sig = SIGSTOP THEN @[t] \ {SIGCONT}
                                      ELSE @[t]]]

-------------------------------------------------------------------------------
(* Waiting, and the SIGCHLD that interrupts a wait. *)

is_waiting_for_ptrace(w, t, x) ==
  /\ w.task[x].ptracer # NoTask
  /\ Tgid(w.task[x].ptracer) = Tgid(t)
  /\ \/ w.task[t].wait.cmd \in {"ANY", "PGID"}
     \/ w.task[t].wait.cmd = "PID" /\ w.task[t].wait.pid = x

is_waiting_for(w, t, x) ==
  /\ ParentOf(x) = Tgid(t)
  /\ \/ w.task[t].wait.cmd \in {"ANY", "PGID"}
     \/ w.task[t].wait.cmd = "PID" /\ w.task[t].wait.pid = Tgid(x)

(* Mutant: a waiter that blocks SIGCHLD is not woken by another signal. *)
send_synthetic_SIGCHLD_only(w, t) ==
  LET tracees == {x \in Tracees(w, t) : w.task[x].ptraceSIGCHLD}
      children == {x \in Children(w, t) : w.task[x].SIGCHLDPending}
      wakeable == {r \in Threads(w, t) : \E x \in tracees : is_waiting_for_ptrace(w, r, x)}
  IN  CASE tracees \cup children = {} -> w
        [] tracees \cup children # {} /\ wakeable = {} ->
             kill(w, Tgid(t), SYNTHETIC_SIGCHLD)
        [] OTHER -> tgkill(w, CHOOSE r \in wakeable : TRUE, SYNTHETIC_SIGCHLD)

(* A SIGCHLD goes to a thread of t's process that waits for a task whose   *)
(* SIGCHLD is pending, with a TIME_SLICE_SIGNAL if it blocks SIGCHLD, and  *)
(* otherwise to the process.  Children count when no tracee needs one.     *)
send_synthetic_SIGCHLD_if_necessary(w, t) ==
  LET tracees == {x \in Tracees(w, t) : w.task[x].ptraceSIGCHLD}
      children == {x \in Children(w, t) : w.task[x].SIGCHLDPending}
      wakeable ==
        IF tracees # {}
        THEN {r \in Threads(w, t) : \E x \in tracees : is_waiting_for_ptrace(w, r, x)}
        ELSE {r \in Threads(w, t) : \E x \in children : is_waiting_for(w, r, x)}
      wake == CHOOSE r \in wakeable : TRUE
      sent == tgkill(w, wake, SYNTHETIC_SIGCHLD)
  IN  CASE tracees \cup children = {} -> w
        [] tracees \cup children # {} /\ wakeable = {} ->
             kill(w, Tgid(t), SYNTHETIC_SIGCHLD)
        [] OTHER -> IF is_sig_blocked(wake, SIGCHLD)
                    THEN tgkill(sent, wake, TIME_SLICE_SIGNAL)
                    ELSE sent

(* The siginfo of a synthetic SIGCHLD is that of some stop that has not    *)
(* been announced; the result is the set of worlds for the choices of it.  *)
set_siginfo_for_synthetic_SIGCHLD(w, t) ==
  LET tracees == {x \in Tracees(w, t) : w.task[x].ptraceSIGCHLD}
      children == {x \in Children(w, t) : w.task[x].SIGCHLDPending}
  IN  IF tracees # {} THEN {[w EXCEPT !.task[x].ptraceSIGCHLD = FALSE] : x \in tracees}
      ELSE IF children # {} THEN {[w EXCEPT !.task[x].SIGCHLDPending = FALSE] : x \in children}
      ELSE {w}

-------------------------------------------------------------------------------
(* Emulated stops. *)

force_emulate_ptrace_stop(w, t, status) ==
  LET stopped ==
        [w EXCEPT !.task[t] =
           [@ EXCEPT !.stop = IF group_stop(status) # 0 THEN "GROUP_STOP"
                              ELSE "SIGNAL_DELIVERY_STOP",
                     !.code = status, !.pending = TRUE, !.ptraceSIGCHLD = TRUE]]
  IN  With(stopped, LAMBDA v : send_synthetic_SIGCHLD_if_necessary(v, w.task[t].ptracer))

(* The stop of a traced task, with the siginfo a PTRACE_GETSIGINFO reads. *)
emulate_ptrace_stop(w, t, status) ==
  LET asserted == Assert(w, "stop of a stopped task", w.task[t].stop = "NOT_STOPPED")
      saved == [asserted EXCEPT !.task[t].saved = @ \cup {ptrace_signal(status)}]
  IN  IF w.task[t].ptracer = NoTask THEN asserted
      ELSE With(saved, LAMBDA v : force_emulate_ptrace_stop(v, t, status))

(* The stop of a task that a job control signal stops with its process; an *)
(* untraced one is reported to its parent.                                 *)
apply_group_stop(w, t, sig) ==
  LET status == for_group_sig(sig, w.task[t].seized)
      stopped ==
        [w EXCEPT !.task[t] =
           [@ EXCEPT !.stop = "GROUP_STOP", !.code = status, !.pending = TRUE,
                     !.SIGCHLDPending = TRUE]]
  IN  CASE w.task[t].stop # "NOT_STOPPED" -> w
        [] w.task[t].stop = "NOT_STOPPED" /\ w.task[t].ptracer # NoTask ->
             emulate_ptrace_stop(w, t, status)
        [] OTHER -> IF ParentOf(t) \in Live(w)
                    THEN With(stopped, LAMBDA v : send_synthetic_SIGCHLD_if_necessary(v, ParentOf(t)))
                    ELSE stopped

emulate_SIGCONT(w, t) ==
  [w EXCEPT !.task = [x \in Tasks |->
     IF x \in Threads(w, t)
     THEN [@[x] EXCEPT !.pending = FALSE, !.stop = "NOT_STOPPED"]
     ELSE @[x]]]

(* The effects of a signal's delivery on the job control state. *)
signal_delivered(w, t, sig) ==
  LET StopOne(x, acc) == With(acc, LAMBDA v : apply_group_stop(v, x, sig))
      applied == CASE sig \in {SIGSTOP, SIGTSTP} -> FoldSet(StopOne, w, Threads(w, t))
                   [] sig = SIGCONT -> emulate_SIGCONT(w, t)
                   [] OTHER -> w
  IN  With(applied, LAMBDA v : send_synthetic_SIGCHLD_if_necessary(v, t))

(* The ptracer is told of the exit of a task that is not its child. *)
do_ptrace_exit_stop(w, t) ==
  LET done == [w EXCEPT !.task[t].queuedExit = FALSE]
      tracer == w.task[t].ptracer
  IN  IF tracer # NoTask /\ (is_clone_child(t) \/ ParentOf(t) # Tgid(tracer))
      THEN emulate_ptrace_stop(done, t, for_exit_code(0))
      ELSE done

(* The stop a ptracer has asked for at the exit of a system call. *)
maybe_trigger_emulated_ptrace_syscall_exit_stop(w, t) ==
  CASE w.task[t].cont = "SYSCALL" ->
         emulate_ptrace_stop(w, t, for_syscall("sysgood" \in w.task[t].opts))
    [] w.task[t].cont \in {"SINGLESTEP", "SYSEMU_SINGLESTEP"} ->
         emulate_ptrace_stop(w, t, for_stop_sig(SIGTRAP))
    [] OTHER -> w

-------------------------------------------------------------------------------
(* The ptrace requests. *)

(* A request to a task that t does not trace, or that runs, fails. *)
verify_ptrace_target(w, t, x) ==
  x \in Live(w) /\ w.task[x].ptracer = t /\ w.task[x].stop # "NOT_STOPPED"

check_ptracer_compatible(w, tracer, tracee) ==
  /\ {tracer, tracee} \subseteq Live(w)
  /\ w.task[tracee].ptracer = NoTask
  /\ Tgid(tracee) # Tgid(tracer)

ptrace_attach_to_already_stopped_task(w, t) ==
  LET asserted == Assert(w, "attach to a stopped task", w.task[t].stop = "GROUP_STOP")
  IN  [force_emulate_ptrace_stop(asserted, t, for_stop_sig(SIGSTOP))
        EXCEPT !.task[t].saved = @ \cup {SIGSTOP}]

set_emulated_ptracer(w, t, tracer, seized, opts) ==
  [w EXCEPT !.task[t] =
     [@ EXCEPT !.ptracer = tracer, !.seized = seized, !.opts = opts]]

(* Mutant: a tracee stopped inside its system call is not resumed. *)
prepare_ptrace_cont_unresumed(w, x, sig, command) ==
  [w EXCEPT !.task[x] = [@ EXCEPT !.stop = "NOT_STOPPED", !.pending = FALSE, !.code = 0,
                                  !.cont = command, !.sig = sig]]

(* Resuming a tracee: it takes the signal, and its system call goes on if  *)
(* the stop kept it from entering the kernel.  An exit stop that waited    *)
(* for this one follows.                                                   *)
prepare_ptrace_cont(w, x, sig, command) ==
  LET signalled == IF sig = 0 THEN w
                   ELSE [w EXCEPT !.task[x].sig = sig, !.task[x].saved = @ \ {sig}]
      resumed ==
        [signalled EXCEPT !.task[x] =
           [@ EXCEPT !.stop = "NOT_STOPPED", !.pending = FALSE, !.code = 0,
                     !.cont = command,
                     !.run = @ \/ (w.task[x].ev = "processing" /\ sig = 0)]]
  IN  IF resumed.task[x].queuedExit THEN do_ptrace_exit_stop(resumed, x) ELSE resumed

PTRACE_ATTACH(w, t, x) ==
  LET attached == set_emulated_ptracer(w, x, t, FALSE, {})
  IN  CASE ~check_ptracer_compatible(w, t, x) -> w
        [] w.task[x].stop = "NOT_STOPPED" -> tgkill(attached, x, SIGSTOP)
        [] OTHER -> ptrace_attach_to_already_stopped_task(attached, x)

PTRACE_TRACEME(w, t) ==
  IF check_ptracer_compatible(w, ParentOf(t), t)
  THEN set_emulated_ptracer(w, t, ParentOf(t), FALSE, {}) ELSE w

PTRACE_SEIZE(w, t, x, opts) ==
  LET seized == set_emulated_ptracer(w, x, t, TRUE, opts)
  IN  CASE ~check_ptracer_compatible(w, t, x) -> w
        [] w.task[x].stop = "GROUP_STOP" -> ptrace_attach_to_already_stopped_task(seized, x)
        [] OTHER -> seized

(* get_saved_ptrace_siginfo() asserts that the stop's siginfo was saved. *)
PTRACE_GETSIGINFO(w, x) ==
  LET sig == ptrace_signal(w.task[x].code)
  IN  Assert(w, "siginfo of a stop", sig > 0 /\ sig \in w.task[x].saved)

PTRACE_DETACH(w, x, sig) ==
  LET cleared == [w EXCEPT !.task[x] =
                    [@ EXCEPT !.opts = {}, !.cont = "", !.pending = FALSE,
                              !.queuedExit = FALSE]]
      resumed == prepare_ptrace_cont(cleared, x, sig, "")
  IN  Assert([resumed EXCEPT !.task[x].ptracer = NoTask], "detach of a stopped task",
             resumed.task[x].stop \in {"NOT_STOPPED", "GROUP_STOP"})

(* The requests that read or write the registers, the memory or the        *)
(* descriptors of a stopped tracee: they change none of this state.        *)
RegisterRequests ==
  {"GETREGS", "GETFPREGS", "GETFPXREGS", "GETREGSET",
   "SETREGS", "SETFPREGS", "SETFPXREGS", "SETREGSET"}
MemoryRequests == {"PEEKTEXT", "PEEKDATA", "POKETEXT", "POKEDATA", "PEEKUSER", "POKEUSER"}
OtherRequests == {"GETEVENTMSG", "GET_THREAD_AREA", "SET_THREAD_AREA", "ARCH_PRCTL"}

prepare_ptrace(w, t, c) ==
  LET x == c.pid
  IN  CASE c.cmd = "ATTACH" -> PTRACE_ATTACH(w, t, x)
        [] c.cmd = "TRACEME" -> PTRACE_TRACEME(w, t)
        [] c.cmd = "SEIZE" -> PTRACE_SEIZE(w, t, x, c.opts)
        [] OTHER ->
           IF ~verify_ptrace_target(w, t, x) THEN w
           ELSE CASE c.cmd = "SETOPTIONS" -> [w EXCEPT !.task[x].opts = c.opts]
                  [] c.cmd = "GETSIGINFO" -> PTRACE_GETSIGINFO(w, x)
                  [] c.cmd \in RegisterRequests \cup MemoryRequests \cup OtherRequests -> w
                  [] c.cmd = "DETACH" -> PTRACE_DETACH(w, x, c.sig)
                  [] c.cmd = "KILL" -> tgkill(w, x, SIGKILL)
                  [] OTHER -> prepare_ptrace_cont(w, x, c.sig, c.cmd)

-------------------------------------------------------------------------------
(* System calls. *)

(* The tasks whose emulated stop the wait of t would report. *)
maybe_emulate_wait(w, t) ==
  LET traced == {x \in Tracees(w, t) : is_waiting_for_ptrace(w, t, x) /\ w.task[x].pending}
      stopped == {x \in Children(w, t) : /\ w.task[x].stop = "GROUP_STOP"
                                         /\ w.task[x].pending
                                         /\ is_waiting_for(w, t, x)}
  IN  IF traced # {} THEN traced
      ELSE IF "WUNTRACED" \in w.task[t].wait.opts THEN stopped ELSE {}

(* A wait for a tracee that is not a child blocks in pause(); any other    *)
(* wait blocks in the kernel as long as t has a child to wait for.         *)
maybe_pause_instead_of_waiting(w, t) ==
  /\ w.task[t].wait.cmd = "PID"
  /\ w.task[t].wait.pid \in Live(w)
  /\ is_waiting_for_ptrace(w, t, w.task[t].wait.pid)
  /\ ~is_waiting_for(w, t, w.task[t].wait.pid)
HasChild(w, t) ==
  \E x \in Tasks : /\ is_waiting_for(w, t, x)
                   /\ x \in Live(w) \/ Tgid(x) \in w.zombies

(* The end of a system call: its event is popped and a tracee may stop. *)
FinishSyscall(w, t) ==
  With([w EXCEPT !.task[t] = [@ EXCEPT !.ev = "user", !.call = NoCall, !.run = FALSE,
                                       !.wait = NoCall]],
       LAMBDA v : maybe_trigger_emulated_ptrace_syscall_exit_stop(v, t))

(* The end of a wait that reports the emulated stop of x.  The stop of an  *)
(* exiting task lets it go on; the report of an untraced group-stop holds  *)
(* for all threads.                                                        *)
FinishEmulatedWait(w, t, x) ==
  LET reported == IF w.task[x].ptracer = t THEN {x} ELSE Threads(w, x)
      exiting == exit_code(w.task[x].code) >= 0
      left == [w EXCEPT !.task[t].wait = NoCall]
      waited == [left EXCEPT !.task = [y \in Tasks |->
                   [@[y] EXCEPT !.pending = @ /\ y \notin reported,
                                !.run = @ \/ (y = x /\ exiting)]]]
      asserted == Assert(waited, "wait for an exiting task",
                    exiting => w.task[x].ev = "processing" /\ w.task[x].call.op = "exit")
  IN  FinishSyscall(IF "WNOWAIT" \in w.task[t].wait.opts THEN left ELSE asserted, t)

(* The task blocks in, or runs through, the kernel's part of its call; an  *)
(* emulated stop that the preparation caused keeps it from doing so.       *)
EnterKernel(w, t) ==
  [w EXCEPT !.task[t] = [@ EXCEPT !.ev = "processing", !.run = ~w.task[t].pending]]

prepare_exit(w, t) ==
  IF "exit" \in w.task[t].opts
  THEN emulate_ptrace_stop([w EXCEPT !.task[t].queuedExit = TRUE], t,
                           for_ptrace_event(PTRACE_EVENT_EXIT))
  ELSE do_ptrace_exit_stop(w, t)

(* The new task of a fork or clone is traced if its creator's ptracer has  *)
(* asked for that; both are then stopped.                                  *)
prepare_clone(w, t) ==
  LET event == IF session.newborn = "thread" THEN PTRACE_EVENT_CLONE ELSE PTRACE_EVENT_FORK
      option == IF session.newborn = "thread" THEN "clone" ELSE "fork"
      born == [w EXCEPT !.task["n"] = [@ EXCEPT !.life = "live"]]
      traced == [set_emulated_ptracer(born, "n", w.task[t].ptracer, w.task[t].seized,
                                      w.task[t].opts) EXCEPT !.task[t].msg = "n"]
  IN  IF option \in w.task[t].opts
      THEN apply_group_stop(emulate_ptrace_stop(traced, t, for_ptrace_event(event)),
                            "n", SIGTRAP)
      ELSE born

(* ENTERING_SYSCALL: the worlds that rec_prepare_syscall(), and for calls  *)
(* that cannot be switched away from also their exit, may lead to.         *)
rec_prepare_syscall(w, t) ==
  LET c == w.task[t].call
      waiting == [w EXCEPT !.task[t].wait = c]
      found == maybe_emulate_wait(waiting, t)
      blocks == maybe_pause_instead_of_waiting(waiting, t) \/ HasChild(waiting, t)
  IN  CASE c.op = "ptrace" -> {FinishSyscall(prepare_ptrace(w, t, c), t)}
        [] c.op = "wait" /\ found # {} -> {FinishEmulatedWait(waiting, t, x) : x \in found}
        [] c.op = "wait" /\ found = {} /\ blocks /\ "WNOHANG" \notin c.opts ->
             {EnterKernel(waiting, t)}
        [] c.op = "exit" -> {EnterKernel(prepare_exit(w, t), t)}
        [] c.op = "fork" -> {EnterKernel(prepare_clone(w, t), t)}
        [] c.op \in {"exec", "plain"} -> {EnterKernel(w, t)}
        [] OTHER -> {FinishSyscall(w, t)}

(* ENTERING_SYSCALL_PTRACE, once the task is not stopped: under PTRACE_SYSEMU *)
(* the call is skipped, otherwise it is prepared.                             *)
AfterEntryStop(w, t) ==
  IF w.task[t].sysemu THEN {FinishSyscall([w EXCEPT !.task[t].sysemu = FALSE], t)}
  ELSE rec_prepare_syscall(w, t)

(* The entry of call c: a stop first if the ptracer wants to see entries. *)
process_syscall_entry(w, t, c) ==
  LET cont == w.task[t].cont
      entered == [w EXCEPT !.task[t] =
                    [@ EXCEPT !.ev = "entering", !.call = c,
                              !.sysemu = cont \in {"SYSEMU", "SYSEMU_SINGLESTEP"}]]
      stopped == emulate_ptrace_stop(entered, t, for_syscall("sysgood" \in w.task[t].opts))
  IN  CASE cont \notin {"SYSCALL", "SYSEMU", "SYSEMU_SINGLESTEP"} ->
             rec_prepare_syscall(entered, t)
        [] w.task[t].ptracer = NoTask -> AfterEntryStop(entered, t)
        [] OTHER -> {stopped}

-------------------------------------------------------------------------------
(* The end of a task. *)

(* The destructor frees the tracees; the kernel tells the parent of the    *)
(* last thread's end.                                                      *)
Destroy(w, t) ==
  LET asserted == Assert(w, "PTRACE_O_TRACEEXIT of an unstable exit",
                         "exit" \in w.task[t].opts => w.task[t].call.op = "exit")
      freed == [asserted EXCEPT !.task = [x \in Tasks |->
                  CASE x = t -> [NewTask("dead") EXCEPT !.calls = 0]
                    [] x # t /\ @[x].ptracer = t ->
                         [@[x] EXCEPT !.ptracer = NoTask, !.opts = {},
                                      !.pending = FALSE, !.stop = "NOT_STOPPED"]
                    [] OTHER -> @[x]],
                !.priv[t] = {}]
      last == Threads(freed, t) = {}
  IN  IF last /\ ParentOf(t) \in Live(freed)
      THEN kill([freed EXCEPT !.zombies = @ \cup {Tgid(t)}], ParentOf(t), SIGCHLD)
      ELSE freed

-------------------------------------------------------------------------------
(* The steps. *)

Runnable(t) ==
  task[t].life = "live" /\ task[t].stop = "NOT_STOPPED" /\ SIGKILL \notin priv[t]

(* A task that is at a point where a signal can be handled. *)
AtSignalPoint(t) == Runnable(t) /\ task[t].ev \in {"user", "interrupted"} /\ task[t].sig = 0

IsSynthetic(sig) == sig = SYNTHETIC_SIGCHLD
has_stashed_sig_not_synthetic_SIGCHLD(t) ==
  \E i \in DOMAIN task[t].stashed : ~IsSynthetic(task[t].stashed[i])

(* While a signal is stashed the recorder blocks all others but these. *)
Deliverable(t) ==
  {sig \in priv[t] \cup shared[Tgid(t)] :
     /\ ~is_sig_blocked(t, sig)
     /\ task[t].stashed = <<>> \/ sig \in {TIME_SLICE_SIGNAL, SIGSTOP}}

(* A running task makes a system call; it has taken its pending signals. *)
EnterSyscall(t) ==
  /\ AtSignalPoint(t) /\ task[t].ev = "user" /\ task[t].stashed = <<>>
  /\ Deliverable(t) = {}
  /\ task[t].calls > 0
  /\ \E c \in session.calls[t] :
       /\ c.op = "fork" => task["n"].life = "unborn"
       /\ \E w \in process_syscall_entry([World EXCEPT !.task[t].calls = @ - 1], t, c) :
            Becomes(w)

(* A task that was stopped at the entry of its call goes on. *)
ContinueEntry(t) ==
  /\ Runnable(t) /\ task[t].ev = "entering"
  /\ \E w \in AfterEntryStop(World, t) : Becomes(w)

(* An interrupted call is made again; only a synthetic SIGCHLD may still   *)
(* be stashed.                                                             *)
RestartSyscall(t) ==
  /\ AtSignalPoint(t) /\ task[t].ev = "interrupted"
  /\ ~has_stashed_sig_not_synthetic_SIGCHLD(t) /\ Deliverable(t) = {}
  /\ \E w \in process_syscall_entry(World, t, task[t].call) : Becomes(w)

(* The kernel completes a call.  An exec is announced to the ptracer. *)
ExitSyscall(t) ==
  /\ Runnable(t) /\ task[t].ev = "processing" /\ task[t].run
  /\ task[t].call.op \in {"plain", "fork", "exec"}
  /\ LET w == World
         execed ==
           CASE task[t].call.op # "exec" \/ task[t].ptracer = NoTask -> w
             [] "exec" \in task[t].opts ->
                  emulate_ptrace_stop(w, t, for_ptrace_event(PTRACE_EVENT_EXEC))
             [] OTHER -> IF task[t].seized THEN w ELSE tgkill(w, t, SIGTRAP)
     IN  Becomes(FinishSyscall(execed, t))

(* The kernel reports the end of a child to a wait. *)
RealWait(t) ==
  /\ Runnable(t) /\ task[t].ev = "processing" /\ task[t].run
  /\ task[t].call.op = "wait"
  /\ \E z \in zombies :
       /\ is_waiting_for(World, t, z) /\ ~maybe_pause_instead_of_waiting(World, t)
       /\ Becomes(FinishSyscall([World EXCEPT !.zombies = @ \ {z}], t))

(* A task in exit() reaches its end, stopped or not; one that was killed   *)
(* ends wherever it is.                                                    *)
ExitTask(t) ==
  /\ task[t].life = "live"
  /\ \/ SIGKILL \in priv[t]
     \/ task[t].ev = "processing" /\ task[t].run /\ task[t].call.op = "exit"
  /\ Becomes(Destroy(World, t))

(* A signal interrupts a wait, which stays on the event stack. *)
InterruptSyscall(t) ==
  /\ Runnable(t) /\ task[t].ev = "processing" /\ task[t].run
  /\ task[t].call.op = "wait" /\ Deliverable(t) # {}
  /\ Becomes([World EXCEPT !.task[t] =
       [@ EXCEPT !.ev = "interrupted", !.run = FALSE, !.wait = NoCall]])

(* Stashing a signal; a second one of its number is discarded. *)
stash_sig(w, t, sig) ==
  LET number(s) == IF s \in Chlds THEN SIGCHLD ELSE s
      stashed == w.task[t].stashed
      dup == \E i \in DOMAIN stashed : number(stashed[i]) = number(sig)
  IN  [w EXCEPT !.priv[t] = @ \ {sig},
                !.shared[Tgid(t)] = IF sig \in w.priv[t] THEN @ ELSE @ \ {sig},
                !.task[t].stashed = IF dup THEN @ ELSE Append(@, sig)]

ReceiveSignal(t) ==
  /\ AtSignalPoint(t)
  /\ \E sig \in Deliverable(t) : Becomes(stash_sig(World, t, sig))

(* The first signal that is not a synthetic SIGCHLD, so that a signal that *)
(* interrupts the call does so.                                            *)
peek_stashed_sig_to_deliver(t) ==
  LET stashed == task[t].stashed
      real == {i \in DOMAIN stashed : ~IsSynthetic(stashed[i])}
  IN  IF real = {} THEN 1 ELSE CHOOSE i \in real : \A j \in real : i <= j

RemoveAt(s, i) == SubSeq(s, 1, i - 1) \o SubSeq(s, i + 1, Len(s))

(* A stashed signal is handled: it ends the timeslice, stops a traced task, *)
(* or is about to be delivered.  A synthetic SIGCHLD waits until the call   *)
(* it interrupted has been made again.                                      *)
HandleStashedSignal(t) ==
  /\ AtSignalPoint(t) /\ task[t].stashed # <<>>
  /\ LET i == peek_stashed_sig_to_deliver(t)
         sig == task[t].stashed[i]
         popped == [World EXCEPT !.task[t].stashed = RemoveAt(@, i)]
         number == IF sig \in Chlds THEN SIGCHLD ELSE sig
     IN  /\ IsSynthetic(sig) => task[t].ev # "interrupted"
         /\ \E w \in IF IsSynthetic(sig) THEN set_siginfo_for_synthetic_SIGCHLD(popped, t)
                     ELSE {popped} :
              CASE sig = TIME_SLICE_SIGNAL -> Becomes(w)
                [] sig # TIME_SLICE_SIGNAL /\ task[t].ptracer # NoTask ->
                     Becomes(emulate_ptrace_stop(w, t, for_stop_sig(number)))
                [] OTHER -> Becomes([w EXCEPT !.task[t].sig = number])

(* The signal is delivered: SIGTRAP is fatal, the others are ignored,      *)
(* handled by the program or are job control.                              *)
DeliverSignal(t) ==
  /\ Runnable(t) /\ task[t].sig # 0 /\ task[t].ev \in {"user", "interrupted"}
  /\ LET sig == task[t].sig
     IN  IF sig = SIGTRAP THEN Becomes(Destroy(World, t))
         ELSE Becomes([signal_delivered(World, t, sig) EXCEPT !.task[t].sig = 0])

(* A tracee that its ptracer steps traps after an instruction. *)
SingleStepTrap(t) ==
  /\ AtSignalPoint(t) /\ task[t].ev = "user" /\ task[t].stashed = <<>>
  /\ Deliverable(t) = {}
  /\ task[t].cont \in {"SINGLESTEP", "SYSEMU_SINGLESTEP"}
  /\ IF task[t].ptracer = NoTask THEN Becomes([World EXCEPT !.task[t].sig = SIGTRAP])
     ELSE Becomes(emulate_ptrace_stop(World, t, for_stop_sig(SIGTRAP)))

(* The scheduler finds a SIGCONT pending for a stopped task: its process   *)
(* goes on, and the task takes the signal.                                 *)
NoticeSIGCONT(t) ==
  /\ task[t].life = "live" /\ task[t].stop # "NOT_STOPPED" /\ SIGKILL \notin priv[t]
  /\ SIGCONT \in priv[t] \cup shared[Tgid(t)]
  /\ LET continued == emulate_SIGCONT(World, t)
     IN  IF task[t].ev = "processing" THEN Becomes([continued EXCEPT !.task[t].run = TRUE])
         ELSE Becomes(stash_sig(continued, t, SIGCONT))

(* Some process sends a signal to the process of "a". *)
SendSignal ==
  \E sig \in session.sends :
    /\ Threads(World, "a") # {}
    /\ session' = [session EXCEPT !.sends = @ \ {sig}]
    /\ LET w == kill(World, "a", sig)
       IN  priv' = w.priv /\ shared' = w.shared /\ UNCHANGED <<task, zombies, failed>>

Step(t) ==
  \/ EnterSyscall(t) \/ ContinueEntry(t) \/ RestartSyscall(t) \/ ExitSyscall(t)
  \/ RealWait(t) \/ ExitTask(t) \/ InterruptSyscall(t) \/ ReceiveSignal(t)
  \/ HandleStashedSignal(t) \/ DeliverSignal(t) \/ SingleStepTrap(t) \/ NoticeSIGCONT(t)

Next == SendSignal \/ \E t \in Tasks : Step(t)

Spec == Init /\ [][Next]_vars

(* The recorder goes on handling every task that has something to handle;   *)
(* when a program makes its calls is up to the program.                     *)
Handle(t) ==
  \/ ContinueEntry(t) \/ RestartSyscall(t) \/ ExitSyscall(t) \/ InterruptSyscall(t)
  \/ ReceiveSignal(t) \/ HandleStashedSignal(t) \/ DeliverSignal(t)

Fairness == \A t \in Tasks : WF_vars(Handle(t))

FairSpec == Spec /\ Fairness

-------------------------------------------------------------------------------
(* Properties. *)

(* The recorder's own assertions hold: a task is stopped only when it is   *)
(* not stopped already (RecordTask.cc:722), a detached task is not left in *)
(* a ptrace-stop (RecordTask.cc:713), the siginfo a ptracer asks for was   *)
(* saved (RecordTask.cc:921), an exiting task that a wait lets go on is in *)
(* its exit (record_syscall.cc:5250), and so on.                           *)
AssertionsHold == failed = {}

(* A task in the middle of a system call is either stopped for a ptracer   *)
(* or really running in the kernel: whoever ends a stop that kept it from  *)
(* entering the kernel (prepare_ptrace_cont, a wait for an exit) resumes   *)
(* it, or it would never run again.                                        *)
StoppedOrResumed ==
  \A t \in Tasks :
    task[t].life = "live" /\ task[t].ev = "processing"
      => task[t].run \/ task[t].stop # "NOT_STOPPED" \/ task[t].sig # 0

(* While a task stays in a stop its status does not change under the       *)
(* ptracer, unless the ptracer attaches to a task that was stopped before; *)
(* and the stop ends only when the ptracer resumes or detaches it, the     *)
(* ptracer dies or a SIGCONT is delivered.                                 *)
StopIsStable ==
  [][\A t \in Tasks :
       task[t].stop # "NOT_STOPPED" /\ task'[t].life = "live" =>
         \/ task'[t].stop # "NOT_STOPPED" /\ task'[t].code = task[t].code
         \/ task[t].ptracer = NoTask /\ task'[t].ptracer # NoTask
         \/ \E p \in Tasks : p = task[t].ptracer /\ (task[p].call # task'[p].call
                               \/ task[p].calls # task'[p].calls \/ task'[p].life = "dead")
         \/ \E x \in Tasks : Tgid(x) = Tgid(t) /\ SIGCONT \in priv[x] \cup shared[Tgid(t)]
                               \cup {task[x].sig}]_vars

(* A stop is taken once, lasts until it is ended, and whoever ends it lets *)
(* the task run.                                                           *)
StopsHonoured == [](AssertionsHold /\ StoppedOrResumed) /\ StopIsStable

(* The tracer does not stay in a wait once a tracee that the wait is for   *)
(* has a stop to report: the synthetic SIGCHLD, or the timeslice *)
(* signal if it blocks SIGCHLD, interrupts the wait, and the wait that is  *)
(* made again finds the stop (send_synthetic_SIGCHLD_if_necessary,         *)
(* maybe_emulate_wait).                                                    *)
WaitCanReport(t) ==
  /\ task[t].life = "live" /\ task[t].call.op = "wait"
  /\ \E x \in Tracees(World, t) :
       /\ task[x].pending
       /\ task[t].call.cmd = "PID" => task[t].call.pid = x
WaitReturns == WaitCanReport("p") ~> ~WaitCanReport("p")

===============================================================================

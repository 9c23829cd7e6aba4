--------------------------- MODULE MCEmulatedPtrace ---------------------------
(* Bounds for EmulatedPtrace: a tracer that may make up to seven calls and *)
(* tracees that may make one or two.                                       *)
EXTENDS EmulatedPtrace

Budget(p, a, b, n) == [t \in Tasks |-> CASE t = "p" -> p [] t = "a" -> a
                                         [] t = "b" -> b [] t = "n" -> n]
Calls(p, a, b, n) == [t \in Tasks |-> CASE t = "p" -> p [] t = "a" -> a
                                        [] t = "b" -> b [] t = "n" -> n]

WaitA == Wait("PID", "a", {})
WaitAny == Wait("ANY", NoTask, {"WUNTRACED"})

(* Attaching to the threads of a process, with job control.  With a second *)
(* tracee in reach the tracer blocks SIGCHLD: the SIGCHLD for a stop of    *)
(* one may otherwise be taken for that of the other.                       *)
Attaching(parent, second, blocked, sends, budget) ==
  [parent |-> parent, newborn |-> "process", live |-> {"p", "a", "b"},
   calls |-> Calls({Ptrace("ATTACH", "a", 0, {}), WaitA,
                    Wait("ANY", NoTask, {"WNOHANG"}),
                    Ptrace("GETSIGINFO", "a", 0, {}), Ptrace("CONT", "a", SIGSTOP, {}),
                    Ptrace("DETACH", "a", 0, {})} \cup second, {}, {}, {}),
   budget |-> Budget(budget, 0, 0, 0), sends |-> sends, blocked |-> blocked]

Second == {Ptrace("SEIZE", "b", 0, {}), Ptrace("CONT", "b", 0, {})}
Attach ==
  {Attaching(parent, {}, FALSE, {SIGTSTP}, 5) : parent \in {"p", "init"}}
  \cup {Attaching("init", Second, TRUE, {SIGTSTP}, 5)}
  \cup {Attaching("p", Second, TRUE, {SIGTSTP, SIGCONT}, 3)}

(* A child that asks to be traced, stopped at calls, steps and its exit. *)
TraceMe ==
  {[parent |-> "p", newborn |-> "process", live |-> {"p", "a"},
    calls |-> Calls({Ptrace("SETOPTIONS", "a", 0, opts), WaitAny, Ptrace("GETREGS", "a", 0, {}),
                     Ptrace("SYSCALL", "a", 0, {}), Ptrace("SINGLESTEP", "a", 0, {}),
                     Ptrace("SYSEMU", "a", 0, {})},
                    {Ptrace("TRACEME", NoTask, 0, {}), Call("exec"), Call("plain"), Call("exit")},
                    {}, {}),
    budget |-> Budget(5, 3, 0, 0), sends |-> {SIGUSR1}, blocked |-> FALSE] :
   opts \in {{"sysgood"}, {"exit"}}}

(* A tracee that creates a task, and exits; the tracer waits for any. *)
Creating ==
  {[parent |-> "p", newborn |-> newborn, live |-> {"p", "a"},
    calls |-> Calls({Ptrace("SEIZE", "a", 0, {"fork", "clone", "exit", "exec"}),
                     Wait("PGID", NoTask, {}), Ptrace("CONT", "a", 0, {}),
                     Ptrace("CONT", "n", 0, {})},
                    {Call("fork"), Call("exec"), Call("exit")}, {}, {Call("exit")}),
    budget |-> Budget(6, 2, 0, 1), sends |-> {}, blocked |-> FALSE] :
   newborn \in {"thread", "process"}}

(* A tracer that dies while its tracees are in signal stops, or kills one. *)
Dying ==
  {[parent |-> parent, newborn |-> "process", live |-> {"p", "a", "b"},
    calls |-> Calls({Ptrace("SEIZE", "a", 0, {}), Ptrace("ATTACH", "b", 0, {}),
                     Wait("PID", "b", {}), Ptrace("CONT", "a", SIGUSR1, {}),
                     Ptrace("KILL", "b", 0, {}), Call("exit")},
                    {Call("plain")}, {}, {}),
    budget |-> Budget(4, 1, 0, 0), sends |-> {SIGUSR1}, blocked |-> TRUE] :
   parent \in {"p", "init"}}

PassingSessions == Attach \cup TraceMe \cup Creating \cup Dying

===============================================================================

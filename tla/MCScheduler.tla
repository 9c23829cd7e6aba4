---------------------------- MODULE MCScheduler ----------------------------
(***************************************************************************)
(* Instances of Scheduler for TLC.                                         *)
(***************************************************************************)
EXTENDS Scheduler

Processes == <<1, 2, 3>>   \* three processes of one thread each
Threads12 == <<1, 1, 3>>   \* a process of two threads, and another process

Recording(group, chaos, ops) ==
    [group |-> group, enable_chaos |-> chaos, always_switch |-> FALSE,
     ops |-> ops]

SafetyRecordings ==
    {Recording(Processes, FALSE, {"blocked", "yield", "spin", "exit",
                  "setpriority", "clone", "sigstop", "sigint"}),
     Recording(Threads12, FALSE, {"blocked", "execve", "clone",
                  "fatal", "sigkill", "exit"}),
     Recording(Processes, TRUE, {"blocked", "spin", "exit", "clone"})}

LiveRecordings ==
    {Recording(Processes, FALSE, {"blocked", "yield", "spin", "clone"}),
     Recording(Processes, FALSE, {"clone", "sigstop", "sigint"})}

\* Threads that block while their process is stopped.
GroupStopRecordings ==
    {Recording(Threads12, FALSE, {"blocked", "clone", "sigstop"})}

=============================================================================

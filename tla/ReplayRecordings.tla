-------------------------- MODULE ReplayRecordings --------------------------
(***************************************************************************)
(* Recordings for ReplaySession: what a thread executed, and the frames    *)
(* the trace has for it.                                                   *)
(***************************************************************************)
EXTENDS ReplaySession

I(addr, op) == [ip |-> addr, op |-> op, cx |-> 0, mem |-> 0, src |-> 0, chg |-> FALSE,
                cut |-> FALSE, prot |-> "rw"]
Run(from, to) == [i \in 1..(to - from + 1) |-> I(from + i - 1, "op")]

\* n times round a loop at addr: a store and a conditional branch.  The store
\* changes the value in round chg.
RECURSIVE Loop(_, _, _)
Loop(addr, n, chg) ==
  IF n = 0 THEN <<>>
  ELSE <<[I(addr, "op") EXCEPT !.cx = n, !.mem = 100, !.chg = n = chg],
         [I(addr + 1, "br") EXCEPT !.cx = n]>> \o Loop(addr, n - 1, chg)

\* n iterations of a string instruction that stores from mem on and reads from
\* src on, left before cx is 0 when it ends early.
RECURSIVE Rep(_, _, _, _, _)
Rep(addr, n, left, mem, src) ==
  IF n = left THEN <<>>
  ELSE <<[I(addr, "rep") EXCEPT !.cx = n, !.mem = mem, !.src = src, !.chg = TRUE]>>
       \o Rep(addr, n - 1, left, mem + 1, IF src = 0 THEN 0 ELSE src + 1)

End == <<I(99, "end")>>

\* Frames of thread i on path p.
Frame(i, p, ev, q) == [tid |-> i, ev |-> ev, sig |-> NoSig, pos |-> q, past |-> FALSE,
                       ticks |-> tick_count(p, q), fatal |-> FALSE, deterministic |-> FALSE,
                       placed |-> TRUE]
Enter(i, p, q)  == [Frame(i, p, "ENTERING_SYSCALL", q) EXCEPT !.past = TRUE]
Exiting(i, p, q) == Frame(i, p, "EXITING_SYSCALL", q + 1)
Syscall(i, p, q) == <<Enter(i, p, q), Exiting(i, p, q)>>
Gone(i, p)      == <<[Frame(i, p, "EXIT", Len(p)) EXCEPT !.placed = FALSE]>>
Async(i, p, q)  == <<[Frame(i, p, "SIGNAL", q) EXCEPT !.sig = "SIGALRM"], Frame(i, p, "SIGNAL_HANDLER", q + 1)>>
Raised(i, p, q, sig) == [Frame(i, p, "SIGNAL", q) EXCEPT !.sig = sig, !.deterministic = TRUE,
                                                         !.past = sig = "SIGTRAP"]

Recording == [frames |-> <<>>, path |-> <<>>, tids |-> {1}, breaks |-> {{}}, watch |-> {},
              faulting |-> FALSE, readonly |-> FALSE, muplay_enabled |-> FALSE, muplay |-> FALSE,
              commands |-> {"RUN_CONTINUE"}, targets |-> {}, states |-> {{}}]

Steps == {"RUN_CONTINUE", "RUN_SINGLESTEP"}

\* A loop preempted at its entry q, then a system call.
LoopPath == <<I(9, "op")>> \o Loop(10, 8, 3) \o <<I(20, "op"), I(21, "sys"), I(22, "op"), I(23, "sys")>> \o End
Preempted(q, ev) ==
  LET p == LoopPath
  IN [Recording EXCEPT
        !.path = <<p>>,
        !.frames = <<Frame(1, p, ev, q)>> \o Syscall(1, p, 19) \o Syscall(1, p, 21) \o Gone(1, p),
        !.breaks = {{}, {10}, {11}, {21}}, !.commands = Steps]
Preemptions ==
  {[Preempted(q, "SCHED") EXCEPT !.watch = w, !.readonly = r, !.targets = ts] :
     q \in {3, 9, 14, 15, 16}, r \in BOOLEAN, w \in {{}, {100}}, ts \in {{}, {4, 8}}}

\* Signals: one that the loop's instructions do not raise, at entry q; then a
\* fault, a trap and a trapped instruction of the program itself.
SignalPath(q) ==
  LET l == <<I(9, "op")>> \o Loop(10, 7, 0)
      h == <<I(40, "op"), I(41, "sys")>>
  IN SubSeq(l, 1, q - 1) \o <<[l[q] EXCEPT !.cut = TRUE]>> \o h \o SubSeq(l, q, 15)
     \o <<I(48, "usys"), I(49, "cpuid"), I(50, "segv"), I(51, "op"), I(52, "int3"), I(53, "op"), I(54, "rdtsc"), I(55, "br"), I(56, "sys")>>
     \o End
Signals(q) ==
  LET p == SignalPath(q)
  IN [Recording EXCEPT
        !.path = <<p>>,
        !.frames = Async(1, p, q) \o Syscall(1, p, q + 2)
          \o <<Raised(1, p, 21, "SIGSEGV"), Frame(1, p, "SIGNAL_HANDLER", 22),
               Raised(1, p, 23, "SIGTRAP"), Frame(1, p, "SIGNAL_HANDLER", 24),
               [Frame(1, p, "INSTRUCTION_TRAP", 26) EXCEPT !.sig = "SIGSEGV"]>>
          \o Syscall(1, p, 27) \o Gone(1, p),
        !.breaks = {{}, {10}, {50, 52}, {40, 41, 54}}, !.watch = {100}, !.faulting = TRUE,
        !.commands = Steps]

\* Buffered system calls, flushed late, then a system call that gets patched.
\* The recording had no CPUID faulting.
BufferPath ==
  <<I(9, "op")>> \o Loop(10, 2, 1)
  \o <<I(60, "mrec"), I(61, "usys"), I(62, "mdone"), I(63, "op"), I(64, "cpuid"), I(65, "usys"), I(70, "op"), I(66, "br")>>
  \o Loop(10, 4, 0) \o <<I(80, "op"), I(21, "sys"), I(21, "op"), I(22, "br"), I(23, "sys")>> \o End
Buffered ==
  LET p == [BufferPath EXCEPT ![6].prot = "ro", ![7].prot = "ro", ![11].prot = "ro"]
  IN [Recording EXCEPT
        !.path = <<p>>,
        !.frames =
          <<[Frame(1, p, "SYSCALLBUF_FLUSH", 12) EXCEPT !.ticks = 7],
            [Frame(1, p, "SYSCALLBUF_RESET", 12) EXCEPT !.ticks = 7],
            Frame(1, p, "PATCH_SYSCALL", 24)>>
          \o <<[Enter(1, p, 26) EXCEPT !.ev = "ENTERING_SYSCALL_PTRACE"]>>
          \o Syscall(1, p, 26) \o Gone(1, p),
        !.breaks = {{}, {10, 61}, {63, 70}}, !.watch = {100}, !.faulting = TRUE,
        !.targets = {4, 7}, !.commands = Steps]

\* A string instruction preempted in the middle.
StringPath(left, src) == <<I(9, "op")>> \o Rep(30, 8, left, 201, src) \o <<[I(31, "op") EXCEPT !.cx = left], I(32, "sys")>> \o End
Strings(q, left, src) ==
  LET p == StringPath(left, src)
      n == Len(p) - 1
  IN [Recording EXCEPT
        !.path = <<p>>,
        !.frames = <<Frame(1, p, "SCHED", q)>> \o Syscall(1, p, n) \o Gone(1, p),
        !.breaks = {{}, {30}, {31}}, !.commands = Steps \cup {"RUN_SINGLESTEP_FAST_FORWARD"},
        !.states = {{}, {[ip |-> 30, past |-> FALSE, cx |-> 3]}}]

\* Two threads; the second one execs when the first is gone.
Threads ==
  LET p1 == <<I(9, "op")>> \o Loop(10, 6, 0) \o <<I(21, "sys")>> \o End
      p2 == Loop(10, 2, 0) \o <<I(21, "sys"), I(90, "op"), I(91, "br"), I(92, "sys")>> \o End
  IN [Recording EXCEPT
        !.path = <<p1, p2>>, !.tids = {1, 2},
        !.frames = <<Frame(1, p1, "SCHED", 12), Frame(2, p2, "SCHED", 3)>> \o Syscall(1, p1, 14)
           \o <<Enter(2, p2, 5)>> \o Gone(1, p1)
           \o <<Frame(1, p2, "EXITING_EXECVE", 6)>> \o Syscall(1, p2, 8) \o Gone(1, p2),
        !.breaks = {{}, {10}, {21, 90}}, !.commands = Steps, !.readonly = TRUE]

\* A modified program that raises a signal the recording does not have, or none.
Modified(op) ==
  LET p == <<I(9, "op"), I(10, op), I(21, "sys"), I(22, op), I(23, "op"), I(24, "sys"), I(24, "op")>> \o End
  IN [Recording EXCEPT
        !.path = <<p>>, !.muplay_enabled = TRUE, !.muplay = TRUE,
        !.frames = Syscall(1, p, 3) \o <<Frame(1, p, "PATCH_SYSCALL", 7)>> \o Gone(1, p)]

MCScenarios ==
  Preemptions \cup {Signals(q) : q \in {3, 14, 15}} \cup {Buffered, Threads}
  \cup {[Strings(q, left, src) EXCEPT !.watch = w] :
          q \in {4, 8}, left \in {0, 2}, src \in {0, 199}, w \in {{}, {205}}}
  \cup {Modified(op) : op \in {"op", "segv"}}
=============================================================================

---------------------------- MODULE GdbSessions -----------------------------
(* Debugging sessions for GdbServer: one or two threads, two processes,     *)
(* breakpoints with conditions, reverse and lazy steps, diversions,         *)
(* checkpoints and restarts, interrupts, and gdb going away and coming      *)
(* back.                                                                    *)
EXTENDS GdbServer

F(tid, ip) == [tid |-> tid, kind |-> "run", ip |-> ip, sig |-> 0]
S(tid, ip) == [tid |-> tid, kind |-> "run", ip |-> ip, sig |-> 11]
Exec(tid) == [tid |-> tid, kind |-> "exec", ip |-> 0, sig |-> 0]
Exit(tid) == [tid |-> tid, kind |-> "exit", ip |-> 0, sig |-> 0]

(* Packets. *)
Plain(k) == [k |-> k]
Cont(actions) == [k |-> "v", what |-> "Cont", actions |-> actions]
Go == Cont(<<Action("continue", AnyThread)>>)
StepT(t) == Cont(<<Action("step", Thread(1, t)), Action("continue", AnyThread)>>)
TwoDefaults == Cont(<<Action("step", AnyThread), Action("continue", AnyThread)>>)
Back(what) == [k |-> "b", what |-> what]
Hg(t) == [k |-> "H", c |-> FALSE, target |-> Thread(1, t)]
Hc(t) == [k |-> "H", c |-> TRUE, target |-> Thread(1, t)]
Z(a) == [k |-> "Z", addr |-> a, cond |-> <<>>]
ZIf(a, e) == [k |-> "Z", addr |-> a, cond |-> e]
Zoff(a) == [k |-> "z", addr |-> a, cond |-> <<>>]
Siginfo(write) == [k |-> "q", what |-> "Xfer", object |-> "siginfo", write |-> write]
Auxv == [k |-> "q", what |-> "Xfer", object |-> "auxv", write |-> FALSE]
ExecFile(n) == [k |-> "q", what |-> "Xfer", object |-> "exec-file", write |-> FALSE, target |-> n]
Q(what) == [k |-> "q", what |-> what]
TLS(t) == [k |-> "q", what |-> "GetTLSAddr", target |-> Thread(1, t)]
Extra(t) == [k |-> "q", what |-> "ThreadExtraInfo", target |-> Thread(1, t)]
Symbol(n) == [k |-> "q", what |-> "Symbol", name |-> n]
Rr(name) == [k |-> "q", what |-> "RRCmd", cmd |-> [name |-> name, id |-> 1]]
Write(n) == [k |-> "X", len |-> n]
Reg(orig) == [k |-> "P", orig |-> orig]
IsAlive(t) == [k |-> "T", target |-> Thread(1, t)]
Run(from, n) == [k |-> "v", what |-> "Run", from |-> from, param |-> n]
File(op, a) == [k |-> "v", what |-> "File", file |-> op, arg |-> a]
Search(m) == [k |-> "q", what |-> "Search", mem |-> m]

Session(trace, tg, first, calls, more) ==
  [trace |-> trace, tgid |-> tg, debuggee |-> 1, barrier |-> 2, target |-> [pid |-> 0, event |-> 1],
   first |-> first, calls |-> calls, more |-> more, wanted |-> {}, ints |-> 0, hangup |-> FALSE, lives |-> 0]

One == <<F(1, 10), F(1, 11), F(1, 12), S(1, 13), F(1, 11), Exit(1)>>
Two == <<F(1, 10), F(1, 11), F(2, 11), F(1, 12), F(2, 12), Exit(2), F(1, 13), Exit(1)>>
Processes == <<F(1, 10), F(1, 11), F(3, 11), S(3, 12), F(1, 12), Exit(3), F(1, 13), Exit(1)>>
Execs == <<F(1, 10), F(1, 11), Exec(1), F(1, 12), Exit(1)>>
Truncated == <<F(1, 10), F(1, 11), F(1, 12)>>

Ask == Plain("?")
G == Plain("g")
M == Plain("m")

Stepping == Session(One, <<1>>, <<Ask>>, {Go, StepT(1), Back("c"), Back("s"), G, M, Z(11), Zoff(11)}, 5)
Interrupting == [Session(One, <<1>>, <<Plain("Q"), Ask>>, {Go, Back("c"), G}, 2) EXCEPT !.ints = 1]
Threads == Session(Two, <<1, 1>>, <<Ask>>, {Go, StepT(2), Back("s"), Hg(1), Hg(2), Hc(2), G}, 4)
Restarting ==
  Session(One, <<1>>, <<Ask, Rr("checkpoint")>>,
          {Go, Back("c"), Rr("delete checkpoint"), Run("checkpoint", 1), Run("previous", 0), M}, 4)
FromEvent == Session(One, <<1>>, <<Ask, Rr("checkpoint")>>, {Go, Run("event", 3), Run("event", 99), M}, 4)
History ==
  Session(One, <<1>>, <<Ask, Rr("rr-history-push")>>,
          {Go, Rr("rr-history-push"), Rr("back"), Rr("forward"), G}, 5)
Calling ==
  Session(One, <<1>>, <<Ask, Go, Siginfo(FALSE)>>,
          {Write(1), Go, M, Siginfo(TRUE), Rr("checkpoint"), Rr("when"), Back("c"), Run("previous", 0)}, 4)
NestedCall ==
  Session(One, <<1>>, <<Ask, Siginfo(FALSE), Reg(FALSE), Z(12)>>,
          {Siginfo(FALSE), Siginfo(TRUE), Go, G, Hc(1), Zoff(12)}, 4)
CallInterrupted ==
  [Session(One, <<1>>, <<Ask, StepT(1), Siginfo(FALSE)>>, {Go, M}, 1) EXCEPT !.ints = 1]
OtherProcess == Session(Processes, <<1, 0, 3>>, <<Ask>>, {Go, StepT(1), Back("c"), Back("s"), G}, 4)
OtherInterrupted ==
  [Session(Processes, <<1, 0, 3>>, <<Ask>>, {Go}, 1) EXCEPT !.ints = 1]
Executing == Session(Execs, <<1>>, <<Ask>>, {Go, Rr("checkpoint"), Run("previous", 0), Run("checkpoint", 1), M}, 4)
Cut == Session(Truncated, <<1>>, <<Ask>>, {Go, Run("previous", 0), Q("fThreadInfo")}, 4)
Leaving_ == [Session(One, <<1>>, <<Ask>>, {Go, Plain("D"), Siginfo(FALSE), M, Z(12)}, 3)
               EXCEPT !.hangup = TRUE, !.lives = 1]
NoTarget == [Session(One, <<1>>, <<>>, {}, 0) EXCEPT !.target.event = 20]

(* Conditions: the word at 0 is the position, the one at 1 is 300, and      *)
(* register 0 is the instruction pointer.                                   *)
Loop == <<F(1, 10), F(1, 11), F(1, 12), F(1, 11), F(1, 12), F(1, 11), F(1, 12), Exit(1)>>
Word(a) == <<I("const", a), I("ref", 0)>>
PositionIs(op, n) == Word(0) \o <<I("const", n), I(op, 0), I("end", 0)>>
Narrowed(n) == Word(1) \o <<I("ext", 16), I("const", n), I("equal", 0), I("end", 0)>>
Unwidened == Word(0) \o <<I("zero_ext", 16), I("const", 4), I("sub", 0), I("log_not", 0), I("end", 0)>>
DividesByZero == <<I("const", 1), I("const", 0), I("div", 0), I("end", 0)>>
Loops == <<I("const", 1), I("goto", 1)>>
Branches ==       \* ip = 11 && position % 4 = 0, with the stack shuffled
  <<I("reg", 0), I("const", 11), I("equal", 0), I("if_goto", 7), I("const", 0), I("end", 0)>>
  \o <<I("const", 4), I("const", 0), I("ref", 0), I("swap", 0), I("rem", 0), I("dup", 0), I("pop", 0),
       I("log_not", 0), I("end", 0)>>
Shuffles ==       \* position * 2 < 10 + 0, by pick and rot
  <<I("const", 10), I("const", 2), I("const", 0), I("ref", 0), I("rot", 0), I("pick", 2), I("pop", 0)>>
  \o <<I("pop", 0), I("mul", 0), I("const", 10), I("less", 0), I("const", 0), I("add", 0), I("end", 0)>>
Condition(es, wanted) ==
  [Session(Loop, <<1>>, <<Ask, ZIf(11, es)>>, {Go, StepT(1), Back("c")}, 3) EXCEPT !.wanted = wanted]
All == {2, 4, 6}
Conditions ==
  {Condition(<<PositionIs("equal", 4)>>, {4}), Condition(<<PositionIs("equal", 4), PositionIs("equal", 6)>>, {4, 6}),
   Condition(<<Narrowed(300)>>, All), Condition(<<Narrowed(7)>>, {}), Condition(<<Unwidened>>, {4}),
   Condition(<<DividesByZero>>, All), Condition(<<Loops>>, All), Condition(<<Branches>>, {4}),
   Condition(<<PositionIs("less", 4)>>, {2}), Condition(<<Shuffles>>, {2, 4})}

(* Bytes in two adjoining mappings and a third one, a page unreadable. *)
Pages(bytes) == [maps |-> <<[start |-> 2, end |-> 6], [start |-> 6, end |-> 8], [start |-> 10, end |-> 14]>>,
                 bytes |-> bytes, lo |-> 1, hi |-> 14, find |-> <<1, 1, 0>>]
Contents == {[a \in {2, 3, 4, 5, 6, 7, 12, 13} |-> IF a \in ones THEN 1 ELSE 0] :
               ones \in {{3, 4}, {4, 5}, {5, 6}, {2, 3, 4, 5, 6, 7}, {6, 7}, {12, 13}}}
Searching == Session(One, <<1>>, <<Ask>>, {Search(Pages(b)) : b \in Contents}
                     \union {Search([Pages(b) EXCEPT !.lo = 5, !.hi = 8]) : b \in Contents}, 1)

Asking_ ==
  Session(Two, <<1, 1>>, <<Ask, StepT(1), Hg(1)>>,
          {TLS(2), Extra(2), Auxv, ExecFile(0), ExecFile(1), ExecFile(7), IsAlive(2), IsAlive(9), Hg(9),
           Q("C"), Q("Offsets"), Q("fThreadInfo"), Q("Supported"), Plain("p"), Write(0), Write(1), Reg(TRUE),
           Siginfo(TRUE), TwoDefaults, Run("checkpoint", 5)}, 2)
Looking ==
  Session(One, <<1>>, <<Ask>>,
          {File("FILE_SETFS", 0), File("FILE_OPEN", 1), File("FILE_OPEN", 7), File("FILE_PREAD", 0),
           File("FILE_CLOSE", 0), Symbol(""), Symbol("x")}, 4)

PassingSessions == Conditions \union {Searching, Asking_, Looking,
                    Stepping, Interrupting, Threads, Restarting, FromEvent, History, Calling, NestedCall,
                    CallInterrupted, OtherProcess, OtherInterrupted, Executing, Cut, Leaving_, NoTarget}
=============================================================================

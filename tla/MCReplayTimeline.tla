--------------------------- MODULE MCReplayTimeline ---------------------------
(* Instances of ReplayTimeline for TLC: a trace of four events of two tasks. *)
EXTENDS ReplayTimeline

Tasks == {"a", "b"}
ConstKeyOf == [p \in 0..14 |-> <<0, 1, 1, 2, 3, 4, 4, 5, 6, 7, 7, 7, 8, 9, 10>>[p + 1]]
ConstTimeOf == [p \in 0..14 |-> <<1, 1, 1, 1, 2, 2, 2, 2, 3, 3, 3, 3, 3, 4, 4>>[p + 1]]
ConstTicksOf == [p \in 0..14 |-> <<0, 0, 0, 1, 0, 0, 0, 1, 1, 1, 1, 1, 2, 1, 1>>[p + 1]]
ConstTaskOf == [p \in 0..14 |-> IF p \in (4..7) \cup {13, 14} THEN "b" ELSE "a"]
ConstSilent == {1, 4, 5, 8, 9, 13, 14}
ConstClonable == 4..14

\* A session in which the debugger waits for stops of both tasks.
Plain == [laststop |-> 12, strings |-> {}, filters |-> {Tasks}, barrier |-> -1,
          breaksets |-> {{6}}, watchsets |-> {{7}}, ignoredsets |-> {{}},
          short |-> 2, low |-> 4, maxclient |-> 0, ops |-> {}]

\* Reverse-continues, with conditions and checkpoints close together.
Continue == [Plain EXCEPT !.breaksets = {{6, 10}}, !.watchsets = {{}, {7}},
               !.ignoredsets = {{}, {10}}, !.short = 1, !.low = 1,
               !.ops = {"forward", "continue"}]
\* Reverse steps, over a string instruction with breakpoints on it.
Step == [Plain EXCEPT !.strings = {9, 10, 11}, !.filters = {Tasks},
           !.ops = {"forward", "step"}]
StepOther == [Step EXCEPT !.filters = {{"b"}}]
\* The debugger's own checkpoints, a barrier, new watchpoints and interrupts.
Checkpoints == [Plain EXCEPT !.laststop = 7, !.barrier = 4, !.watchsets = {{}, {7}},
                  !.maxclient = 1,
                  !.ops = {"forward", "continue", "set", "checkpoint", "restart",
                           "interrupt"}]
\* Both kinds of reverse execution in one session.
Mixed == [Plain EXCEPT !.laststop = 7, !.ops = {"forward", "continue", "step"}]

PassingSessions == [continue |-> Continue, step |-> Step, step_other |-> StepOther,
                    checkpoints |-> Checkpoints, mixed |-> Mixed]
================================================================================

---------------------------- MODULE GdbExpression ----------------------------
(* GdbExpression.cc: the interpreter of gdb's agent expressions, which rr   *)
(* runs for the condition of a breakpoint.  A program is a sequence of      *)
(* instructions [op, n]; a jump names the index of its target.  gdb encodes *)
(* the wrong width in its ext and zero_ext instructions, so all the widths  *)
(* it may have meant are tried and must agree.                              *)
EXTENDS Integers, Sequences, SequencesExt, FiniteSets

CONSTANTS MaxSteps,      \* the interpreter gives up after this many steps
          MaxVariants    \* and on programs with more readings than this

ASSUME ExpressionAssumption == MaxSteps \in Nat /\ MaxVariants \in Nat \ {0}

I(op, n) == [op |-> op, n |-> n]
Extensions == {"ext", "zero_ext"}
BinaryOps == {"add", "sub", "mul", "div", "rem", "equal", "less"}

-----------------------------------------------------------------------------
(* ExpressionState: the stack, the program counter, error and end.          *)
Start == [stack |-> <<>>, pc |-> 1, error |-> FALSE, end |-> FALSE]

set_error(s) == [s EXCEPT !.error = TRUE]

(* The value pop returns, and the state it leaves. *)
Popped(s) == IF s.stack = <<>> THEN -1 ELSE Last(s.stack)
pop(s) == IF s.stack = <<>> THEN set_error(s) ELSE [s EXCEPT !.stack = Front(@)]
push(s, v) == [s EXCEPT !.stack = Append(@, v)]

(* The operands of a binary operator: a is below b on the stack. *)
pop_a_b(s) == [a |-> Popped(pop(s)), b |-> Popped(s), s |-> pop(pop(s))]

(* Division in C truncates towards zero.  nonzero replaces a zero divisor.  *)
Abs(n) == IF n < 0 THEN -n ELSE n
Quotient(a, b) ==
  LET d == IF b = 0 THEN 1 ELSE b
      q == Abs(a) \div Abs(d)
  IN IF (a < 0) # (d < 0) THEN -q ELSE q
Remainder(a, b) == LET d == IF b = 0 THEN 1 ELSE b IN a - d * Quotient(a, d)

Truth(b) == IF b THEN 1 ELSE 0

Apply(op, a, b) ==
  CASE op = "add" -> a + b
    [] op = "sub" -> a - b
    [] op = "mul" -> a * b
    [] op = "div" -> Quotient(a, b)
    [] op = "rem" -> Remainder(a, b)
    [] op = "equal" -> Truth(a = b)
    [] op = "less" -> Truth(a < b)

Binary(s, op) ==
  LET p == pop_a_b(s)
      v == push(p.s, Apply(op, p.a, p.b))
  IN IF op \in {"div", "rem"} /\ p.b = 0 THEN set_error(v) ELSE v

pick(s, offset) ==
  IF offset >= Len(s.stack) THEN set_error(s)
  ELSE push(s, s.stack[Len(s.stack) - offset])

(* Extension from n bits: the low bits, with the sign bit spread over the   *)
(* rest for ext.  A width of 64 or more leaves the stack alone; a width of  *)
(* zero is an error for ext only.                                           *)
Extend(s, op, n) ==
  LET v == Popped(s)
      width == IF n = 0 /\ op = "ext" THEN 1 ELSE n
      low == v % (2 ^ width)
      signed == op = "ext" /\ low >= 2 ^ (width - 1)
      r == push(pop(s), IF signed THEN low - 2 ^ width ELSE low)
  IN IF n >= 64 THEN s
     ELSE IF n = 0 /\ op = "ext" THEN set_error(r) ELSE r

(* load pops the address first, and reads nothing once there is an error.   *)
(* mem maps the readable addresses to their values.                         *)
load(s, mem) ==
  LET p == pop(s) IN
  IF p.error \/ Popped(s) \notin DOMAIN mem THEN set_error(p) ELSE push(p, mem[Popped(s)])

rot(s) ==
  LET c == Popped(s)  b == Popped(pop(s))  a == Popped(pop(pop(s)))
  IN push(push(push(pop(pop(pop(s))), c), b), a)

swap(s) == LET p == pop_a_b(s) IN push(push(p.s, p.b), p.a)

(* One instruction for a task with memory mem and registers regs.  Fetching *)
(* past the end of the program gives an invalid opcode and sets the error.  *)
step_program(s, prog, mem, regs) ==
  LET i == prog[s.pc]
      t == [s EXCEPT !.pc = @ + 1]
  IN IF s.pc > Len(prog) THEN set_error(s)
     ELSE CASE i.op \in BinaryOps -> Binary(t, i.op)
            [] i.op = "log_not" -> push(pop(t), Truth(Popped(t) = 0))
            [] i.op \in Extensions -> Extend(t, i.op, i.n)
            [] i.op = "ref" -> load(t, mem)
            [] i.op = "dup" -> pick(t, 0)
            [] i.op = "swap" -> swap(t)
            [] i.op = "pop" -> pop(t)
            [] i.op = "pick" -> pick(t, i.n)
            [] i.op = "rot" -> rot(t)
            [] i.op = "if_goto" -> [pop(t) EXCEPT !.pc = IF Popped(t) # 0 THEN i.n ELSE @]
            [] i.op = "goto" -> [t EXCEPT !.pc = i.n]
            [] i.op = "const" -> push(t, i.n)
            [] i.op = "reg" -> IF i.n \in DOMAIN regs THEN push(t, regs[i.n]) ELSE set_error(t)
            [] i.op = "end" -> [t EXCEPT !.end = TRUE]
            [] OTHER -> set_error(t)

-----------------------------------------------------------------------------
(* The widths gdb may have meant where it wrote bits. *)
Widths(bits) == {w \in {8, 16, 32} : w < bits} \union {bits}
count_variants(bits) == Cardinality(Widths(bits))

(* The instructions that control flow can reach from the first. *)
Successors(prog, pc) ==
  LET i == prog[pc] IN
  (CASE i.op = "goto" -> {i.n}
     [] i.op = "if_goto" -> {i.n, pc + 1}
     [] i.op = "end" -> {}
     [] OTHER -> {pc + 1}) \intersect DOMAIN prog

RECURSIVE Visit(_, _, _)
Visit(prog, unvisited, starts) ==
  IF unvisited = {} THEN starts
  ELSE LET seen == starts \union unvisited
       IN Visit(prog, UNION {Successors(prog, pc) : pc \in unvisited} \ seen, seen)

instruction_starts(prog) == Visit(prog, {1} \intersect DOMAIN prog, {})

Reachable(prog) ==
  SetToSeq({pc \in instruction_starts(prog) : prog[pc].op \in Extensions})

num_variants(prog) ==
  FoldLeft(LAMBDA n, pc : n * count_variants(prog[pc].n), 1, Reachable(prog))

(* The programs to evaluate; none if there would be too many. *)
bytecode_variants(prog) ==
  IF num_variants(prog) > MaxVariants THEN {}
  ELSE FoldLeft(LAMBDA vs, pc :
                  {[v EXCEPT ![pc].n = w] : v \in vs, w \in Widths(prog[pc].n)},
                {prog}, Reachable(prog))

-----------------------------------------------------------------------------
(* evaluate's loop. *)
RECURSIVE Final(_, _, _, _, _)
Final(s, steps, prog, mem, regs) ==
  IF s.end \/ s.error \/ steps >= MaxSteps THEN s
  ELSE Final(step_program(s, prog, mem, regs), steps + 1, prog, mem, regs)

(* The result of a program, or failure: all its readings must end without   *)
(* an error and give one value.                                             *)
evaluate(prog, mem, regs) ==
  LET ends == {Final(Start, 0, v, mem, regs) : v \in bytecode_variants(prog)}
      ok == ends # {} /\ \A s \in ends : s.end /\ ~pop(s).error
      values == {Popped(s) : s \in ends}
  IN [ok |-> ok /\ Cardinality(values) = 1, v |-> IF ok THEN Popped(CHOOSE s \in ends : TRUE) ELSE 0]

(* Mutant: an expression that fails does not break. *)
breakpoint_condition_errors(exprs, mem, regs) ==
  \/ exprs = <<>>
  \/ \E i \in DOMAIN exprs : LET r == evaluate(exprs[i], mem, regs) IN r.ok /\ r.v # 0

(* GdbBreakpointCondition::evaluate: break if one of the expressions fails  *)
(* or is not zero.  A breakpoint without expressions has no condition.      *)
breakpoint_condition(exprs, mem, regs) ==
  \/ exprs = <<>>
  \/ \E i \in DOMAIN exprs : LET r == evaluate(exprs[i], mem, regs) IN ~r.ok \/ r.v # 0
=============================================================================

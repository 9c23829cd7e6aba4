----------------------------- MODULE Breakpoints -----------------------------
(***************************************************************************)
(* The breakpoints and watchpoints of a replay.  ReplayTimeline keeps what *)
(* the debugger asked for; it puts that into the address space of the      *)
(* current session (a trap instruction in memory, ranges in the debug      *)
(* registers) and takes it out again before the session is copied into a   *)
(* checkpoint.  Replay sets breakpoints of its own in the same table, and  *)
(* copies recorded kernel writes over memory that holds trap instructions. *)
(* One address space is followed, with the latest copy made of it.         *)
(***************************************************************************)
EXTENDS WatchRegisters

CONSTANTS Values,        \* bytes of the program
          NumRegs,       \* NUM_X86_WATCHPOINTS
          Sessions       \* debugging sessions: the program's memory, what the
                         \* debugger sets and where, what is replayed

ASSUME SessionsAssumption ==
  /\ NumRegs \in Nat
  /\ \A s \in Sessions :
       /\ s.addr \subseteq Nat /\ s.memories \subseteq [s.addr -> Values]
       /\ s.breaks \cup s.syscalls \cup s.stores \cup s.fetches \subseteq s.addr
       /\ \A r \in s.watches \cup s.records : BytesOf(r) \subseteq s.addr
       /\ s.types \subseteq WatchTypes /\ s.maxwatches \in Nat

VARIABLES session,      \* the member of Sessions, never changed
          vm,           \* the address space of the current session
          syscall_bp,   \* where replay keeps a breakpoint of its own
          breakpoints,  \* ReplayTimeline: breakpoints the debugger set
          watchpoints,  \* ReplayTimeline: watchpoints the debugger set
          applied,      \* ReplayTimeline: whether they are in vm
          copy,         \* the latest copy of the session or of its vm
          prog,         \* the memory as the recorded program has it
          due           \* watched ranges accessed since changes were consumed

vars == <<session, vm, syscall_bp, breakpoints, watchpoints, applied, copy, prog, due>>

Addr         == session.addr       \* the addresses of the memory that is modelled
BreakAddrs   == session.breaks     \* where the debugger sets breakpoints
SyscallAddrs == session.syscalls   \* syscall instructions replay runs to
WatchRanges  == session.watches    \* ranges the debugger watches
Types        == session.types      \* kinds of watchpoint the debugger sets
MaxWatches   == session.maxwatches \* bound: watchpoints set at once
StoreAddrs   == session.stores     \* addresses the program's instructions access
FetchAddrs   == session.fetches    \* addresses the program executes
RecordRanges == session.records    \* ranges of the data records of the trace
Ops          == session.ops        \* the operations of this session

breakpoint_insn == "int3"
ASSUME InsnAssumption == breakpoint_insn \notin Values

NoAddr == -1
NoCopy == [kind |-> "none"]
Nothing == [x \in {} |-> x]

\* The debug registers, as get_watch_configs computes them from the watchpoints.
get_watch_configs(wps) ==
  LET Configs(r, type) == {[range |-> r, type |-> type, reg |-> g] :
                             g \in ToSet(configure_watch_registers(r, type))}
      Of(r) == (IF wps[r].exec > 0 THEN Configs(r, "exec") ELSE {})
               \cup (IF wps[r].read > 0 THEN Configs(r, "readwrite")
                     ELSE IF wps[r].write > 0 THEN Configs(r, "write") ELSE {})
  IN  UNION {Of(r) : r \in DOMAIN wps}

\* allocate_watchpoints: all of them in registers, or none.
allocate_watchpoints(m) ==
  [m EXCEPT !.hw = Cardinality(get_watch_configs(m.wps)) <= NumRegs]

\* The ranges the processor is watching.
Programmed(m) == IF m.hw THEN get_watch_configs(m.wps) ELSE {}

-----------------------------------------------------------------------------
(* AddressSpace: breakpoints *)

\* The first reference saves the byte and writes the trap instruction.
add_breakpoint(m, a, type) ==
  IF a \in DOMAIN m.bps THEN [m EXCEPT !.bps[a][type] = @ + 1]
  ELSE LET new == [internal |-> 0, user |-> 0, data |-> m.mem[a]]
       IN  [m EXCEPT !.bps = (a :> [new EXCEPT ![type] = 1]) @@ @,
                     !.mem[a] = breakpoint_insn]

\* destroy_breakpoint writes the saved byte back.
destroy_breakpoint(m, a) ==
  [m EXCEPT !.mem[a] = m.bps[a].data, !.bps = Restrict(@, DOMAIN @ \ {a})]

remove_breakpoint(m, a, type) ==
  IF a \notin DOMAIN m.bps THEN m
  ELSE LET n == [m EXCEPT !.bps[a][type] = @ - 1]
       IN  IF n.bps[a].internal + n.bps[a].user > 0 THEN n ELSE destroy_breakpoint(n, a)

remove_all_breakpoints(m) ==
  [m EXCEPT !.mem = [a \in Addr |-> IF a \in DOMAIN m.bps THEN m.bps[a].data ELSE @[a]],
            !.bps = Nothing]

\* Memory as shown to the debugger: the saved bytes instead of the traps.
replace_breakpoints_with_original_values(m) ==
  [a \in Addr |-> IF a \in DOMAIN m.bps THEN m.bps[a].data ELSE m.mem[a]]

-----------------------------------------------------------------------------
(* AddressSpace: watchpoints *)

access_bits_of(type) ==
  CASE type = "exec" -> {"exec"} [] type = "write" -> {"write"}
    [] type = "readwrite" -> {"read", "write"}

ValueIn(m, r) == [a \in BytesOf(r) |-> m.mem[a]]

\* Watchpoint::watch and unwatch.
Count(wp, type, n) ==
  [f \in DOMAIN wp |-> IF f \in access_bits_of(type) THEN wp[f] + n ELSE wp[f]]

add_watchpoint(m, r, type) ==
  LET new == [exec |-> 0, read |-> 0, write |-> 0, value |-> ValueIn(m, r), changed |-> FALSE]
      old == IF r \in DOMAIN m.wps THEN m.wps[r] ELSE new
  IN  allocate_watchpoints([m EXCEPT !.wps = (r :> Count(old, type, 1)) @@ @])

remove_watchpoint(m, r, type) ==
  IF r \notin DOMAIN m.wps THEN allocate_watchpoints(m)
  ELSE LET wp == Count(m.wps[r], type, -1)
       IN  allocate_watchpoints(
             IF wp.exec + wp.read + wp.write = 0
             THEN [m EXCEPT !.wps = Restrict(@, DOMAIN @ \ {r})]
             ELSE [m EXCEPT !.wps[r] = wp])

remove_all_watchpoints(m) == allocate_watchpoints([m EXCEPT !.wps = Nothing])

\* update_watchpoint_value for the ranges in R, noting in "changed" those whose
\* value is another one, and those in Hit.
UpdateValues(m, R, Hit) ==
  [m EXCEPT !.wps = [r \in DOMAIN @ |->
     [@[r] EXCEPT !.value = IF r \in R THEN ValueIn(m, r) ELSE @,
                  !.changed = @ \/ r \in Hit
                                \/ (r \in R /\ ValueIn(m, r) # m.wps[r].value)]]]

\* notify_written, for writes that are not related to breakpoints.
notify_written(m, bytes) ==
  UpdateValues(m, {r \in DOMAIN m.wps : BytesOf(r) \cap bytes # {}}, {})

\* Mutant: believes every exec register the processor reports.
notify_watchpoint_fired_unfiltered(m, status, start) ==
  UpdateValues(m, {r \in DOMAIN m.wps : m.wps[r].write > 0},
               {r \in DOMAIN m.wps :
                  \E s \in status : s.range = r /\ s.type \in {"readwrite", "exec"}})

\* A write watchpoint fires when its value is another one, the others when one of
\* their registers did; after a single step an exec watchpoint only counts at the
\* instruction that was stepped.  A register belongs to the exec or the read side.
notify_watchpoint_fired(m, status, start) ==
  LET Fired(r) == \E s \in status : s.range = r /\ s.type # "write"
  IN  UpdateValues(m, {r \in DOMAIN m.wps : m.wps[r].write > 0},
                   {r \in DOMAIN m.wps :
                      /\ Fired(r)
                      /\ \/ m.wps[r].read > 0
                         \/ m.wps[r].exec > 0 /\ start \in {NoAddr, r.start}})

\* Mutant: stops short of one more byte at the start.
maybe_update_breakpoints_after_first(m, r) ==
  LET Over == {a \in DOMAIN m.bps : r.start < a /\ a < r.end - 1}
  IN  [m EXCEPT !.bps = [a \in DOMAIN @ |-> IF a \in Over THEN [@[a] EXCEPT !.data = m.mem[a]] ELSE @[a]],
                !.mem = [a \in Addr |-> IF a \in Over THEN breakpoint_insn ELSE @[a]]]

\* maybe_update_breakpoints: the traps that a data record overwrote are put back,
\* with writes that watchpoints are told of.
maybe_update_breakpoints(m, r) ==
  LET Over == {a \in DOMAIN m.bps : r.start <= a /\ a < r.end - 1}
  IN  notify_written(
        [m EXCEPT !.bps = [a \in DOMAIN @ |-> IF a \in Over THEN [@[a] EXCEPT !.data = m.mem[a]] ELSE @[a]],
                  !.mem = [a \in Addr |-> IF a \in Over THEN breakpoint_insn ELSE @[a]]],
        Over)

-----------------------------------------------------------------------------
(* ReplayTimeline: applying and unapplying *)

AddWatches(m, W) == FoldSet(LAMBDA w, n : add_watchpoint(n, w.range, w.type), m, W)
RemoveWatches(m, W) == FoldSet(LAMBDA w, n : remove_watchpoint(n, w.range, w.type), m, W)
ExecOf(W) == {w \in W : w.type = "exec"}

\* apply_breakpoints_internal, with the lists B and W.
apply_breakpoints_internal(m, B, W) ==
  AddWatches(FoldSet(LAMBDA a, n : add_breakpoint(n, a, "user"), m, B), ExecOf(W))

\* apply_breakpoints_and_watchpoints, on the session's vm m.
ApplyTo(m, B, W) ==
  IF applied THEN m ELSE AddWatches(apply_breakpoints_internal(m, B, W), W \ ExecOf(W))

\* The exec watchpoints are removed in the loop over the breakpoints, once for each.
unapply_breakpoints_internal(m) ==
  FoldSet(LAMBDA a, n : RemoveWatches(remove_breakpoint(n, a, "user"), ExecOf(watchpoints)),
          m, breakpoints)

\* unapply_breakpoints_and_watchpoints, on the session's vm.
UnappliedVm ==
  IF ~applied THEN vm
  ELSE RemoveWatches(unapply_breakpoints_internal(vm), watchpoints \ ExecOf(watchpoints))

\* What is still due for ranges that are watched in m.
DueIn(m) == due \cap DOMAIN m.wps

\* Replaces the vm by m in a step that changes no byte of the program.
SetVm(m) == vm' = m /\ due' = DueIn(m) /\ UNCHANGED prog

\* add_breakpoint drops an older breakpoint at the address, applies, and adds it.
AddBreakpoint(a) ==
  /\ "breakpoint" \in Ops
  /\ LET dropped == IF a \in breakpoints /\ applied THEN remove_breakpoint(vm, a, "user") ELSE vm
     IN  SetVm(add_breakpoint(ApplyTo(dropped, breakpoints \ {a}, watchpoints), a, "user"))
  /\ breakpoints' = breakpoints \cup {a}
  /\ applied' = TRUE
  /\ UNCHANGED <<syscall_bp, watchpoints, copy>>

RemoveBreakpoint(a) ==
  /\ "breakpoint" \in Ops /\ a \in breakpoints
  /\ SetVm(IF applied THEN remove_breakpoint(vm, a, "user") ELSE vm)
  /\ breakpoints' = breakpoints \ {a}
  /\ UNCHANGED <<syscall_bp, watchpoints, applied, copy>>

\* add_watchpoint: as for a breakpoint; it is not listed when the registers do not
\* suffice.
AddWatchpoint(r, type) ==
  LET w       == [range |-> r, type |-> type]
      rest    == watchpoints \ {w}
      dropped == IF w \in watchpoints /\ applied THEN remove_watchpoint(vm, r, type) ELSE vm
      added   == add_watchpoint(ApplyTo(dropped, breakpoints, rest), r, type)
  IN  /\ "watchpoint" \in Ops
      /\ Cardinality(rest \cup {w}) <= MaxWatches
      /\ vm' = added /\ UNCHANGED prog
      /\ due' = DueIn(dropped)
      /\ watchpoints' = IF added.hw THEN rest \cup {w} ELSE rest
      /\ applied' = TRUE
      /\ UNCHANGED <<syscall_bp, breakpoints, copy>>

RemoveWatchpoint(w) ==
  /\ "watchpoint" \in Ops /\ w \in watchpoints
  /\ SetVm(IF applied THEN remove_watchpoint(vm, w.range, w.type) ELSE vm)
  /\ watchpoints' = watchpoints \ {w}
  /\ UNCHANGED <<syscall_bp, breakpoints, applied, copy>>

\* remove_breakpoints_and_watchpoints: the debugger detaches.
RemoveAll ==
  /\ "unapply" \in Ops
  /\ SetVm(UnappliedVm)
  /\ breakpoints' = {} /\ watchpoints' = {} /\ applied' = FALSE
  /\ UNCHANGED <<syscall_bp, copy>>

\* apply_breakpoints_and_watchpoints, before the replay is run for the debugger.
Apply ==
  /\ "apply" \in Ops /\ ~applied
  /\ SetVm(ApplyTo(vm, breakpoints, watchpoints))
  /\ applied' = TRUE
  /\ UNCHANGED <<syscall_bp, breakpoints, watchpoints, copy>>

\* unapply_breakpoints_and_watchpoints, before a seek.
Unapply ==
  /\ "unapply" \in Ops /\ applied
  /\ SetVm(UnappliedVm)
  /\ applied' = FALSE
  /\ UNCHANGED <<syscall_bp, breakpoints, watchpoints, copy>>

\* clear_syscall_bp on the session.
ClearedOfSyscallBp(m) ==
  IF syscall_bp = NoAddr THEN m ELSE remove_breakpoint(m, syscall_bp, "internal")

\* add_explicit_checkpoint: unapply, then ReplaySession::clone, which clears
\* replay's own breakpoint first.
Checkpoint ==
  LET m == ClearedOfSyscallBp(UnappliedVm)
  IN  /\ "checkpoint" \in Ops
      /\ SetVm(m)
      /\ applied' = FALSE
      /\ syscall_bp' = NoAddr
      /\ copy' = [kind |-> "checkpoint", vm |-> m, prog |-> prog]
      /\ UNCHANGED <<breakpoints, watchpoints>>

\* seek_to_before_key takes a clone of the checkpoint for the current session and
\* notes that nothing is applied to it.
SeekToCheckpoint ==
  /\ copy.kind = "checkpoint"
  /\ vm' = copy.vm /\ prog' = copy.prog
  /\ due' = {}
  /\ applied' = FALSE
  /\ syscall_bp' = NoAddr
  /\ UNCHANGED <<breakpoints, watchpoints, copy>>

\* Replay of a fork: the child's address space is a copy of the parent's and is
\* cleared of breakpoints and watchpoints.
ForkChild ==
  /\ "fork" \in Ops
  /\ copy' = [kind |-> "child", vm |-> remove_all_watchpoints(remove_all_breakpoints(vm)),
              prog |-> prog]
  /\ UNCHANGED <<vm, syscall_bp, breakpoints, watchpoints, applied, prog, due>>

-----------------------------------------------------------------------------
(* ReplaySession and the program *)

\* enter_syscall sets a breakpoint at the syscall instruction, once.
EnterSyscall(a) ==
  /\ "syscall" \in Ops
  /\ syscall_bp = NoAddr
  /\ SetVm(add_breakpoint(vm, a, "internal"))
  /\ syscall_bp' = a
  /\ UNCHANGED <<breakpoints, watchpoints, applied, copy>>

\* ...and it is cleared when the syscall has been reached.
ReachSyscall ==
  /\ syscall_bp # NoAddr
  /\ SetVm(ClearedOfSyscallBp(vm))
  /\ syscall_bp' = NoAddr
  /\ UNCHANGED <<breakpoints, watchpoints, applied, copy>>

Changed(new) == {a \in Addr : new[a] # prog[a]}

\* Watched ranges of m with a write watchpoint over one of these bytes.
WriteWatched(m, bytes) == {r \in DOMAIN m.wps : m.wps[r].write > 0 /\ BytesOf(r) \cap bytes # {}}

\* The trap after an instruction that hit the registers in status: watchpoints are
\* looked at after a hit and after every single step (compute_trap_reasons).
AfterTrap(m, status, singlestep, start) ==
  IF status # {} \/ singlestep
  THEN notify_watchpoint_fired(m, status, IF singlestep THEN start ELSE NoAddr)
  ELSE m

Hits(a, types) == {s \in Programmed(vm) : s.type \in types /\ a \in BytesOf(s.reg)}

\* An instruction of the program stores v at a.
Store(a, v, singlestep) ==
  LET m      == [vm EXCEPT !.mem[a] = v]
      status == Hits(a, {"write", "readwrite"})
      new    == [prog EXCEPT ![a] = v]
  IN  /\ "store" \in Ops
      /\ vm' = AfterTrap(m, status, singlestep, NoAddr)
      /\ prog' = new
      /\ due' = due \cup WriteWatched(vm, Changed(new))
                    \cup {r \in DOMAIN vm.wps : vm.wps[r].read > 0 /\ a \in BytesOf(r)}
      /\ UNCHANGED <<syscall_bp, breakpoints, watchpoints, applied, copy>>

\* An instruction of the program reads a.
Load(a) ==
  LET status == Hits(a, {"readwrite"})
  IN  /\ "store" \in Ops
      /\ vm' = AfterTrap(vm, status, FALSE, NoAddr)
      /\ due' = due \cup {r \in DOMAIN vm.wps : vm.wps[r].read > 0 /\ a \in BytesOf(r)}
      /\ UNCHANGED <<syscall_bp, breakpoints, watchpoints, applied, copy, prog>>

\* The program executes the instruction at a.  On a single step some processors
\* also report the register of the instruction after it.
Fetch(a, singlestep, early) ==
  LET status == Hits(a, {"exec"}) \cup (IF early THEN Hits(a + 1, {"exec"}) ELSE {})
  IN  /\ "fetch" \in Ops
      /\ early => singlestep
      /\ vm' = AfterTrap(vm, status, singlestep, a)
      /\ due' = due \cup {r \in DOMAIN vm.wps : vm.wps[r].exec > 0 /\ a \in BytesOf(r)}
      /\ UNCHANGED <<syscall_bp, breakpoints, watchpoints, applied, copy, prog>>

\* singlestep_with_breakpoints_disabled around one store of the program.
SinglestepDisabled(a, v) ==
  LET bare   == unapply_breakpoints_internal(ApplyTo(vm, breakpoints, watchpoints))
      status == {s \in Programmed(bare) : s.type # "exec" /\ a \in BytesOf(s.reg)}
      m      == AfterTrap([bare EXCEPT !.mem[a] = v], status, TRUE, NoAddr)
      new    == [prog EXCEPT ![a] = v]
  IN  /\ "disabled" \in Ops
      /\ vm' = apply_breakpoints_internal(m, breakpoints, watchpoints)
      /\ prog' = new
      /\ applied' = TRUE
      /\ due' = due \cup WriteWatched(bare, Changed(new))
                    \cup {r \in DOMAIN bare.wps : bare.wps[r].read > 0 /\ a \in BytesOf(r)}
      /\ UNCHANGED <<syscall_bp, breakpoints, watchpoints, copy>>

\* A data record of the trace is copied to memory (set_data_from_trace): the bytes,
\* the watchpoints over them, and then the breakpoints among them.
TraceData(r, v) ==
  LET Over(f) == [a \in Addr |-> IF a \in BytesOf(r) THEN v ELSE f[a]]
  IN  /\ "trace" \in Ops
      /\ vm' = maybe_update_breakpoints(
                 notify_written([vm EXCEPT !.mem = Over(@)], BytesOf(r)), r)
      /\ prog' = Over(prog)
      /\ due' = due \cup WriteWatched(vm, Changed(Over(prog)))
      /\ UNCHANGED <<syscall_bp, breakpoints, watchpoints, applied, copy>>

\* consume_watchpoint_changes, when the stop is reported.
ConsumeChanges ==
  /\ \E r \in DOMAIN vm.wps : vm.wps[r].changed
  /\ vm' = [vm EXCEPT !.wps = [r \in DOMAIN @ |-> [@[r] EXCEPT !.changed = FALSE]]]
  /\ due' = {}
  /\ UNCHANGED <<syscall_bp, breakpoints, watchpoints, applied, copy, prog>>

Init ==
  /\ session \in Sessions
  /\ prog \in session.memories
  /\ vm = [mem |-> prog, bps |-> Nothing, wps |-> Nothing, hw |-> TRUE]
  /\ syscall_bp = NoAddr /\ copy = NoCopy
  /\ breakpoints = {} /\ watchpoints = {} /\ applied = FALSE
  /\ due = {}

Debugger ==
  \/ \E a \in BreakAddrs : AddBreakpoint(a) \/ RemoveBreakpoint(a)
  \/ \E r \in WatchRanges, type \in Types : AddWatchpoint(r, type)
  \/ \E w \in watchpoints : RemoveWatchpoint(w)
  \/ RemoveAll \/ Apply \/ Unapply
  \/ Checkpoint \/ SeekToCheckpoint
  \/ ConsumeChanges

Replay ==
  \/ ForkChild
  \/ \E a \in SyscallAddrs : EnterSyscall(a)
  \/ ReachSyscall
  \/ \E a \in StoreAddrs, v \in Values : SinglestepDisabled(a, v) \/ \E s \in BOOLEAN : Store(a, v, s)
  \/ \E a \in StoreAddrs : Load(a)
  \/ \E a \in FetchAddrs, s, e \in BOOLEAN : Fetch(a, s, e)
  \/ \E r \in RecordRanges, v \in Values : TraceData(r, v)

Next == (Debugger \/ Replay) /\ UNCHANGED session

Spec == Init /\ [][Next]_vars

-----------------------------------------------------------------------------
(* Properties *)

\* The tables hold what their C++ types do.
TypeOK ==
  /\ vm.mem \in [Addr -> Values \cup {breakpoint_insn}] /\ prog \in [Addr -> Values]
  /\ DOMAIN vm.bps \subseteq BreakAddrs \cup SyscallAddrs
  /\ \A a \in DOMAIN vm.bps : vm.bps[a] \in [internal : Nat, user : Nat, data : Values]
  /\ DOMAIN vm.wps \subseteq WatchRanges
  /\ \A r \in DOMAIN vm.wps : {vm.wps[r].exec, vm.wps[r].read, vm.wps[r].write} \subseteq Nat
  /\ vm.hw \in BOOLEAN /\ applied \in BOOLEAN
  /\ syscall_bp \in SyscallAddrs \cup {NoAddr}
  /\ breakpoints \subseteq BreakAddrs
  /\ watchpoints \subseteq [range : WatchRanges, type : Types]
  /\ due \subseteq WatchRanges

\* Breakpoints do not disturb the replay: whatever the debugger, replay's own
\* breakpoints and the data records of the trace do to the same bytes, a trap
\* instruction is in memory exactly at the breakpoints, and the bytes saved for them,
\* which are shown to the debugger and written back, are the recorded program's.
MemoryTransparent ==
  /\ replace_breakpoints_with_original_values(vm) = prog
  /\ {a \in Addr : vm.mem[a] = breakpoint_insn} = DOMAIN vm.bps

\* The reference counts in the address space are those of the debugger's lists, when
\* they are applied, and of replay's own breakpoint: nothing is left behind or lost
\* by adding, removing, applying and unapplying in any order.
CountsMatchTimeline ==
  LET Wants(r, bit) == {w \in watchpoints : applied /\ w.range = r /\ bit \in access_bits_of(w.type)}
      One(b) == IF b THEN 1 ELSE 0
  IN  /\ DOMAIN vm.bps = (IF applied THEN breakpoints ELSE {}) \cup ({syscall_bp} \ {NoAddr})
      /\ \A a \in DOMAIN vm.bps : /\ vm.bps[a].user = One(applied /\ a \in breakpoints)
                                  /\ vm.bps[a].internal = One(a = syscall_bp)
      /\ DOMAIN vm.wps = IF applied THEN {w.range : w \in watchpoints} ELSE {}
      /\ \A r \in DOMAIN vm.wps : /\ vm.wps[r].exec = Cardinality(Wants(r, "exec"))
                                  /\ vm.wps[r].read = Cardinality(Wants(r, "read"))
                                  /\ vm.wps[r].write = Cardinality(Wants(r, "write"))

\* "Our checkpoints never have breakpoints applied" (ReplayTimeline.h), nor
\* watchpoints, and they hold the program's memory; the same goes for the address
\* space of a forked child.
CopiesAreBare ==
  copy # NoCopy => copy.vm = [mem |-> copy.prog, bps |-> Nothing, wps |-> Nothing, hw |-> TRUE]

\* Watchpoints report what happened and nothing else: a range is noted as changed
\* exactly when, since changes were last consumed, one of its bytes changed (write),
\* was accessed (read) or executed (exec), by an instruction or by a data record.
WatchpointsExact == {r \in DOMAIN vm.wps : vm.wps[r].changed} = due

\* The debug registers in use for a watched range and a kind of access.
RegistersOf(r, type) ==
  {s.reg : s \in {x \in Programmed(vm) : x.range = r /\ x.type = type}}

\* The debug registers do what the watchpoints ask: each holds 1, 2, 4 or 8 bytes at a
\* multiple of its length, the only ranges a register can watch; every byte of an
\* applied watchpoint is under a register, and under one only; accesses other than
\* writes, which cannot be told apart by looking at the value, are watched on the range
\* and nothing else.
RegistersCoverRange ==
  /\ \A s \in Programmed(vm) : SizeOf(s.reg) \in {1, 2, 4, 8} /\ s.reg.start % SizeOf(s.reg) = 0
  /\ applied => \A w \in watchpoints, type \in WatchTypes :
       LET regs == RegistersOf(w.range, type)
       IN  (type = w.type /\ ~(type = "write" /\ vm.wps[w.range].read > 0)) =>
             /\ BytesOf(w.range) \subseteq UNION {BytesOf(g) : g \in regs}
             /\ \A g, h \in regs : g # h => BytesOf(g) \cap BytesOf(h) = {}
             /\ type # "write" => \A g \in regs : BytesOf(g) \subseteq BytesOf(w.range)
=============================================================================

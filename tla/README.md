# TLA+ models of rr

rr records an execution of a group of Linux processes and replays it exactly,
forward and, through checkpoints, backward.  This directory holds TLA+ models of
the parts of rr in which many small steps of several actors have to fit
together, the TLC instances that check them, and machine-checked proofs about
three of them.  `PROJECT.json` lists components, runs, mutants, hazards, findings
and, for each definition, the source lines it models (31% of the code).

Run a check with `tlc -config X.cfg M`, the proofs with `tlapm M.tla`.

## 1. The system and its models

| Part | Modules | Run |
|---|---|---|
| Trace substreams: `CompressedWriter`, `CompressedReader` | `CompressedWriter`, `CompressedReader`, `StreamReader` (abstract) | `trace_streams` |
| Scheduler of the recorder | `Scheduler` | `scheduler_safety`, `scheduler_liveness`, `scheduler_group_stop` |
| Syscall buffer: the transaction in the tracee against the tracer (`preload/syscallbuf.c`, `record_signal.cc`) | `Syscallbuf` | `syscallbuf` |
| Signal masks, stashed signals, signal frames (`RecordTask.cc`, `RecordSession.cc`, `syscallbuf.c`) | `SignalMask` | `signals`, `signals_time_slice` |
| Emulated ptrace and wait (`RecordTask.cc`, `record_syscall.cc`) | `WaitStatus`, `EmulatedPtrace` | `ptrace` |
| The data of system calls (`record_syscall.cc`: each `rec_prepare` case and `TaskSyscallState`) | `SyscallParams`, `SyscallState`, `DirectSyscall` (abstract) | `syscalls` |
| The data of buffered calls (each `sys_` wrapper; flush, abort, reset; replay of the buffer) | `SyscallWrappers`, `BufferedSyscalls` | `syscalls` |
| rr's copy of a memory map (`AddressSpace.cc`) | `MemoryMap` | `address_space` |
| Breakpoints and watchpoints (`AddressSpace.cc`, `ReplayTimeline.cc`) | `WatchRegisters`, `Breakpoints` | `address_space` |
| Mapped files and memory from recording to replay (`TraceStream.cc`, `record_syscall.cc`, `replay_syscall.cc`, `EmuFs.cc`, `FdTable.cc`, `Session.cc`) | `TraceStream`, `MappedMemory`, `RecordMappings`, `ReplayMappings` | `address_space` |
| The replay of one frame after another (`ReplaySession.cc`, `Task.cc`, `PerfCounters.cc`, `fast_forward.cc`) | `Tracee`, `ReplaySession` | `replay` |
| gdb's remote target (`GdbConnection.cc`, `GdbServer.cc`, `DiversionSession.cc`, `GdbExpression.cc`) | `GdbConnection`, `GdbExpression`, `GdbServer` | `replay` |
| Reverse execution (`ReplayTimeline.cc`) | `ReplayTimeline` | `timeline` |

The recorder runs `Scheduler` to pick a tracee, resumes it, and handles its stop
with the syscall, signal and syscall-buffer code, which updates the memory map
and appends to the trace through the writer.  The replayer reads the trace and
drives one tracee to the next event; `ReplayTimeline` clones replay sessions and
keeps the debugger's breakpoints in the current one; `GdbServer` turns gdb's
packets into calls of the timeline.

Modules named `MC...` hold the bounds.  `GdbSessions`, `ReplayRecordings`,
`MappingWorlds` and `BufferedPrograms` hold the scenarios of the modules they are
named for.  Some runs check two or three modules that describe different times
of the same thing: a variable `part` says which one a behaviour is of, and the
others keep their initial state.

## 2. Conventions

* Names are the source's.  A record variable groups the fields of one C++ object
  (`task[t]`, `hdr`, `vm`, `tl`, `w`).
* What the recorded program or the debugger may do is a record, chosen in `Init`
  and never changed (`recording`, `program`, `session`, `sc`, `scen`), so that a
  run covers many kinds of session.
* Where a C++ function calls others that change state, the models pass a record
  of the whole state, a world, through operators of the same names
  (`EmulatedPtrace`, `RecordMappings`, `GdbServer`, `BufferedSyscalls`); the action is the
  outermost call.
* A failing `ASSERT` of the code is recorded (`failed`, `ok`), and an invariant
  says that none failed.
* An operator commented "Mutant" is a plausible slip in the code.  It is used
  nowhere; putting it in place of the original must break the property it is
  listed with in `PROJECT.json`.
* Data are tokens: a byte at stream position `p` is `p`, what the kernel writes
  for call `n` is a value of its own, a file's cells are numbered.  So data in the
  wrong place is visible.
* Deadlock is checked, except in `ptrace` and `address_space`, where programs run
  out of calls and everything rightly stops; there is no final step in those
  modules because their liveness does not need one.

## 3. Modules and runs

### trace_streams: CompressedWriter, CompressedReader

`CompressedWriter` models `CompressedWriter.cc` completely.  `buffer` is the ring and
holds, in each slot, the position in the stream of the byte that is there.
`thread_pos`, `next_thread_pos`, `next_thread_end_pos` and the three `producer_*`
positions are the fields of the class; `waiting` is the set of threads asleep on
`cond`, `tpc` and `ppc` are program counters at the points where the mutex is taken
or given up.  One action is one stretch of code between such points.  Spurious
wakeups are an action; compression may fail at any block, and so may opening the
file and its fsync (a failing write ends the process in `write_all`).

`CompressedReader` models `CompressedReader.cc`: a call of `read` or `skip` is a
loop of block reads; saving, restoring, discarding, rewinding and copying the
reader happen between calls.  Files are whole, cut in a header or in the data, or
damaged.  `StreamReader` is what the trace reader relies on: a position in a
stream of bytes.

Bounds: 2 threads, blocks of 2, writes of up to 5, a stream of 13; the ring of
threads + 2 blocks (8 bytes) is smaller than the stream, so it wraps, and writes
span blocks and end inside them.  Files of up to 3 blocks and 4 bytes, read up to
3 bytes at a time: a saved position can be two blocks back.  `CallsReturn` (of
`write` and `close`) assumes weak fairness of each thread and of the producer
inside a call, which the kernel's scheduler and a mutex held for short stretches
give.

### scheduler_safety, scheduler_liveness: Scheduler

`record_step` and `reschedule` as a loop of stages (`pc`), with the kernel
running between any two: tracees that were resumed stop, die, complete an
`execve`; SIGKILL and SIGCONT arrive.  `task_priority_set` is a set of pairs, the
order of which is that of `std::set`; pointer order is the order of task numbers.
`task[t].status` is what the kernel holds for the next wait and `task[t].seen`
what a wait has returned but `record_step` has not handled.

`scheduler_safety` has three recordings of up to three tasks (single-threaded
processes that block, yield, spin, exit, fork, stop and change priorities; a
process of two threads with execve, fatal signals and SIGKILL; chaos mode).
`scheduler_liveness` has tasks of one priority.  Fairness: rr itself runs (weak,
`RRStep`); a tracee in user code or in `sched_yield` stops sooner or later,
because `interrupt_after_elapsed_time` interrupts it (weak); a task at the end
of its timeslice is eventually at a switch point (strong, it gets the
TIME_SLICE_SIGNAL).  A blocked tracee need never wake.  `NoStarvation` is claimed
without exits: each exit makes the next scan start at the first task, so tasks
that keep exiting can starve others.

Bounds: three tasks are the fewest with a queue of two and a task outside it;
timeslices of one resumption reach their end at once.

### syscallbuf: Syscallbuf

One thread makes buffered system calls; `frames` holds its activations (the
program, and one signal handler on top of it), each with a program counter at
every instruction of `syscall_hook`, `prep_syscall`,
`start_commit_buffered_syscall`, the untraced call, `commit_raw_syscall` and the
desched ioctls.  `kernel` has the desched event, pending signals and whether the
tracee sleeps; `hdr` is the shared header; `rr` the tracer's stage, its stashed
signals and its stack of events.  As the tracer only acts while the tracee is
stopped, its reaction to a stop is one step, except the loops of
`handle_desched_event` and `advance_to_disarm_desched_syscall`, which resume the
tracee and are a step per iteration.

Bounds: three calls that may block, cannot block or use a disabled fd, two
signals and an expired timeslice at any instruction, a buffer of two records, so
that it fills.  Fairness: a resumed tracee runs, the kernel finishes a call or
puts the tracee to sleep and delivers pending signals, and rr handles the stop
it waits for.  Nothing makes a sleeping call wake up.

### signals: SignalMask

The mask of one task: `kmask` is the kernel's, `umask` what the program should
have, `blocked_sigs` and `dirty` rr's cached copy, `hdr` the mask and the
generation counter that the buffered `rt_sigprocmask` wrapper publishes.  Each
instruction of the wrapper's critical section is an action; so are the
instructions before, between and after untraced calls (`pc`), at which rr's
internal breakpoints stop a tracee with stashed signals (`break_at`).
`did_wait`, `will_resume_execution`, stashing, `prepare_to_inject_signal`,
`inject_handled_signal` and the traced `rt_sigprocmask` are rr's.  A SIGSEGV the
kernel forces unblocks itself.

Bounds: two signals (the handler of one blocks the other), SIGSEGV, two calls,
three events, two nested handlers: enough for a signal inside the handler of
another whose mask change is under way.  Fairness: the tracee keeps executing
the call or handler it is in, and rr handles stops.  `SliceWhileStashed` is FALSE
in `signals` and TRUE in `signals_time_slice` (section 5).

### ptrace: WaitStatus, EmulatedPtrace

A tracer "p", a process with threads "a" and "b", and "n", which "a" may create.
`task[t]` holds the fields of a `RecordTask` that ptrace emulation uses (emulated
stop, its code, pending SIGCHLDs, options, the ptracer, the event on top of the
stack); `priv` and `shared` are the kernel's pending signals, `zombies` what a real
`wait` reports.  An action is what `record_step` does at one stop of one task:
system call entry, the continuation of an entry that was stopped, exit,
interruption, restart, a signal taken, stashed or delivered, a single step, a
death.  `WaitStatus` is the integer encoding, with an `ASSUME` that TLC evaluates:
every status made for an emulated stop is read back as what it was made for.

Bounds: sessions in which the tracer attaches to or seizes one or two threads
with job control; is asked by its child to trace it, over exec, calls, steps and
exit; follows creations and exits; dies or kills with tracees stopped.  Up to
seven calls in all.  `WaitReturns` assumes that the recorder goes on handling
every task that has something to handle (weak, per task); programs make their
calls when they like, or never.

### syscalls: SyscallParams, SyscallState; SyscallWrappers, BufferedSyscalls

`SyscallParams` is `rec_prepare_syscall_arch` call by call: for each, the memory
parameters (in, out, length rule, pointer cells, scratch or in place, mutator),
whether a switch is allowed, which registers are replaced.  `SyscallState` runs one
such call: preparation, the entry, the kernel writing to where the registers
point, another thread storing to the program's memory meanwhile, interruption and
restart, seccomp traps, `process_syscall_results`, the trace records.  `rmem` is the
memory of the replay beside it.  `DirectSyscall` is the abstract specification: a
system call as the program without rr would see it; `ImplementsDirectSyscall` is
the refinement.

`SyscallWrappers` says the same for each `sys_` function of `syscallbuf.c` but
`sys_rt_sigprocmask`, whose steps are in `SignalMask`.  `BufferedSyscalls` runs
programs of three of them, first recorded (with calls that are descheduled,
aborted, trapped, refused or too large for the buffer) and then replayed from the
buffer records.  The model does two things wrong as the code does them (section 5),
and notes it: `overrun` when `sys_recvmsg` has copied more of a sender's name than
there is room for, `misled` while the last mprotect rr applied to its map is one
that the kernel had refused.  `AsWithoutBuffer` and `ReplayExact` except the one cell
behind the name in the first case, `ProtectionsKnown` the protection in the second.

Bounds: every preparation, with scratch memory for everything and for one cell,
with every pointer given and with each one null; one store of the other thread,
one restart.  Every wrapper between two calls that return data, with a buffer
that holds two records and one that holds all three; two mprotect records, so that
the third of three mprotects is traced, each granted, cut short at a hole (ENOMEM)
or refused (EACCES); names of no cell, of as many as there is room for, and of one
more.

### address_space: MemoryMap; WatchRegisters, Breakpoints; TraceStream, MappedMemory, RecordMappings, ReplayMappings

`MemoryMap`: `mem`, `dont_fork` and `brk_end` beside `pages`, the kernel's page
table.  An action is a system call: the kernel's effect on `pages`, and on the
rest what rr does after it (`map`, `unmap`, `protect`, `remap`, `advise`, `brk`,
`did_fork_into`, the copy constructor), coalescing included.  The kernel's part is
modelled from the documented effect of the calls and is marked external.  Six
pages and one file; ranges of three pages allow a split and a merge on both
sides, and the file has offsets, so a wrong offset shows.  Four calls leave rr's
copy wrong, in the code and in the model: an mremap from inside a file mapping
(offsets), an mremap onto mapped pages (anything), a refused mprotect
(protections), a checkpoint of a session with DONTFORK marks (the marks, and after
a fork the pages).  The history variable `astray` has the pages concerned, by what
is wrong of them, until something else is mapped there; `MapMatchesKernel` claims
everything else, so it says that the damage stays there, also when the pages are
moved, split or merged.  Once it is wrong which pages are mapped a behaviour is
not followed further.  Five kinds of programs: all calls but those; the same
without mprotect, after which alone neighbours are claimed to be coalesced (section
5); calls on whole blocks with MADV_DONTFORK, forks and checkpoints; moves of every
kind; refused mprotects.

`WatchRegisters` is the algorithm that cuts a range into debug registers, with a
recursive function.  `Breakpoints` extends it: `vm` is the `AddressSpace` of the
current session (memory with trap bytes, breakpoint and watchpoint tables,
whether the registers could be programmed), `breakpoints`, `watchpoints` and
`applied` belong to the timeline, `syscall_bp` is a breakpoint of the replayer,
`copy` the latest checkpoint or forked child, `prog` the memory the recorded
program has.  Four sessions: breakpoints under data records with checkpoints,
seeks and forks; overlapping data watchpoints of both kinds; exec watchpoints;
one watchpoint on any range of up to 16 bytes that fits four registers.

`TraceStream` has the four substreams as sequences; `MappedMemory` the pages of
each process, the objects behind them and the monitors of descriptors;
`RecordMappings` the recorder's handlers, which write to the trace;
`ReplayMappings` the replayer's handlers, which read it and rebuild the memory
with emulated files, and checkpoints of the replay.  `views` has what the recorded
programs saw after each frame, and `SpacesMatch` compares.  A restored checkpoint
has its own memory and emulated files but, as in the code, the monitors of the
session it was copied from; `died` has those that were marked dead meanwhile, and
`ungrown` notes that a write has therefore not made an emulated file longer, after
which nothing is claimed (section 5).  Worlds of up to four
calls (`MaxEvents`) in any order: a file mapped shared and written through two
descriptors, inside it and beyond its end; memory shared by forked processes; private mappings of files of
each class that decides whether a trace keeps, copies or clones them; mappings
that move; heaps, stacks, exec and clone.  The recorder is at most two frames
ahead (`Ahead`), as only the contents of the trace couple the two.

### replay: Tracee, ReplaySession; GdbConnection, GdbExpression, GdbServer

`Tracee` is `Task::resume_execution` for a replayed thread, whose instructions are
fixed by the recording: it stops at a breakpoint, a system call, a fault, a
watched store, after a step, or when the tick counter interrupts, up to `MaxSkid`
ticks late and perhaps only at the next resume.  `ReplaySession` is `replay_step`:
setting up the step of a frame, and one action per resume in its loops
(`AdvanceByTicks`, `GetClose`, `Approach`, `enter_syscall`, `flush_syscallbuf` ...).
The recordings have loops that pass the target many times, signals at
instructions that look alike, string instructions, buffered calls, patched calls,
two threads, exec and exit; the debugger sets breakpoints and a watchpoint, steps
and continues, and asks for ticks targets.  `SkidSize` is 2 and the real skid 1.

`GdbConnection` has the packet stream as tokens (start, end and checksum of a
packet, the interrupt byte); `GdbServer` is the loop of `serve_replay` and
`process_debugger_requests` with `dispatch_debugger_request`, diversions,
checkpoints and restarts, and gdb itself, which is external: it sends one packet
at a time from a script of choices and judges the answers (`gdb.bad`).  The
timeline under it is a line of positions.  `GdbExpression` is the interpreter of
breakpoint conditions, with 64-bit values and all variants of a condition;
`ConditionsHonoured` compares the stops with the positions at which gdb's own
meaning of the condition holds.

Fairness: rr's loops run on and replay_step is called again; the network delivers
and gdb reads.  In `MCReplay` the weak fairness of the two loops is written out
with the condition under which a step is possible (`ReplayCanStep`,
`ServerCanStep`), which is what WF means and much cheaper to check.

### timeline: ReplayTimeline

The recorded execution is a line of positions; several share a mark key (trace
time and ticks), as instructions between two branches do.  `tl` is the timeline:
the position of the current session, marks in their order per key, checkpoints
with reference counts, the checkpointing strategy.  A reverse operation is a loop
of steps (seek back, run forward to the end of the interval, step) with its
locals in `op`; its end is a separate step, at which the result is judged.  The
uninitialised `seen_barrier` of `reverse_singlestep` is a nondeterministic choice.
Five sessions over a trace of 15 positions, four events of two tasks.  Fairness:
a reverse operation runs in rr's only thread until it returns.  Progress, for the
checkpointing strategy, is measured in positions.

## 4. What is proved

`CompressedWriterProofs` (1651 obligations, about eight minutes) proves, for every
number of threads, block size and stream length, from its `ConstantsAssumption`
(threads finite and not empty, positive block and write sizes, `UINT64_MAX` above
all positions): `TypeOK`, `RingIntact`, `FileIsStreamPrefix`, `GoodMeansComplete` and
`ReservationNeverWraps`.  None of them is inductive alone.  The inductive invariant
`IInv` adds that the blocks held by threads are disjoint and end below
`next_thread_pos` (`Blocks`, `Disjoint`); that while there is no error the blocks
not yet written *tile* the gap between the end of the file and `next_thread_pos`
(`Tiled`), so the thread with the smallest position holds exactly the block the
file needs next (`Turns`); that the reservation ends at most one ring size beyond
every position still needed (`Reserved`), so that a copy never lands on such a
slot (by arithmetic of remainders, lemmas `DivMod` to `OffsetAdvances`); and what
holds at the end (`Ends`).  There is one lemma per action, put together in
`NextIInv`.

`CompressedReaderProofs` proves for every file that is not empty (section 5 has the
empty one), with any number of blocks of any length, and any sequence of calls: `EndExact` (`AtEndExact`) and `Refinement`
(`ImplementsStreamReader`: `CompressedReader` implements `StreamReader`).  No
assumption on the constants is needed.  `IInv` says that until an error the buffer
is the block before the file offset, that `eof` is exact, and that a saved
position is such a place too, in the buffer set aside for it or, while the
current block is the same, in the current one; without that last part restoring
would not refine anything.  A block read maps to a stutter, or, at the end of
what the file holds, to the abstract `Fail`.

`SignalMaskProofs` (1271 obligations, about two minutes) proves
`BlockingInvisible` (`MaskTransparent`), `RememberedExact` (`CachedMaskExact`) and
`HeldStaysOpen` (`StashedNotBlocked`) for any signals, handler masks, calls and depth
of handlers, under `~SliceWhileStashed`: with it they are false, which is the
finding below.  The constants must satisfy `ConstantsAssumption` (the program's
signals are none of the reasons for which a task stops, and the masks are sets of
signals).  `IInv` says what rr's copy of the mask is worth at each point: while the
task is stopped the kernel has the program's mask, and rr's copy is dirty or the
same (`AtStop`); while it runs with nothing stashed rr's copy is exact, or a newer
one waits in the buffer, or the task is in the critical section (`Free`); with a
signal stashed everything is blocked, and rr's copy keeps the program's mask, which
no instruction before the next breakpoint can change (`Held`, `Stashing`).
`Published` is the protocol of the wrapper's generation counter.  Each action has a
lemma; the composite steps of the tracer are first reduced to one record (`Settled`).

Only model-checked: all liveness (fairness and ENABLED are beyond the prover), the
refinement of `DirectSyscall`, and the properties of the other modules.

## 5. Findings

Two runs end in a counterexample to what a comment of the code says.

* `scheduler_group_stop`: `is_task_runnable` polls a task in an emulated stop and
  drops what it gets unless the task died (`Scheduler.cc:232`).  A thread that was in
  a blocking syscall when its process got SIGSTOP loses the end of that syscall.
* `signals_time_slice`: a time slice that ends while a signal is stashed is stashed
  behind it, and `stashed_signal_processed` (`RecordTask.cc:1307`) then keeps all
  signals blocked while the first one is injected; its frame gets that mask, and
  the handler's return leaves the program with all signals blocked.

Other places where the code departs from what a comment, an assertion or the
kernel says, met while reading and modelling it.  No run ends in a counterexample
for them.  Those marked (*) happen in the passing runs: the model keeps the code's
behaviour, notes what it has made wrong, and the property excepts exactly that.
Of the others, where a model reaches one it keeps the code's behaviour, and the
scenarios of the passing runs stay clear of it.

Recording:

* `handle_ptrace_event` sets the current task after an exec
  (`RecordSession.cc:550`) while a round-robin round may be under way, against
  the assertion at `Scheduler.cc:408-410`.
* `schedule_one_round_robin` adds a round during a round (`Scheduler.cc:708`),
  against `Scheduler.h:119`.
* Emulated ptrace: an exec under PTRACE_O_TRACEEXEC resumed with PTRACE_SYSCALL
  stops twice, against the assertion at `RecordTask.cc:722`; a tracer that dies while
  its tracee is in an event or exit stop inside a system call; with two tracees, or another thread of the tracer
  waiting, the wait `RecordTask.cc:753-760` promises to wake is not the one that is
  woken; PTRACE_GETSIGINFO at an exit stop asserts; `emulate_SIGCONT` ends
  ptrace-stops, and does not resume other threads; the resume command outlives
  the tracer; `waitpid(-1)` for tracees that are not children returns ECHILD.
* System calls: `rt_sigaction`'s mask is saved after it was replaced
  (`record_syscall.cc:2855`); pointers in memory are put back at the place the
  program passed, not in the scratch copy; an interrupted call whose mutated
  argument had no scratch copy; stale scratch memory copied back for calls that
  fail; `epoll_pwait` and `rt_sigsuspend` masks that are not protected from being
  changed by other threads; `handle_seccomp_trap` restores registers taken
  before the abort; a negative result of `process_mmap` fails an assertion
  (`RecordTask.cc:1495`).
* Wrappers: `sys__llseek` and `sys_futex` copy out, and `sys_time` stores, even after
  a seccomp trap aborted the call (compare the comment in `sys_poll`,
  `syscallbuf.c:1767`); `mprotect` noted under such a trap; `reset_syscallbuf` zeroes
  only as many bytes as there are in records.
* (*) `sys_recvmsg` copies `msg2->msg_namelen` bytes of the sender's name back
  (`syscallbuf.c:2163`), which for a name the kernel had to cut is more than the
  program passed room for, and more than the record holds of it; `sys_recvfrom` takes
  the smaller of the two lengths.
* (*) `on_syscall_exit` applies an mprotect that failed (`Task.cc:293`, `324`), because
  one that fails at a hole has changed the pages before it; one that was refused
  has not.  The wrapper tells the two apart (`syscallbuf.c:1657`).
* Mapped files: a `MmappedFileMonitor` that died does not come back when the file
  is opened and mapped again (`MmappedFileMonitor.cc:42`); a descriptor dup'ed
  before the mmap is not monitored; a private mapping beside the shared one fails
  an assertion in `did_write`; `mremap` of a monitored mapping; MADV_DONTNEED on a
  private file mapping shows zeroes in the replay; a file taken for immutable and
  later mapped writable.
* `remove_range` misses a range that starts below the one removed
  (`AddressSpace.cc:576`), so MADV_DOFORK of a part is lost.
* `protect` coalesces around the last mapping it touched only
  (`AddressSpace.cc:809`), so mergeable neighbours may remain.
* (*) `remap` of pages from inside a mapping keeps the offset of its start, and onto
  mapped pages does not unmap them first (`AddressSpace.cc:859`).
* `CompressedReader::rewind` of an empty substream leaves `eof` false; the model has
  no empty files.

Replay and debugging:

* `maybe_update_breakpoints` skips the last byte of a data record
  (`AddressSpace.cc:1697`); the loop over exec watchpoints is nested in the loop
  over breakpoints (`ReplayTimeline.cc:723`); a refused watchpoint leaves the
  others unprogrammed (`ReplayTimeline.cc:643`); a data record under an exec
  watchpoint counts as an execution (`AddressSpace.cc:1021`).
* (*) The copy constructor used for checkpoints loses `dont_fork`
  (`AddressSpace.cc:1394`).
* (*) A copied `FdTable` shares the monitors of the original (`FdTable.h:74`), so a
  `MmappedFileMonitor` that one session marks dead is dead in the other, where the
  file is still mapped, against `MmappedFileMonitor.cc:39-41`: a replay restored from
  a checkpoint does not extend the emulated file.
* `emulate_async_signal` ignores an INCOMPLETE result; `patch_next_syscall` takes
  a modified program's exit from the recording for completion; `muplay_step` does
  not handle it, and `muplay_enabled` is not initialised; a skid of exactly
  `skid_size` overshoots; (*) an internal breakpoint on a syscall instruction outlives
  `replay_step` while the step that enters the call is unfinished (against
  `ReplaySession.h`); `apply_mprotect_records` indexes from
  the last flush.
* `reverse_singlestep` forgets a break of another task once it is near its target
  (`ReplayTimeline.cc:1164`) and takes one with a false condition for a break
  (`:1149`); a breakpoint hit while stepping is stepped over with the watchpoints
  taken away too (`:1209`), so the interval in which no watchpoint fires may hold one
  that did.
* gdb: a packet cut between the `#` and its checksum makes the server wait for
  another packet while the program should run; an interrupt that races the end of
  the trace, or a restart, ends in an assertion; a failed restart has already
  removed the breakpoints; a stop in another process than the one gdb knows; a
  diversion left with a pending continue.

## 6. Not modelled

`PROJECT.json` lists every component with its reason.  In short:

* `AutoRemoteSyscalls`: what it has to survive (whether the kernel reports the
  single-step trap or a pending signal first, which restart value a stop leaves)
  is decided by the kernel; a model would check an assumption against itself.
* `Monkeypatcher`, `SeccompFilterRewriter`: machine code patterns.  That a patch is
  replayed at its event is in `ReplaySession`.
* Hardware and kernel (counters, debug registers, ptrace) appear only as the code
  relies on them.
* Parsers and formatters (ELF, DWARF, registers, command line, printing of traces)
  and `PackCommand`: sequential, no state that another part reads.
* Parts of modelled components, listed in each note: CPU affinity, emulated
  seccomp filters, control messages of `recvmsg`, robust futexes, monitored shared
  memory, `seek_to_proto_mark`, `fix_watchpoint_coalescing_quirk`, the initial exec
  of a replay, the contents of gdb's register and auxv packets.
* What only an unmodelled phase can reach: privileged traced calls
  (`Task.h:259`), which the initialisation of a thread makes, in
  `is_safe_to_deliver_signal`; a task without scratch memory
  (`record_syscall.cc:613`), which is one before its first exec.
* Cases of a modelled operation: cloned reads are whole, never descheduled, short
  or failing (`syscallbuf.c:1860-1880`); mprotect over several mappings of which the
  kernel refuses a later one.  In `GdbConnection` and `GdbServer`: the `k` packet, on
  which the process exits; the kinds of Z and z packets, hardware breakpoints and
  watchpoints included, and the answer to an unknown one
  (`GdbConnection.cc:1171-1214`); in `open_file` the check for O_RDONLY and names
  outside /proc; in `at_target` the conditions on the initial exec, `require_exec` and
  `stop_replaying_to_target`.
* `Muplay`, an unfinished second replayer, only as another caller of the steps of
  `ReplaySession`.

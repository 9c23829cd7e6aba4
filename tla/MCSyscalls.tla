----------------------------- MODULE MCSyscalls -----------------------------
(* What rr does with a system call's data: the recorder's preparation of   *)
(* each call (SyscallState), and the wrapper that buffers it               *)
(* (BufferedSyscalls).  A behaviour is one of the two, the other's state   *)
(* stays as it was at the start.                                           *)
(*                                                                         *)
(* Every preparation of record_syscall.cc, with enough and with too little *)
(* scratch memory, with every pointer given and with one of them null.     *)
EXTENDS SyscallState

AllCalls ==
  regular_syscalls \cup rec_prepare_unusual \cup rec_prepare_splice_to_capget \cup rec_prepare_fcntl
  \cup rec_prepare_futex_to_select
  \cup rec_prepare_pselect6_to_getsockopt \cup rec_prepare_read_to_readv \cup rec_prepare_waits
  \cup rec_prepare_pause_to_dup \cup rec_prepare_prctl \cup rec_prepare_arch_prctl
  \cup prepare_ioctl
  \cup rec_prepare_sysctl_to_keyctl \cup rec_prepare_epoll_to_affinity
  \cup rec_prepare_mincore_to_mprotect \cup rec_prepare_rrcalls_to_end

(* Buffers that hold no pointer may be null. *)
Leaves(c) ==
  {p.buf : p \in Params(c)} \ {BufOf(a) : a \in PointerCells(c) \cup c.at_entry \cup c.also}
Mutates(c) == \E p \in Params(c) : p.mutator

Scenario(c, nulls, scratch, shared, mask) ==
  [call |-> c, nulls |-> nulls, scratch |-> scratch, shared |-> shared, mask |-> mask,
   seccomp |-> c.params = <<>> /\ c.hijack = {}]

(* One cell of each buffer is open to the other thread; pointers, lengths  *)
(* and memory the kernel writes in place are not.                          *)
Open(c) ==
  {Field(p.buf, 0) : p \in Params(c)}
  \ (PointerCells(c) \cup LengthCells(c) \cup NotMoved(c))

(* A mask with rr's signals needs its scratch copy when the call can be    *)
(* interrupted.                                                            *)
Reasonable(x) ==
  /\ x.nulls \subseteq Leaves(x.call)
  /\ x.mask = RRSigs => Mutates(x.call) /\ (x.scratch = 1 => ~x.call.switch)
  /\ x.scratch = 1 => (x.call.switch /\ x.call.params # <<>>) \/ Mutates(x.call)

StateScenarios ==
  {x \in {Scenario(c, n, s, Open(c), m) :
             c \in AllCalls, n \in {{}} \cup {{b} : b \in 1..14}, s \in {1, 40}, m \in {Data, RRSigs}}
   : Reasonable(x)}

-----------------------------------------------------------------------------
(* Every wrapper of the syscall buffer. *)
CONSTANT MPROTECT_RECORD_COUNT

VARIABLES part,                               \* never changes
          bsc, phase, tracee, trace, results  \* of BufferedSyscalls

Programs == INSTANCE BufferedPrograms
Buffer == INSTANCE BufferedSyscalls
            WITH Scenarios <- Programs!BufferedScenarios, sc <- bsc, w <- tracee

MCVars == <<part, vars, bsc, phase, tracee, trace, results>>

SomeState == CHOOSE x \in Scenarios : TRUE
SomeProgram == CHOOSE x \in Programs!BufferedScenarios : TRUE

MCInit ==
  \/ part = "state" /\ bsc = SomeProgram /\ Buffer!Init /\ Init
  \/ part = "buffer" /\ sc = SomeState /\ Init /\ Buffer!Init

MCNext ==
  \/ part = "state" /\ Next /\ UNCHANGED <<part, bsc, phase, tracee, trace, results>>
  \/ part = "buffer" /\ Buffer!Next /\ UNCHANGED <<part, vars>>

MCSpec == MCInit /\ [][MCNext]_MCVars

-----------------------------------------------------------------------------
(* The program's memory in the replay is what it was in the recording:     *)
(* when rr prepared the call, whenever another task may run or the program *)
(* itself does; when the wrapper buffered it, at every return, with its    *)
(* result (but for what is at the place sys_recvmsg copies to beyond the   *)
(* end of the program's buffer).  And no assertion of TaskSyscallState     *)
(* fails, nor one about the buffer in the wrapper, the recorder or the     *)
(* replayer.                                                               *)
ReplayExact ==
  ReplayMatches /\ Buffer!ReplayMatches /\ AssertionsHold /\ Buffer!AssertionsHold

(* In the recording a call leaves the program's memory as the kernel would *)
(* without the wrapper, whether it was buffered, traced, descheduled or    *)
(* trapped.  Excepted is one cell: sys_recvmsg, unlike sys_recvfrom, does  *)
(* not cap the length of the sender's name, and goes on copying beyond it. *)
AsWithoutBuffer == Buffer!AsWithoutBuffer

(* rr knows the protections the tracee set without telling it, whenever    *)
(* it has flushed the buffer, and in the replay at every stop, unless it   *)
(* was misled by a traced mprotect that the kernel refused: rr applies     *)
(* that one whatever its result.                                           *)
ProtectionsKnown == Buffer!ProtectionsKnown
=============================================================================

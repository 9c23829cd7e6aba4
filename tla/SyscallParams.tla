---------------------------- MODULE SyscallParams ----------------------------
(* What the recorder knows of each system call (record_syscall.cc): which  *)
(* of its arguments point to memory the kernel reads or writes, how long   *)
(* that memory is, whether another task may run while the call is in the   *)
(* kernel, and which registers are replaced to keep the kernel from doing  *)
(* what was asked.                                                         *)
(*                                                                         *)
(* Memory is a set of cells.  The buffer that argument n points to begins  *)
(* at Buf(n); buffers found through a pointer in memory are Buf(7) and up; *)
(* Field(b, f) is cell f of buffer b.  Sizes are counted in cells.         *)
EXTENDS Naturals, Integers, Sequences, FiniteSets, TLC

Stride == 20
Buf(b) == Stride * b
Field(b, f) == Buf(b) + f
BufOf(a) == a \div Stride

IN_ == "IN"
IN_OUT == "IN_OUT"
IN_OUT_NO_SCRATCH == "IN_OUT_NO_SCRATCH"
OUT == "OUT"

(* A size too large to be a size: ParamSize's size_t(-1). *)
NoSize == 1000000

-----------------------------------------------------------------------------
(* One registration.  loc is the register (1..6) or the address of the     *)
(* pointer, buf the buffer it leads to; the size is at most incoming, and  *)
(* at most the length at mem (0: none) and the result (if from_syscall).   *)
(* len0 is what the program left in the length at mem.                     *)
Param(loc, buf, n, mode) ==
  [loc |-> loc, buf |-> buf, incoming |-> n, mem |-> 0, len0 |-> 0,
   from_syscall |-> FALSE, mode |-> mode, mutator |-> FALSE]

reg_parameter(n, size, mode) == Param(n, n, size, mode)
mem_ptr_parameter(addr, buf, size, mode) == Param(addr, buf, size, mode)

from_syscall_result(p) == [p EXCEPT !.from_syscall = TRUE]
from_initialized_mem(p, addr) == [p EXCEPT !.mem = addr, !.len0 = p.incoming]
from_mem(p, addr, len0) == [p EXCEPT !.mem = addr, !.len0 = len0]
protect_rr_sigs(p) == [p EXCEPT !.mutator = TRUE]

(* The preparation of one call.  kind selects what rec_process_syscall_arch*)
(* does with it; hijack are the argument registers replaced at entry (0 is *)
(* the system call number); at_entry are cells rr fills and records itself *)
(* before the call; also are cells the kernel, or rr at the exit, writes   *)
(* that only the exit code records; restart tells how an interrupted call  *)
(* is resumed.                                                             *)
Call(kind, switch, params) ==
  [kind |-> kind, switch |-> switch, params |-> params, hijack |-> {},
   emulate_result |-> FALSE, expect_errno |-> FALSE, at_entry |-> {},
   also |-> {}, restart |-> "args"]

ALLOW_SWITCH(kind, params) == Call(kind, TRUE, params)
PREVENT_SWITCH(kind, params) == Call(kind, FALSE, params)
Hijacked(c, regs) == [c EXCEPT !.hijack = regs]
Emulated(c, regs) == [c EXCEPT !.hijack = regs, !.emulate_result = TRUE]
Invalid(kind) == [PREVENT_SWITCH(kind, <<>>) EXCEPT !.expect_errno = TRUE]
Plain == PREVENT_SWITCH("other", <<>>)
MayBlock == ALLOW_SWITCH("other", <<>>)

OutParam(n) == PREVENT_SWITCH("other", <<reg_parameter(n, 2, OUT)>>)
InOutParam(n) == PREVENT_SWITCH("other", <<reg_parameter(n, 2, IN_OUT)>>)
ResultSized(n) == PREVENT_SWITCH("other", <<from_syscall_result(reg_parameter(n, 2, OUT))>>)

(* An address and the length that comes with it, length first. *)
LengthThenBuffer(len, buf) ==
  <<reg_parameter(len, 1, IN_OUT),
    from_initialized_mem(reg_parameter(buf, 2, OUT), Buf(len))>>

-----------------------------------------------------------------------------
(* A message header: name, its length, the vector, the control data and    *)
(* its length, the flags; then, in a vector of messages, msg_len.          *)
MsgCells == 7
MMsgCells == 8

(* The size io_size, of a buffer of the size in p: the result of the call  *)
(* (0), or the length at an address.                                       *)
limit_size(io_size, p) ==
  IF io_size = 0 THEN from_syscall_result(p) ELSE from_mem(p, io_size, 0)

prepare_recvmsg(hdr, first, io_size) ==
  <<from_initialized_mem(mem_ptr_parameter(hdr, first, 1, OUT), hdr + 1),
    mem_ptr_parameter(hdr + 2, first + 1, 4, IN_),
    limit_size(io_size, mem_ptr_parameter(Field(first + 1, 0), first + 2, 2, OUT)),
    limit_size(io_size, mem_ptr_parameter(Field(first + 1, 2), first + 3, 1, OUT)),
    from_initialized_mem(mem_ptr_parameter(hdr + 4, first + 4, 1, OUT), hdr + 5)>>

(* A second message whose msg_len the kernel may leave as it was. *)
prepare_recvmmsg(vec, first) ==
  LET Second(p) == from_mem(p, vec + MMsgCells + 7, 1)
  IN prepare_recvmsg(vec, first, vec + 7)
     \o <<mem_ptr_parameter(vec + MMsgCells + 2, first + 5, 2, IN_),
          Second(mem_ptr_parameter(Field(first + 5, 0), first + 6, 1, OUT))>>

(* Ring options are refused by making the descriptor invalid. *)
block_sock_opt(c) == Emulated(c, {1})

(* SO_SET_REPLACE has a pointer to counters in the option itself. *)
prepare_setsockopt(kind, args, optval) ==
  {PREVENT_SWITCH(kind, args), block_sock_opt(PREVENT_SWITCH(kind, args)),
   PREVENT_SWITCH(kind, args \o <<mem_ptr_parameter(optval + 1, 10, 2, OUT)>>)}

(* A connection to a blacklisted socket becomes a gettid. *)
maybe_blacklist_connect(kind, args) ==
  {PREVENT_SWITCH(kind, args), Hijacked(PREVENT_SWITCH(kind, args), {0})}

(* socketcall takes its arguments from the block that argument 2 points to.*)
(* Its first field is never a pointer here.                                *)
prepare_socketcall ==
  LET sc(switch, params) == Call("socketcall", switch, <<reg_parameter(2, 6, IN_)>> \o params)
      at(f, buf, n, mode) == mem_ptr_parameter(Field(2, f), buf, n, mode)
      LengthAt(f, g) == <<at(f, 7, 1, IN_OUT), from_initialized_mem(at(g, 8, 2, OUT), Buf(7))>>
      Recv == from_syscall_result(at(1, 9, 2, OUT))
  IN maybe_blacklist_connect("socketcall", <<reg_parameter(2, 6, IN_)>>)
     \cup prepare_setsockopt("socketcall", <<reg_parameter(2, 6, IN_)>>, Buf(9))
     \cup {PREVENT_SWITCH("socketcall", <<>>),            \* socket, bind, listen, shutdown
           ALLOW_SWITCH("socketcall", <<>>),              \* send, sendto, sendmsg
           sc(FALSE, LengthAt(4, 3)),                     \* getsockopt
           sc(FALSE, <<at(3, 7, 2, OUT)>>),               \* socketpair
           sc(FALSE, LengthAt(2, 1)),                     \* getpeername, getsockname
           sc(TRUE, <<Recv>>),                            \* recv
           sc(TRUE, LengthAt(2, 1)),                      \* accept, accept4
           sc(TRUE, <<Recv>> \o LengthAt(5, 4)),          \* recvfrom
           sc(TRUE, <<at(1, 7, 2 * MMsgCells, IN_OUT)>>), \* sendmmsg
           sc(FALSE, <<at(1, 7, 2 * MMsgCells, IN_OUT)>>)}
     \cup {sc(s, <<at(1, 7, MsgCells, IN_OUT)>> \o prepare_recvmsg(Buf(7), 8, 0))
             : s \in BOOLEAN}
     \cup {sc(s, <<at(1, 7, 2 * MMsgCells, IN_OUT)>> \o prepare_recvmmsg(Buf(7), 8))
             : s \in BOOLEAN}
     \cup {Invalid("socketcall")}

prepare_msgctl(n) == {OutParam(n), Plain, Invalid("other")}
prepare_shmctl(n) == {Plain, OutParam(n), Invalid("other")}

(* With a dereference the pointer is itself in memory (ipc's semctl). *)
prepare_semctl(n, deref) ==
  {Plain, Invalid("other"),
   IF deref THEN PREVENT_SWITCH("other", <<reg_parameter(n, 1, OUT),
                                           mem_ptr_parameter(Buf(n), 7, 2, OUT)>>)
            ELSE OutParam(n)}

-----------------------------------------------------------------------------
(* ioctl requests that follow no convention. *)
prepare_ioctl_irregular ==
  LET io(params) == PREVENT_SWITCH("ioctl", params)
      WithStackPage(c) == [c EXCEPT !.also = {Field(12, 0)}]  \* record_page_below_stack_ptr
      Indirect == <<reg_parameter(3, 2, IN_), mem_ptr_parameter(Field(3, 1), 7, 2, OUT)>>
  IN {Emulated(io(<<>>), {1}),                             \* emulate_ioctl
      WithStackPage(io(Indirect)),                         \* SIOCETHTOOL, SIOCBONDINFOQUERY
      WithStackPage(io(<<reg_parameter(3, 2, IN_OUT),      \* SIOCGIFCONF
                         from_initialized_mem(mem_ptr_parameter(Field(3, 1), 7, 2, OUT), Buf(3))>>)),
      io(<<>>),                                            \* the privileged ones
      WithStackPage(io(<<reg_parameter(3, 2, OUT)>>)),     \* SIOCGIF*, SIOCGIW*
      WithStackPage(io(<<reg_parameter(3, 2, IN_OUT),      \* SIOCGIWESSID
                         mem_ptr_parameter(Field(3, 1), 7, 2, OUT)>>)),
      io(<<reg_parameter(3, 2, OUT)>>)}                    \* SIOCGSTAMP* .. HCIGETDEVLIST

(* Requests without _IOC_READ write nothing, with three exceptions. *)
prepare_ioctl_write ==
  {PREVENT_SWITCH("ioctl", <<>>), PREVENT_SWITCH("ioctl", <<reg_parameter(3, 2, OUT)>>),
   [ALLOW_SWITCH("ioctl", <<reg_parameter(3, 2, OUT)>>) EXCEPT !.also = {Field(12, 0)}],
   Invalid("ioctl")}

(* Regular requests: the structure passed is what the kernel writes. *)
prepare_ioctl_read ==
  {PREVENT_SWITCH("ioctl", <<reg_parameter(3, 2, IN_OUT)>>),
   PREVENT_SWITCH("ioctl", <<reg_parameter(3, 2, OUT)>>),
   PREVENT_SWITCH("ioctl", <<>>),
   PREVENT_SWITCH("ioctl", <<reg_parameter(3, 2, IN_), mem_ptr_parameter(Field(3, 1), 7, 2, OUT)>>)}

(* VIDIOC_DQBUF, and what is left. *)
prepare_ioctl_additional ==
  {[ALLOW_SWITCH("ioctl", <<reg_parameter(3, 2, IN_OUT)>>) EXCEPT !.also = {Field(12, 0)}],
   Invalid("ioctl")}

prepare_ioctl ==
  prepare_ioctl_irregular \cup prepare_ioctl_write \cup prepare_ioctl_read
  \cup prepare_ioctl_additional

-----------------------------------------------------------------------------
(* The cases of rec_prepare_syscall_arch. *)

(* The generated cases: out-parameters in registers 1 to 5. *)
regular_syscalls == {Plain} \cup {OutParam(n) : n \in 1..5}

rec_prepare_splice_to_capget ==
  {ALLOW_SWITCH("other", <<reg_parameter(2, 1, IN_OUT), reg_parameter(4, 1, IN_OUT)>>), \* splice
   ALLOW_SWITCH("other", <<reg_parameter(3, 1, IN_OUT)>>),                 \* sendfile
   PREVENT_SWITCH("other", <<reg_parameter(1, 2, IN_OUT), reg_parameter(2, 2, OUT)>>), \* capget
   InOutParam(1)}                                             \* capget, unknown version

rec_prepare_fcntl ==
  {Emulated(PREVENT_SWITCH("restore3", <<>>), {1}),           \* emulate_fcntl, SETFD
   PREVENT_SWITCH("restore3", <<>>),
   PREVENT_SWITCH("restore3", <<reg_parameter(3, 2, IN_OUT)>>),  \* GETLK
   PREVENT_SWITCH("restore3", <<reg_parameter(3, 1, OUT)>>),     \* GETOWN_EX
   ALLOW_SWITCH("restore3", <<>>),                               \* SETLKW
   Invalid("restore3")}

rec_prepare_futex_to_select ==
  {[ALLOW_SWITCH("restore3", <<>>) EXCEPT !.restart = "block"],    \* FUTEX_WAIT
   PREVENT_SWITCH("restore3", <<reg_parameter(5, 1, IN_OUT_NO_SCRATCH)>>),
   Emulated(PREVENT_SWITCH("restore3", <<>>), {2}),              \* FUTEX_LOCK_PI
   ResultSized(1), [ResultSized(1) EXCEPT !.switch = TRUE],      \* getrandom
   InOutParam(1),                                                \* thread areas
   ALLOW_SWITCH("other", <<reg_parameter(5, 2, IN_),              \* ipc MSGRCV
                           mem_ptr_parameter(Field(5, 0), 7, 2, OUT)>>),
   OutParam(4),                                                  \* ipc SHMAT
   ALLOW_SWITCH("other", <<reg_parameter(2, 2, OUT)>>),          \* msgrcv
   ALLOW_SWITCH("other", <<reg_parameter(1, 4, IN_)>>             \* old select
      \o [i \in 1..4 |-> mem_ptr_parameter(Field(1, i - 1), 6 + i, 1, IN_OUT)]),
   ALLOW_SWITCH("other", [i \in 1..4 |-> reg_parameter(i + 1, 1, IN_OUT)])}
  \cup prepare_msgctl(5) \cup prepare_shmctl(5) \cup prepare_semctl(5, TRUE)
  \cup prepare_msgctl(3) \cup prepare_socketcall

rec_prepare_pselect6_to_getsockopt ==
  {ALLOW_SWITCH("sigmask", [i \in 1..4 |-> reg_parameter(i + 1, 1, IN_OUT)]   \* pselect6
      \o <<reg_parameter(6, 2, IN_), protect_rr_sigs(mem_ptr_parameter(Field(6, 0), 7, 1, IN_))>>),
   ALLOW_SWITCH("other", <<from_syscall_result(reg_parameter(2, 2, OUT))>>    \* recvfrom
      \o LengthThenBuffer(6, 5)),
   MayBlock, Plain,                                                           \* sendto, sendmsg
   PREVENT_SWITCH("other", LengthThenBuffer(3, 2)),                           \* getsockname
   PREVENT_SWITCH("other", LengthThenBuffer(5, 4))}                           \* getsockopt
  \cup UNION {{Call("other", s, <<reg_parameter(2, MsgCells, IN_OUT)>>
                                \o prepare_recvmsg(Buf(2), 7, 0)),
               Call("other", s, <<reg_parameter(2, 2 * MMsgCells, IN_OUT)>>
                                \o prepare_recvmmsg(Buf(2), 7)),
               Call("other", s, <<reg_parameter(2, 2 * MMsgCells, IN_OUT)>>)} : s \in BOOLEAN}
  \cup prepare_setsockopt("setsockopt", <<>>, Buf(4))

(* A descriptor rr monitors may be read by rr itself (emulate_read): the   *)
(* data is recorded with the entry.                                        *)
rec_prepare_read_to_readv ==
  LET Vector == <<reg_parameter(2, 4, IN_)>>
      Buffers == <<from_syscall_result(mem_ptr_parameter(Field(2, 0), 7, 2, OUT)),
                   from_syscall_result(mem_ptr_parameter(Field(2, 2), 8, 1, OUT))>>
  IN {ALLOW_SWITCH("restore3", <<from_syscall_result(reg_parameter(2, 2, OUT))>>),
      [Emulated(PREVENT_SWITCH("restore3", <<>>), {1}) EXCEPT !.at_entry = {Field(2, 0)}],
      ALLOW_SWITCH("other", LengthThenBuffer(3, 2)),                \* accept, accept4
      ResultSized(1), ResultSized(2), ResultSized(3),               \* getcwd .. readlinkat
      Emulated(PREVENT_SWITCH("restore3", <<>>), {2}),              \* io_setup
      Emulated(PREVENT_SWITCH("restore3", <<>>), {1}),              \* memfd_create
      PREVENT_SWITCH("restore3", <<>>),
      OutParam(2),                                                  \* getgroups
      MayBlock, Plain,                                              \* write, writev
      ALLOW_SWITCH("restore3", Vector \o Buffers),                  \* readv, preadv
      [Emulated(PREVENT_SWITCH("restore3", Vector), {1}) EXCEPT !.at_entry = {Field(7, 0)}]}

(* A wait for an emulated ptrace stop is answered by rr: the options are   *)
(* made invalid and the status is written at the exit.  A wait that only   *)
(* an emulated stop can end becomes a pause (register 0).                  *)
rec_prepare_waits ==
  LET Wait4 == <<reg_parameter(2, 1, IN_OUT), reg_parameter(4, 2, OUT)>>
      Waitid == <<reg_parameter(3, 1, IN_OUT)>>
  IN {ALLOW_SWITCH("wait", Wait4), ALLOW_SWITCH("wait", Waitid),
      Hijacked(ALLOW_SWITCH("wait", Wait4), {0}), Hijacked(ALLOW_SWITCH("wait", Waitid), {0}),
      [Hijacked(PREVENT_SWITCH("wait", Wait4), {3}) EXCEPT !.also = {Field(2, 0)}],
      [Hijacked(PREVENT_SWITCH("wait", Waitid), {4}) EXCEPT !.also = {Field(3, 0)}],
      Plain}                                                        \* setpriority

rec_prepare_pause_to_dup ==
  {[MayBlock EXCEPT !.restart = "never"],                           \* pause
   ALLOW_SWITCH("sigmask", <<reg_parameter(3, 1, IN_OUT),           \* ppoll
      protect_rr_sigs(reg_parameter(4, 1, IN_)), reg_parameter(1, 2, IN_OUT)>>),
   [ALLOW_SWITCH("other", <<reg_parameter(1, 2, IN_OUT)>>) EXCEPT !.restart = "block"], \* poll
   Plain, Hijacked(PREVENT_SWITCH("perf_event_open", <<>>), {0}),   \* perf_event_open
   ALLOW_SWITCH("open", <<>>), Hijacked(ALLOW_SWITCH("open", <<>>), {1}),
   Hijacked(ALLOW_SWITCH("open", <<>>), {2}), Hijacked(PREVENT_SWITCH("open", <<>>), {0}),
   PREVENT_SWITCH("restore3", <<>>), Hijacked(PREVENT_SWITCH("restore3", <<>>), {1})} \* close, dup2
  \cup maybe_blacklist_connect("connect", <<>>)

rec_prepare_prctl ==
  LET p(params) == PREVENT_SWITCH("prctl", params)
  IN {p(<<reg_parameter(2, 1, OUT)>>), p(<<>>), Emulated(p(<<>>), {1}), Emulated(p(<<>>), {}),
      [Emulated(p(<<reg_parameter(2, 1, IN_OUT_NO_SCRATCH)>>), {1})
         EXCEPT !.at_entry = {Field(2, 0)}],                        \* PR_GET_TSC
      Hijacked(p(<<>>), {1}),                                       \* PR_SET_SECCOMP
      Invalid("prctl")}

rec_prepare_arch_prctl ==
  {PREVENT_SWITCH("prctl", <<>>), PREVENT_SWITCH("prctl", <<reg_parameter(2, 1, OUT)>>),
   Emulated(PREVENT_SWITCH("prctl", <<>>), {1}), Invalid("prctl")}

(* A buffered call that was descheduled is in the kernel already: nothing  *)
(* is moved, except that read's block-cloning path used scratch memory of  *)
(* its own, which is only recorded.  A system call rr vetoed, or one with a*)
(* negative number, is left alone.                                         *)
rec_prepare_unusual ==
  {MayBlock, ALLOW_SWITCH("other", <<from_syscall_result(reg_parameter(2, 2, IN_OUT_NO_SCRATCH))>>),
   Plain, Invalid("other")}

rec_prepare_sysctl_to_keyctl ==
  {PREVENT_SWITCH("other", <<reg_parameter(1, 4, IN_),               \* _sysctl
      mem_ptr_parameter(Field(1, 2), 7, 1, IN_OUT),
      from_initialized_mem(mem_ptr_parameter(Field(1, 1), 8, 2, OUT), Buf(7))>>),
   OutParam(4), Plain,                                              \* quotactl
   ResultSized(3), Invalid("other")}                                \* keyctl

rec_prepare_epoll_to_affinity ==
  {ALLOW_SWITCH("other", <<reg_parameter(2, 2, OUT)>>),             \* epoll_wait, rt_sigtimedwait
   [ALLOW_SWITCH("nanosleep", <<reg_parameter(2, 1, OUT)>>) EXCEPT !.restart = "block"],
   [ALLOW_SWITCH("nanosleep", <<reg_parameter(4, 1, OUT)>>) EXCEPT !.restart = "block"],
   MayBlock, OutParam(1),                                           \* sched_yield, rt_sigpending
   PREVENT_SWITCH("other", <<reg_parameter(3, 1, OUT), protect_rr_sigs(reg_parameter(2, 1, IN_))>>),
   ResultSized(3), ResultSized(2),                                  \* xattrs
   Emulated(PREVENT_SWITCH("restore3", <<>>), {1}),                 \* sched_setaffinity
   ResultSized(3)}                                                  \* sched_getaffinity

rec_prepare_mincore_to_mprotect ==
  {OutParam(3), Plain, Invalid("other"), PREVENT_SWITCH("seccomp", <<>>),
   Hijacked(PREVENT_SWITCH("seccomp", <<>>), {1}), Invalid("seccomp"),
   PREVENT_SWITCH("other", <<reg_parameter(1, 1, OUT), reg_parameter(2, 1, OUT)>>), \* get_mempolicy
   PREVENT_SWITCH("restore3", <<>>), Hijacked(PREVENT_SWITCH("restore3", <<>>), {3}), \* madvise
   Invalid("restore3"),
   Hijacked(PREVENT_SWITCH("mmap", <<>>), {4}),           \* mmap, mmap2: MAP_GROWSDOWN is dropped
   Hijacked(PREVENT_SWITCH("mmap", <<>>), {1, 4}),        \* and a chaos mode address chosen
   Hijacked(PREVENT_SWITCH("restore3", <<>>), {1, 2, 3})} \* mprotect with PROT_GROWSDOWN
  \cup prepare_shmctl(3) \cup prepare_semctl(4, FALSE)

(* process_vm_readv writes buffers that only the exit code records. *)
rec_prepare_rrcalls_to_end ==
  {Emulated(Plain, {}), InOutParam(1),                       \* rrcall_init_preload, _buffers
   Plain, [Plain EXCEPT !.also = {Field(12, 0)}],            \* brk .. shmdt, process_vm_readv
   [MayBlock EXCEPT !.kind = "sigmask"],                     \* sigsuspend
   ALLOW_SWITCH("other", <<from_syscall_result(reg_parameter(2, 2, OUT)),
                           reg_parameter(4, 1, OUT)>>),      \* mq_timedreceive
   [ResultSized(2) EXCEPT !.switch = TRUE], MayBlock,        \* modify_ldt
   ALLOW_SWITCH("other", <<reg_parameter(3, 2, OUT), reg_parameter(4, 1, OUT)>>), \* name_to_handle_at
   Invalid("other")}                                         \* unknown calls: ENOSYS

-----------------------------------------------------------------------------
(* Which registers the exit code gives back (0: the system call number).   *)
rec_process_registers(kind) ==
  CASE kind \in {"restore3", "ioctl"} -> 1..3
    [] kind \in {"setsockopt", "prctl", "seccomp"} -> {1}
    [] kind = "socketcall" -> {0, 1}
    [] kind = "mmap" -> {1, 4}
    [] kind = "wait" -> 0..4
    [] kind = "open" -> 0..2
    [] kind \in {"connect", "perf_event_open"} -> {0}
    [] OTHER -> {}
=============================================================================

--------------------------- MODULE SyscallWrappers ---------------------------
(* What each wrapper of preload/syscallbuf.c does with its system call:    *)
(* which of the program's buffers it redirects into the syscall buffer,    *)
(* how it brings the kernel's output back, and when it gives up and lets   *)
(* rr trace the call.                                                      *)
(*                                                                         *)
(* A buffer the program passes is an argument 1..3 of two cells.  Sizes    *)
(* are counted in cells.                                                   *)
EXTENDS Integers, Sequences, FiniteSets

MAY_BLOCK == "MAY_BLOCK"
WONT_BLOCK == "WONT_BLOCK"

(* A redirected parameter.  in: the program's data is copied in first      *)
(* (memcpy_input_parameter); out: how the output is copied back.           *)
Redirected(arg, size, in, out) == [arg |-> arg, size |-> size, in |-> in, out |-> out]
Out(arg) == Redirected(arg, 1, FALSE, "ok")              \* unless the call failed
InOut(arg) == Redirected(arg, 1, TRUE, "ok")
NameLength(arg) == Redirected(arg, 1, TRUE, "namelen")
Returned(arg) == Redirected(arg, 2, FALSE, "ret")        \* as much as was returned
ReturnedUpTo(arg) == Redirected(arg, 2, FALSE, "ret_capped")
Futex(arg) == Redirected(arg, 1, FALSE, "futex")         \* the kernel uses the program's

(* fd: refused for descriptors rr watches; chaos: may be forced to trace   *)
(* in chaos mode; refuse: the arguments may make the wrapper trace;        *)
(* kind selects what only one wrapper does.                                *)
Wrapper(name, params, blockness) ==
  [name |-> name, params |-> params, block |-> blockness, fd |-> FALSE, chaos |-> FALSE,
   refuse |-> FALSE, kind |-> "plain"]
ForFd(c) == [c EXCEPT !.fd = TRUE]
Chaos(c) == [c EXCEPT !.chaos = TRUE]
Selective(c) == [c EXCEPT !.refuse = TRUE]
Kind(c, k) == [c EXCEPT !.kind = k]

-----------------------------------------------------------------------------
sys_generic_nonblocking == Wrapper("access", <<>>, WONT_BLOCK)
sys_generic_nonblocking_fd == ForFd(Wrapper("lseek", <<>>, WONT_BLOCK))
sys_clock_gettime == Wrapper("clock_gettime", <<Out(1)>>, WONT_BLOCK)

sys_fcntl64_no_outparams == ForFd(Wrapper("fcntl", <<>>, WONT_BLOCK))
sys_fcntl64_own_ex == ForFd(Wrapper("fcntl", <<InOut(1)>>, WONT_BLOCK))
sys_fcntl64_setlk64 == Chaos(ForFd(Wrapper("fcntl", <<InOut(1)>>, WONT_BLOCK)))
sys_fcntl64_setlkw64 == Chaos(ForFd(Wrapper("fcntl", <<>>, MAY_BLOCK)))
sys_fcntl ==
  {Selective(c) : c \in {sys_fcntl64_no_outparams, sys_fcntl64_own_ex, sys_fcntl64_setlk64,
                         sys_fcntl64_setlkw64}}

sys_flistxattr == ForFd(Wrapper("flistxattr", <<ReturnedUpTo(1)>>, WONT_BLOCK))
sys_safe_nonblocking_ioctl == ForFd(Wrapper("ioctl", <<>>, WONT_BLOCK))
sys_ioctl == Selective(sys_safe_nonblocking_ioctl)

(* In chaos mode every futex call is traced. *)
sys_futex ==
  {Kind(Selective(Wrapper("futex", p, WONT_BLOCK)), "futex") :
     p \in {<<Futex(1)>>, <<Futex(1), Futex(2)>>}}

sys_generic_getdents == ForFd(Wrapper("getdents", <<Returned(1)>>, WONT_BLOCK))
sys_getdents == sys_generic_getdents
sys_getdents64 == sys_generic_getdents
sys_gettimeofday == Wrapper("gettimeofday", <<Out(1), Out(2)>>, WONT_BLOCK)
sys_generic_getxattr == Wrapper("getxattr", <<ReturnedUpTo(1)>>, WONT_BLOCK)
sys_getxattr == sys_generic_getxattr
sys_lgetxattr == sys_generic_getxattr
sys_fgetxattr == ForFd(Wrapper("fgetxattr", <<ReturnedUpTo(1)>>, WONT_BLOCK))
sys_generic_listxattr == Wrapper("listxattr", <<ReturnedUpTo(1)>>, WONT_BLOCK)
sys_listxattr == sys_generic_listxattr
sys_llistxattr == sys_generic_listxattr
sys__llseek == ForFd(Wrapper("_llseek", <<Redirected(1, 1, TRUE, "always")>>, WONT_BLOCK))

(* These are made in the replay too. *)
sys_madvise == Selective(Wrapper("madvise", <<>>, WONT_BLOCK))
sys_mprotect == Kind(Selective(Wrapper("mprotect", <<>>, WONT_BLOCK)), "mprotect")

sys_open == Chaos(Selective(Wrapper("open", <<>>, MAY_BLOCK)))
sys_creat == sys_open
sys_openat == Chaos(Selective(Wrapper("openat", <<>>, MAY_BLOCK)))
sys_poll == Wrapper("poll", <<InOut(1)>>, MAY_BLOCK)

sys_read == Chaos(ForFd(Wrapper("read", <<Returned(1)>>, MAY_BLOCK)))
(* A large read of a file that can be cloned: its position is asked for,   *)
(* the range is cloned into the trace, and the read is made again in the   *)
(* replay, from the clone; each is a buffered call.                        *)
read_cloned ==
  <<Kind(sys_generic_nonblocking_fd, "clone_lseek"),
    Kind(Wrapper("ioctl", <<>>, WONT_BLOCK), "clone_ioctl"),
    Kind(Wrapper("read", <<>>, MAY_BLOCK), "clone_read")>>

sys_pread64 == ForFd(Wrapper("pread64", <<Returned(1)>>, MAY_BLOCK))
sys_readlink == Wrapper("readlink", <<Returned(1)>>, WONT_BLOCK)
sys_socketcall_recv == Chaos(ForFd(Wrapper("socketcall", <<Returned(1)>>, MAY_BLOCK)))
sys_socketcall == Selective(sys_socketcall_recv)

(* Argument 1 is the sender's address, 2 its length, 3 the data. *)
sys_recvfrom ==
  Chaos(ForFd(Wrapper("recvfrom",
    <<Redirected(1, 2, FALSE, "name"), NameLength(2), Returned(3)>>, MAY_BLOCK)))

(* Argument 2 is the header with the name's length.  The header's and the  *)
(* vector's pointers are written to the buffer by the wrapper itself.      *)
sys_recvmsg ==
  Kind(Chaos(ForFd(Wrapper("recvmsg",
    <<NameLength(2), Redirected(0, 1, FALSE, "pointers"),
      Redirected(1, 2, FALSE, "name"), Returned(3)>>, MAY_BLOCK))), "recvmsg")

sys_sendmsg == Chaos(ForFd(Wrapper("sendmsg", <<>>, MAY_BLOCK)))
sys_sendto == Chaos(ForFd(Wrapper("sendto", <<>>, MAY_BLOCK)))
sys_socketpair == Wrapper("socketpair", <<Out(1)>>, WONT_BLOCK)
sys_time == Kind(Wrapper("time", <<>>, WONT_BLOCK), "time")
sys_xstat64 == Wrapper("fstat", <<Out(1)>>, WONT_BLOCK)
sys_write == Chaos(ForFd(Wrapper("write", <<>>, MAY_BLOCK)))
sys_pwrite64 == ForFd(Wrapper("pwrite64", <<>>, MAY_BLOCK))
sys_writev == Chaos(ForFd(Wrapper("writev", <<>>, MAY_BLOCK)))

(* PTRACE_PEEKDATA is made as process_vm_readv, and as itself, traced, if  *)
(* that did not bring a whole word.                                        *)
sys_ptrace ==
  Kind(Selective(Wrapper("ptrace", <<Redirected(1, 2, FALSE, "word")>>, WONT_BLOCK)), "ptrace")
ptrace_traced == Kind(Wrapper("ptrace", <<Out(1)>>, WONT_BLOCK), "traced")
sys_getrusage == Wrapper("getrusage", <<Out(1)>>, WONT_BLOCK)

(* Whatever has no wrapper. *)
traced_only == Kind(Wrapper("other", <<Out(1)>>, WONT_BLOCK), "traced")

syscall_hook_internal ==
  {sys_generic_nonblocking, sys_generic_nonblocking_fd, sys_clock_gettime, sys_flistxattr,
   sys_ioctl, sys_getdents, sys_getdents64, sys_gettimeofday, sys_getxattr, sys_lgetxattr,
   sys_fgetxattr, sys_listxattr, sys_llistxattr, sys__llseek, sys_madvise, sys_mprotect,
   sys_open, sys_creat, sys_openat, sys_poll, sys_read, sys_pread64, sys_readlink,
   sys_socketcall, sys_recvfrom, sys_recvmsg, sys_sendmsg, sys_sendto, sys_socketpair,
   sys_time, sys_xstat64, sys_write, sys_pwrite64, sys_writev, sys_ptrace, sys_getrusage,
   traced_only}
  \cup sys_fcntl \cup sys_futex
=============================================================================

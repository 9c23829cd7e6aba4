----------------------------- MODULE MappingWorlds -----------------------------
(* Small worlds for ReplayMappings: each scenario is a set of files, the    *)
(* files open, and the calls the programs may make, in any order.           *)
EXTENDS MappedMemory

File(class, size, patched) ==
  [class |-> class, size |-> size, patched |-> patched,
   cells |-> [i \in 1..MaxCells |-> IF i <= size THEN 1 ELSE 0]]

MmapFile(start, len, fd, off, shared, exec) ==
  [op |-> "mmap", anon |-> FALSE, start |-> start, len |-> len, fd |-> fd, off |-> off,
   shared |-> shared, exec |-> exec, grows |-> FALSE]
MmapAnon(start, len, shared, grows) ==
  [op |-> "mmap", anon |-> TRUE, start |-> start, len |-> len, fd |-> 0, off |-> 0,
   shared |-> shared, exec |-> FALSE, grows |-> grows]
Mremap(old, olen, new, nlen) ==
  [op |-> "mremap", old |-> old, olen |-> olen, new |-> new, nlen |-> nlen]
Munmap(start, len) == [op |-> "munmap", start |-> start, len |-> len]
Dontneed(start, len) == [op |-> "dontneed", start |-> start, len |-> len]
Brk(grow) == [op |-> "brk", grow |-> grow]
Shmat(start) == [op |-> "shmat", start |-> start]
Shmdt(start) == [op |-> "shmdt", start |-> start]
Write(fd, n) == [op |-> "write", fd |-> fd, implicit |-> TRUE, off |-> 0, n |-> n]
Pwrite(fd, off, n) == [op |-> "write", fd |-> fd, implicit |-> FALSE, off |-> off, n |-> n]
Dup(from, to) == [op |-> "dup", from |-> from, to |-> to]
Close(fd) == [op |-> "close", fd |-> fd]
Clone(ptid, ctid, tls) == [op |-> "clone", ptid |-> ptid, ctid |-> ctid, tls |-> tls]
Execve(file, cloexec) == [op |-> "execve", file |-> file, cloexec |-> cloexec]
Plain(op) == [op |-> op]
Store(addr) == [op |-> "store", addr |-> addr]

Scenario(files, fds, open, cloning, checkpoint, first, calls) ==
  [files |-> files, fds |-> fds, open |-> open, cloning |-> cloning,
   checkpoint |-> checkpoint, first |-> first, calls |-> calls]

-----------------------------------------------------------------------------
(* A file mapped twice and written through an fd and its duplicate; with    *)
(* size 2 the second page shows only once a write has made the file longer. *)
SharedFile(size, a, b) ==
  Scenario("f" :> File("user", size, FALSE), <<1, 0>>, <<"f">>, FALSE, TRUE,
           <<MmapFile(1, 2, 1, 0, TRUE, FALSE)>>,
           {MmapFile(3, 1, 2, 1, TRUE, FALSE),
            Write(a, 1), Pwrite(b, 2, 2), Dup(1, 2), Close(1), Munmap(1, 2),
            Clone(0, 0, FALSE), Store(2)})

(* Memory shared by forked processes. *)
SharedMemory ==
  Scenario(<<>>, <<0, 0>>, <<>>, FALSE, TRUE, <<>>,
           {MmapAnon(1, 1, TRUE, FALSE), Shmat(2), Shmdt(2), Munmap(1, 1), Store(2), Store(5),
            Clone(2, 4, TRUE), Plain("exit"), Mremap(1, 1, 3, 2)})

(* Private mappings of files of every class, in whole and in part. *)
PrivateFiles ==
  {Scenario("f" :> File(class, size, patched), <<1, 0>>, <<"f">>, cloning, FALSE, <<>>,
            {MmapFile(1, 2, 1, 0, FALSE, FALSE), MmapFile(3, 1, 1, 0, FALSE, TRUE),
             Store(2), Store(7), Clone(3, 0, FALSE), Mremap(3, 1, 2, 1)}) :
     class \in {"user", "exe", "root", "unlinked", "device"}, size \in {1, 3},
     patched \in BOOLEAN, cloning \in BOOLEAN}

(* Mappings that move and grow. *)
Moves ==
  {Scenario("f" :> File(class, 4, FALSE), <<1, 0>>, <<"f">>, FALSE, FALSE, <<>>,
            {MmapFile(1, 1, 1, 0, shared, FALSE), Mremap(1, 1, 1, 2), Mremap(1, 1, 2, 2),
             Mremap(1, 2, 3, 1), Mremap(2, 2, 1, 1), Store(2), MmapAnon(1, 1, FALSE, FALSE),
             Dontneed(1, 1)} \ (IF class = "user" THEN {Dontneed(1, 1)} ELSE {})) :
     class \in {"user", "root"}, shared \in BOOLEAN}

(* Heaps, stacks that grow, new programs and new processes. *)
Programs ==
  {Scenario(("e" :> File(class, size, FALSE)) @@ ("f" :> File("user", 2, FALSE)), <<1, 1>>,
            <<"f">>, FALSE, FALSE, <<>>,
            {Execve("e", {1}), Plain("init_preload"), Clone(6, 6, TRUE), Plain("failed_clone"),
             Plain("exit"), Brk(TRUE), Brk(FALSE), MmapAnon(3, 1, FALSE, TRUE), Plain("grow"),
             Store(4)}
            \cup (IF class = "user" THEN {MmapFile(1, 1, 1, 0, TRUE, FALSE)} ELSE {})) :
     class \in {"user", "exe", "tmp"}, size \in {3, 4}}

MappingScenarios == {SharedFile(3, 1, 2), SharedFile(2, 2, 1), SharedMemory} \cup PrivateFiles \cup Moves \cup Programs
=============================================================================

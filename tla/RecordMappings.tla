---------------------------- MODULE RecordMappings ----------------------------
(* What programs map, and the files behind it, in the recording: the       *)
(* recorder's handlers of execve, clone, brk, mmap, mremap, shmat and of   *)
(* writes to mapped files (record_syscall.cc, MmappedFileMonitor.cc) write *)
(* frames, raw records, mapped regions and task events.  ReplayMappings    *)
(* reads them back.                                                        *)
(*                                                                         *)
(* Each system call is the one frame its records belong to: the entry for  *)
(* clone, the exit for the others.                                         *)
EXTENDS MappedMemory

CONSTANTS Scenarios,   \* the files and the calls programs make
          MaxEvents,   \* bound on the events of a recording
          Ahead        \* bound on the events recorded but not yet replayed

VARIABLES sc,      \* the scenario
          rec,     \* the recorded processes, and the trace
          rep,     \* the replay session, and its reader
          ck,      \* a checkpoint of the replay session
          views    \* what the recorded programs saw after each event

vars == <<sc, rec, rep, ck, views>>

-----------------------------------------------------------------------------
FileObj(n) == Obj("file", n, 0, 0)
Sysv == Obj("sysv", "", 0, 0)
Vdso == Obj("vdso", "", 0, 0)
Stack == Obj("stack", "", 0, 0)
Patched == 9       \* what rr's patches put in code
Written == 2       \* what write() puts in files
Stored == 3        \* what programs put in memory

NewSpace(p) == [g \in Pages |-> IF g \in {ScratchPage(p), GlobalsPage} THEN AnonMapping
                                ELSE Unmapped]
NoSpace == [g \in Pages |-> Unmapped]

World == [as |-> [p \in Procs |-> IF p = 1 THEN NewSpace(1) ELSE NoSpace],
          fdm |-> [p \in Procs |-> [fd \in Fds |-> NoMonitor]],
          mons |-> <<>>, alive |-> {1}, ok |-> TRUE]

InitRec(s) ==
  World @@
  [objs |-> [o \in {FileObj(n) : n \in DOMAIN s.files} \cup {Sysv, Vdso} |->
               IF o.t = "file" THEN [cells |-> s.files[o.n].cells, size |-> s.files[o.n].size]
               ELSE [cells |-> <<1, 1, 0, 0>>, size |-> PageCells]],
   fds |-> [p \in Procs |-> s.fds],    \* fd -> open file description, 0 for none
   pos |-> [d \in Fds |-> 0],
   tr |-> EmptyTrace]

InitRep == World @@ [objs |-> [o \in {EmptyFile} |-> NewObject(0)], session |-> 1,
                     rd |-> NewReader, died |-> {}, ungrown |-> FALSE]

Init == /\ sc \in Scenarios
        /\ rec = InitRec(sc)
        /\ rep = InitRep
        /\ ck = [valid |-> FALSE, used |-> FALSE, w |-> InitRep]
        /\ views = <<>>

Views(w) == [p \in Procs |-> IF p \in w.alive THEN [g \in Pages |-> View(w, p, g)] ELSE <<>>]

-----------------------------------------------------------------------------
(* The recorder's records *)
Class(o) == IF o.t = "file" THEN sc.files[o.n].class ELSE ""

KernelMapping(P, g, len, exec) ==
  [start |-> g, len |-> len, obj |-> P.obj, off |-> P.off, priv |-> P.priv, exec |-> exec,
   mapped |-> TRUE, grows |-> P.grows]

Stat(w, o, size) == [size |-> size,
                     file |-> IF o \in DOMAIN w.objs THEN w.objs[o] ELSE NewObject(0)]

WriteRegion(w, km, origin, size) ==
  [w EXCEPT !.tr = write_mapped_region(@, km, Class(km.obj), origin, sc.cloning,
                                       Stat(w, km.obj, size))]

record_remote(w, p, a, n) ==
  IF a = 0 THEN w
  ELSE IF n < 0 \/ ~AllAccessible(w, p, a, n) THEN Fail(w)
  ELSE [w EXCEPT !.tr = write_raw(@, p, a, ReadCells(w, p, a, n))]

record_remote_even_if_null(w, p, a, n) ==
  IF a = 0 THEN [w EXCEPT !.tr = write_raw(@, p, 0, <<>>)] ELSE record_remote(w, p, a, n)

record_remote_fallible(w, p, a, n) ==
  LET Readable == {m \in 0..n : AllAccessible(w, p, a, m)}
      m == CHOOSE i \in Readable : \A j \in Readable : j <= i
  IN record_remote(w, p, a, m)

record_local(w, p, a, cells) ==
  [WriteCells(w, p, a, cells) EXCEPT !.tr = write_raw(@, p, a, cells)]

update_syscallbuf_fds_disabled(w, p, fd) ==
  IF ~has_mapping(w, p, GlobalsPage) THEN w
  ELSE record_local(w, p, DisabledFlag(fd), <<IF is_monitoring(w, p, fd) THEN 1 ELSE 0>>)

init_syscallbuf_fds_disabled(w, p) ==
  record_local(w, p, DisabledFlag(1), [fd \in 1..2 |-> IF is_monitoring(w, p, fd) THEN 1 ELSE 0])

record_event(w, p, c, woff) ==
  [w EXCEPT !.tr = write_frame(@, [op |-> c.op, p |-> p, c |-> c, write_offset |-> woff])]

(* Whether the recorder may record another event, and what follows it. *)
MayRecord(p) == /\ p \in rec.alive
                /\ rec.ok /\ rep.ok
                /\ Len(rec.tr.events) < MaxEvents
                /\ Len(rec.tr.events) - (rep.rd.event - 1) < Ahead
RecordedWith(w, p, c, woff) ==
  /\ rec' = record_event(w, p, c, woff)
  /\ views' = Append(views, Views(rec'))
  /\ UNCHANGED <<sc, rep, ck>>
Recorded(w, p, c) == RecordedWith(w, p, c, 0)

(* A scenario starts with some calls, then any of the others follow. *)
Calls(op) ==
  LET n == Len(rec.tr.events)
  IN {c \in IF n < Len(sc.first) THEN {sc.first[n + 1]} ELSE sc.calls : c.op = op}
Free(p, g, len) == \A h \in g..(g + len - 1) : ~has_mapping(rec, p, h)
FdObj(p, fd) == FileObj(sc.open[rec.fds[p][fd]])

-----------------------------------------------------------------------------
(* mmap *)
rec_mmap_anonymous(w, p, c) ==
  LET o == IF c.shared THEN Obj("zero", "", w.tr.time, 0) ELSE Anon
      P == IF c.shared THEN Mapping(o, 0, FALSE, <<>>, 0)
           ELSE [AnonMapping EXCEPT !.grows = c.grows]
      w1 == IF c.shared THEN [w EXCEPT !.objs = (o :> NewObject(Addr(c.len))) @@ @] ELSE w
      w2 == WriteRegion(MapPages(w1, p, c.start, c.len, P), KernelMapping(P, c.start, c.len, FALSE),
                        "SYSCALL", Addr(c.len))
  IN Require(w2, LastSource(w2.tr) # "TRACE")

(* The monitor for writes through the fd. *)
MonitorWrites(w, p, c, o) ==
  IF is_monitoring(w, p, c.fd) THEN revive(w, p, c.fd)
  ELSE update_syscallbuf_fds_disabled(add_monitor(w, p, c.fd, o), p, c.fd)

patch_after_mmap(w, p, c, o) ==
  IF c.shared \/ ~c.exec \/ ~sc.files[o.n].patched THEN w
  ELSE record_local(w, p, Addr(c.start), <<Patched>>)

(* A device has no size: what the mapping asks for is taken instead. *)
rec_mmap_file(w, p, c) ==
  LET o == FdObj(p, c.fd)
      size == w.objs[o].size
      device == Class(o) = "device"
      st_size == IF device THEN Addr(c.off + c.len) ELSE size
      P == Mapping(o, c.off, ~c.shared, <<>>, IF device THEN 0 ELSE size)
      w1 == WriteRegion(MapPages(w, p, c.start, c.len, P),
                        KernelMapping(P, c.start, c.len, c.exec), "SYSCALL", st_size)
      end == st_size - Addr(c.off)
      nbytes == IF end < Addr(c.len) THEN end ELSE Addr(c.len)
      w2 == IF device THEN record_remote_fallible(w1, p, Addr(c.start), nbytes)
            ELSE record_remote(w1, p, Addr(c.start), nbytes)
      w3 == IF LastSource(w1.tr) # "TRACE" THEN w1
            ELSE IF c.shared THEN MonitorWrites(w2, p, c, o) ELSE w2
  IN patch_after_mmap(w3, p, c, o)

RecordMmap(p) == \E c \in Calls("mmap") :
  /\ MayRecord(p)
  /\ ~c.anon => rec.fds[p][c.fd] # 0
  /\ Recorded(IF c.anon THEN rec_mmap_anonymous(rec, p, c) ELSE rec_mmap_file(rec, p, c), p, c)

(* mremap of a whole mapping, in place or to another address. *)
MappingStart(p, g) == /\ has_mapping(rec, p, g)
                      /\ (g > 1 => ~SameMapping(rec.as[p][g - 1], rec.as[p][g], 1))
CanRemap(p, c) == /\ MappingStart(p, c.old)
                  /\ OneMapping(rec, p, c.old, c.olen)
                  /\ ~(c.old + c.olen \in Pages /\ OneMapping(rec, p, c.old, c.olen + 1))
                  /\ \/ c.new = c.old /\ Free(p, c.old + c.olen, c.nlen - c.olen)
                     \/ (c.new..(c.new + c.nlen - 1)) \cap (c.old..(c.old + c.olen - 1)) = {}

rec_mremap(w, p, c) ==
  LET w1 == Remap(w, p, c.old, c.olen, c.new, c.nlen)
      P == w1.as[p][c.new]
      least == IF c.nlen < c.olen THEN c.nlen ELSE c.olen
      fake == IF P.obj.t = "file" THEN P.st ELSE Addr(least)
      w2 == WriteRegion(w1, KernelMapping(P, c.new, least, FALSE), "REMAP", fake)
      w3 == Require(w2, LastSource(w2.tr) # "TRACE")
      st_size == IF fake = 0 THEN Addr(P.off + c.nlen) ELSE fake
      N == [P EXCEPT !.off = P.off + c.olen]
      w4 == WriteRegion(w3, KernelMapping(N, c.new + c.olen, c.nlen - c.olen, FALSE), "SYSCALL",
                        st_size)
      end == IF st_size < Addr(N.off) THEN 0 ELSE st_size - Addr(N.off)
      size == Addr(c.nlen - c.olen)
  IN IF c.olen >= c.nlen THEN w3
     ELSE IF LastSource(w4.tr) # "TRACE" THEN w4
     ELSE record_remote(w4, p, Addr(c.new + c.olen), IF end < size THEN end ELSE size)

RecordMremap(p) == \E c \in Calls("mremap") :
  /\ MayRecord(p)
  /\ CanRemap(p, c)
  /\ Recorded(rec_mremap(rec, p, c), p, c)

RecordMunmap(p) == \E c \in Calls("munmap") :
  /\ MayRecord(p)
  /\ has_mapping(rec, p, c.start)
  /\ Recorded(UnmapPages(rec, p, c.start, c.len), p, c)

RecordMadvise(p) == \E c \in Calls("dontneed") :
  /\ MayRecord(p)
  /\ \A g \in c.start..(c.start + c.len - 1) : has_mapping(rec, p, g)
  /\ Recorded(DontNeed(rec, p, c.start, c.len), p, c)

-----------------------------------------------------------------------------
(* brk: the heap is one page or none; a mapping without flags says unmap.   *)
rec_brk(w, p, c) ==
  LET has == has_mapping(w, p, HeapPage)
      P == IF c.grow /\ ~has THEN AnonMapping ELSE Unmapped
      km == [KernelMapping(P, HeapPage, IF c.grow = has THEN 0 ELSE 1, FALSE)
               EXCEPT !.mapped = c.grow /\ ~has, !.obj = Anon]
      w1 == WriteRegion(w, km, "SYSCALL", 0)
      w2 == Require(w1, LastSource(w1.tr) # "TRACE")
  IN IF c.grow = has THEN w2 ELSE MapPages(w2, p, HeapPage, 1, P)

RecordBrk(p) == \E c \in Calls("brk") : MayRecord(p) /\ Recorded(rec_brk(rec, p, c), p, c)

(* System V shared memory of one page. *)
rec_shmat(w, p, c) ==
  LET P == Mapping(Sysv, 0, FALSE, <<>>, 0)
      w1 == WriteRegion(MapPages(w, p, c.start, 1, P), KernelMapping(P, c.start, 1, FALSE),
                        "SYSCALL", PageCells)
  IN record_remote(Require(w1, LastSource(w1.tr) = "TRACE"), p, Addr(c.start), PageCells)

RecordShmat(p) == \E c \in Calls("shmat") :
  MayRecord(p) /\ Free(p, c.start, 1) /\ Recorded(rec_shmat(rec, p, c), p, c)

RecordShmdt(p) == \E c \in Calls("shmdt") :
  /\ MayRecord(p)
  /\ rec.as[p][c.start].obj = Sysv
  /\ Recorded(UnmapPages(rec, p, c.start, 1), p, c)

(* A fault below a MAP_GROWSDOWN mapping makes it one page longer. *)
rec_grow_map(w, p, g) ==
  LET P == [AnonMapping EXCEPT !.grows = TRUE]
  IN WriteRegion(MapPages(w, p, g, 1, P), KernelMapping(P, g, 1, FALSE), "SYSCALL", PageCells)

RecordGrowMap(p) == \E c \in Calls("grow"), g \in 1..(UserPages - 1) :
  /\ MayRecord(p)
  /\ rec.as[p][g + 1].grows
  /\ ~has_mapping(rec, p, g) /\ (g > 1 => ~has_mapping(rec, p, g - 1))
  /\ Recorded(rec_grow_map(rec, p, g), p, c)

-----------------------------------------------------------------------------
(* Writes to files.  Every mapping of the file, in every process, is        *)
(* recorded where it shows what was written.                                *)
MonitoredPages(w, obj) ==
  SetToSeq({x \in w.alive \X Pages : w.as[x[1]][x[2]].obj = obj})

did_write_at(w, x, off, n) ==
  LET P == w.as[x[1]][x[2]]
      cells == WrittenCells(P.off, off, n)
      w1 == Require(w, ~P.priv)
  IN IF cells = {} THEN w1
     ELSE record_remote(w1, x[1], Addr(x[2]) + FirstOf(cells) - Addr(P.off), Cardinality(cells))

rec_did_write(w, p, fd, off, n) ==
  LET m == w.fdm[p][fd] IN
  IF m = NoMonitor THEN w
  ELSE IF w.mons[m].dead \/ n = 0 THEN w
  ELSE LET xs == MonitoredPages(w, w.mons[m].obj)
       IN FoldLeft(LAMBDA v, x : did_write_at(v, x, off, n),
                   [w EXCEPT !.mons[m].dead = (xs = <<>>)], xs)

(* The kernel's write: it extends the file if it must. *)
WriteFile(w, o, off, n) ==
  [w EXCEPT !.objs[o].cells = SubSeq(@, 1, off) \o SubSeq(<<Written, Written>>, 1, n)
                                \o SubSeq(@, off + n + 1, MaxCells),
            !.objs[o].size = IF off + n > @ THEN off + n ELSE @]

(* The offset of a write() is retrieved, and kept in its frame, only when a  *)
(* mapping of the file is found.                                             *)
RetrievedOffset(w, w1, p, c, off) ==
  LET m == w.fdm[p][c.fd] IN
  IF m = NoMonitor \/ ~c.implicit THEN -1
  ELSE IF w.mons[m].dead \/ w1.mons[m].dead THEN -1 ELSE off

(* write() writes where the fd is and moves it, pwrite64() where it is told. *)
RecordWrite(p) == \E c \in Calls("write") :
  LET d == rec.fds[p][c.fd]
      off == IF c.implicit THEN rec.pos[d] ELSE c.off
      w1 == WriteFile(rec, FdObj(p, c.fd), off, c.n)
      w2 == IF c.implicit THEN [w1 EXCEPT !.pos[d] = off + c.n] ELSE w1
      w3 == rec_did_write(w2, p, c.fd, off, c.n)
  IN /\ MayRecord(p)
     /\ d # 0
     /\ off + c.n <= MaxCells
     /\ RecordedWith(w3, p, c, RetrievedOffset(w2, w3, p, c, off))

RecordDup(p) == \E c \in Calls("dup") :
  LET w1 == [did_dup(rec, p, c.from, c.to) EXCEPT !.fds[p][c.to] = rec.fds[p][c.from]]
  IN /\ MayRecord(p)
     /\ rec.fds[p][c.from] # 0
     /\ Recorded(update_syscallbuf_fds_disabled(w1, p, c.to), p, c)

RecordClose(p) == \E c \in Calls("close") :
  LET w1 == [did_close(rec, p, c.fd) EXCEPT !.fds[p][c.fd] = 0]
  IN /\ MayRecord(p)
     /\ rec.fds[p][c.fd] # 0
     /\ Recorded(update_syscallbuf_fds_disabled(w1, p, c.fd), p, c)

-----------------------------------------------------------------------------
(* Task creation.  The kernel writes the new tid where the call asks for    *)
(* it; the records of parent and child come before those of the scratch     *)
(* memory of the child.                                                     *)
InitScratch(w, p) ==
  LET P == AnonMapping
      w1 == MapPages(w, p, ScratchPage(p), 1, P)
      w2 == WriteRegion(w1, KernelMapping(P, ScratchPage(p), 1, TRUE), "SYSCALL", 0)
  IN Require(w2, LastSource(w2.tr) # "TRACE")

KernelClone(w, p, q, c) ==
  LET w1 == [w EXCEPT !.as[q] = w.as[p], !.fdm[q] = w.fdm[p], !.fds[q] = w.fds[p],
                      !.alive = @ \cup {q}]
      w2 == IF c.ptid = 0 THEN w1 ELSE WriteCells(w1, p, c.ptid, <<q>>)
  IN IF c.ctid = 0 THEN w2 ELSE WriteCells(w2, q, c.ctid, <<q>>)

rec_prepare_clone(w, p, q, c) ==
  LET w1 == KernelClone(w, p, q, c)
      w2 == record_remote_even_if_null(w1, p, c.ptid, 1)
      w3 == IF ~c.tls THEN w2
            ELSE record_remote_even_if_null(record_remote_even_if_null(w2, p, 0, 1), q, 0, 1)
      w4 == record_remote_even_if_null(record_remote_even_if_null(w3, q, c.ptid, 1), q, c.ctid, 1)
      w5 == [w4 EXCEPT !.tr = write_task_event(@, "CLONE", q, p)]
  IN InitScratch(w5, q)

RecordClone(p) == \E c \in Calls("clone"), q \in Procs \ rec.alive :
  /\ MayRecord(p)
  /\ \A a \in {c.ptid, c.ctid} \ {0} : Accessible(rec, p, a)
  /\ Recorded(rec_prepare_clone(rec, p, q, c), p, c)

(* A clone that fails leaves no records. *)
RecordFailedClone(p) == \E c \in Calls("failed_clone") : MayRecord(p) /\ Recorded(rec, p, c)

RecordExit(p) == \E c \in Calls("exit") :
  LET w1 == [rec EXCEPT !.as[p] = NoSpace, !.alive = @ \ {p},
                        !.tr = write_task_event(@, "EXIT", p, 0)]
  IN /\ MayRecord(p)
     /\ rec.alive # {p}
     /\ Recorded(w1, p, c)

-----------------------------------------------------------------------------
(* execve: the new program has text (page 1) and data (page 2), whose last  *)
(* cell the kernel clears, of one file, a vdso (page 3) and a stack.        *)
Text(f) == Mapping(FileObj(f), 0, TRUE, <<>>, 0)
DataSegment(w, f) ==
  Mapping(FileObj(f), 1, TRUE, [SubSeq(w.objs[FileObj(f)].cells, 3, 4) EXCEPT ![2] = 0], 0)

ExecSpace(w, f) ==
  [g \in Pages |-> CASE g = 1 -> Text(f)
                     [] g = 2 -> DataSegment(w, f)
                     [] g = 3 -> Mapping(Vdso, 0, TRUE, SubSeq(w.objs[Vdso].cells, 1, PageCells), 0)
                     [] g = UserPages -> Mapping(Stack, 0, TRUE, <<4, 5>>, 0)
                     [] OTHER -> Unmapped]

(* The rr page, and the page of the preload library's thread locals. *)
RRPage == KernelMapping(Mapping(Obj("rr", "", 0, 0), 0, TRUE, <<>>, 0), 0, 1, TRUE)

ExecStack(w, p) ==
  LET w1 == WriteRegion(w, KernelMapping(w.as[p][UserPages], UserPages, 1, FALSE), "EXEC", 0)
  IN record_remote(Require(w1, LastSource(w1.tr) = "TRACE"), p, Addr(UserPages), PageCells)

(* Contents in the trace are recorded at once, the last page of the others  *)
(* after all regions (all these mappings are of one page).                  *)
ExecRegion(w, p, g) ==
  LET P == w.as[p][g]
      size == IF P.obj.t = "file" THEN w.objs[P.obj].size ELSE 0
      w1 == WriteRegion(w, KernelMapping(P, g, 1, g = 1), "EXEC", size)
      end == size - Addr(P.off)
  IN IF LastSource(w1.tr) # "TRACE" THEN w1
     ELSE record_remote(w1, p, Addr(g), IF size > 0 /\ end < PageCells THEN end ELSE PageCells)

ExecLastPages(w, p) ==
  FoldLeft(LAMBDA v, g : record_remote(v, p, Addr(g), PageCells), w,
           SelectSeq(<<1, 2, 3>>, LAMBDA g : \E r \in Range(w.tr.mmaps) :
              r.time = w.tr.time /\ r.km.start = g /\ r.source # "TRACE"))

rec_execve(w, p, c) ==
  LET Closed(fd) == fd \in c.cloexec
      w0 == [w EXCEPT !.as[p] = ExecSpace(w, c.file),
                      !.fdm[p] = [fd \in Fds |-> IF Closed(fd) THEN NoMonitor ELSE @[fd]],
                      !.fds[p] = [fd \in Fds |-> IF Closed(fd) THEN 0 ELSE @[fd]]]
      w1 == WriteRegion(WriteRegion(w0, RRPage, "RR_BUFFER", 0), RRPage, "RR_BUFFER", 0)
      w2 == ExecStack([w1 EXCEPT !.tr = write_task_event(@, "EXEC", p, 0)], p)
      w3 == FoldLeft(LAMBDA v, g : ExecRegion(v, p, g), w2, <<1, 2, 3>>)
      w4 == record_local(ExecLastPages(w3, p), p, Addr(3), <<Patched>>)
  IN InitScratch(w4, p)

RecordExecve(p) == \E c \in Calls("execve") :
  MayRecord(p) /\ Recorded(rec_execve(rec, p, c), p, c)

(* The preload library of the new program tells rr where its globals are.   *)
RecordInitPreload(p) == \E c \in Calls("init_preload") :
  /\ MayRecord(p)
  /\ ~has_mapping(rec, p, GlobalsPage)
  /\ Recorded(init_syscallbuf_fds_disabled(MapPages(rec, p, GlobalsPage, 1, AnonMapping), p), p, c)

(* A program stores to its memory.  Nothing is recorded: the replayed       *)
(* program does the same between the same frames.                           *)
RecordRun(p) == \E c \in Calls("store") :
  LET P == rec.as[p][Page(c.addr)] IN
  /\ MayRecord(p)
  /\ Accessible(rec, p, c.addr)
  /\ ~P.priv => /\ Class(P.obj) # "root"
                /\ Addr(P.off) + (c.addr % PageCells) < rec.objs[P.obj].size
  /\ rec' = [StoreCell(rec, p, c.addr, Stored)
               EXCEPT !.tr.events = Append(@, [ev |-> [p |-> p, c |-> c], mem |-> <<>>,
                                               run |-> TRUE])]
  /\ views' = Append(views, Views(rec'))
  /\ UNCHANGED <<sc, rep, ck>>
=============================================================================

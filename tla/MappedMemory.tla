----------------------------- MODULE MappedMemory -----------------------------
(* The memory of the recorded processes and of the processes that replay   *)
(* them, as far as mapped regions go: a page belongs to a mapping of an    *)
(* object (a file, shared memory, nothing) and shows the object's cells or *)
(* its private copy of them.  This is the kernel's part, external to rr;   *)
(* on top of it the emulated files of the replay (EmuFs.cc) and the fd     *)
(* monitors (FdTable.cc, MmappedFileMonitor.cc).                           *)
(*                                                                         *)
(* A page has two cells.  A world w holds, of the recording or of the      *)
(* replay: as, the pages of each process; objs, the contents of objects;   *)
(* fdm, the monitor of each fd (0 for none); mons, the monitors; alive,    *)
(* the processes; ok, no assertion has failed.                             *)
EXTENDS TraceStream, SequencesExt

CONSTANTS UserPages   \* the pages programs map

Procs == {1, 2}
Fds == {1, 2}
HeapPage == UserPages + 1
ScratchPage(p) == UserPages + 1 + p
GlobalsPage == UserPages + 4      \* the preload library's globals
Pages == 1..GlobalsPage
PageCells == 2
MaxCells == 4                     \* of an object

CeilPage(n) == ((n + PageCells - 1) \div PageCells) * PageCells
Page(a) == a \div PageCells
Addr(g) == g * PageCells

-----------------------------------------------------------------------------
(* Objects and pages.  s is the replay session an emulated file belongs to. *)
Obj(t, n, i, s) == [t |-> t, n |-> n, i |-> i, s |-> s]
NoObj == Obj("none", "", 0, 0)
Anon == Obj("anon", "", 0, 0)
EmptyFile == Obj("empty", "", 0, 0)
Zeros(n) == SubSeq(<<0, 0, 0, 0>>, 1, n)
NewObject(size) == [cells |-> Zeros(MaxCells), size |-> size]

(* own is a private copy of the cells; st the size in mapped_file_stat. *)
Mapping(obj, off, priv, own, st) ==
  [obj |-> obj, off |-> off, priv |-> priv, own |-> own, st |-> st, grows |-> FALSE]
Unmapped == Mapping(NoObj, 0, TRUE, <<>>, 0)
AnonMapping == Mapping(Anon, 0, TRUE, Zeros(PageCells), 0)

has_mapping(w, p, g) == w.as[p][g].obj.t # "none"

Fault == <<-1>>      \* nothing is mapped
Bus == <<-2>>        \* beyond the end of the object

View(w, p, g) ==
  LET P == w.as[p][g] IN
  IF P.obj.t = "none" THEN Fault
  ELSE IF P.own # <<>> THEN P.own
  ELSE IF Addr(P.off) >= CeilPage(w.objs[P.obj].size) THEN Bus
  ELSE SubSeq(w.objs[P.obj].cells, Addr(P.off) + 1, Addr(P.off) + PageCells)

Accessible(w, p, a) == Len(View(w, p, Page(a))) = PageCells
AllAccessible(w, p, a, n) == \A i \in 0..(n - 1) : Accessible(w, p, a + i)

ReadCells(w, p, a, n) ==
  [i \in 1..n |-> View(w, p, Page(a + i - 1))[((a + i - 1) % PageCells) + 1]]

StoreCell(w, p, a, v) ==
  LET g == Page(a)
      i == (a % PageCells) + 1
      P == w.as[p][g]
  IN IF P.priv THEN [w EXCEPT !.as[p][g].own = [View(w, p, g) EXCEPT ![i] = v]]
     ELSE [w EXCEPT !.objs[P.obj].cells[Addr(P.off) + i] = v]

Fail(w) == [w EXCEPT !.ok = FALSE]
Require(w, b) == IF b THEN w ELSE Fail(w)

(* write_mem, write_bytes_helper: writing what cannot be written is fatal.  *)
WriteCells(w, p, a, cells) ==
  IF ~AllAccessible(w, p, a, Len(cells)) THEN Fail(w)
  ELSE FoldLeftDomain(LAMBDA v, i : StoreCell(v, p, a + i - 1, cells[i]), w, cells)

(* Pages g, g + 1, ... become a mapping. *)
MapPages(w, p, g, len, P) ==
  [w EXCEPT !.as[p] = [h \in Pages |-> IF h \in g..(g + len - 1)
                                       THEN [P EXCEPT !.off = P.off + (h - g)] ELSE @[h]]]
UnmapPages(w, p, g, len) ==
  [w EXCEPT !.as[p] = [h \in Pages |-> IF h \in g..(g + len - 1) THEN Unmapped ELSE @[h]]]

(* mremap works on one mapping of the kernel. *)
SameMapping(P, Q, d) ==
  P.obj = Q.obj /\ P.priv = Q.priv /\ (P.obj.t # "anon" => Q.off = P.off + d)
OneMapping(w, p, g, len) ==
  /\ has_mapping(w, p, g)
  /\ \A h \in g..(g + len - 1) : SameMapping(w.as[p][g], w.as[p][h], h - g)

Grown(P, d) == [P EXCEPT !.off = P.off + d,
                         !.own = IF P.obj.t = "anon" THEN Zeros(PageCells) ELSE <<>>]

Remap(w, p, old, olen, new, nlen) ==
  [w EXCEPT !.as[p] = [h \in Pages |->
     IF h \in new..(new + nlen - 1)
     THEN IF h - new < olen THEN @[old + (h - new)] ELSE Grown(@[old], h - new)
     ELSE IF h \in old..(old + olen - 1) THEN Unmapped ELSE @[h]]]

(* madvise(MADV_DONTNEED) drops private copies. *)
DontNeed(w, p, g, len) ==
  [w EXCEPT !.as[p] = [h \in Pages |->
     IF h \in g..(g + len - 1) THEN Grown(@[h], 0) ELSE @[h]]]

-----------------------------------------------------------------------------
(* EmuFs: one emulated file for each file that was mapped, as long as a     *)
(* mapping of the session uses it.                                          *)
EmuObj(o, s) == Obj("emu", o.n, o.i, s)
MapsObj(w, o) == \E p \in w.alive, g \in Pages : w.as[p][g].obj = o
has_file_for(w, o) == MapsObj(w, EmuObj(o, w.session))

ensure_size(w, e, size) ==
  IF size > w.objs[e].size THEN [w EXCEPT !.objs[e].size = size] ELSE w

get_or_create(w, o, size) ==
  LET e == EmuObj(o, w.session) IN
  IF has_file_for(w, o) THEN ensure_size(w, e, size)
  ELSE [w EXCEPT !.objs = (e :> NewObject(size)) @@ @]

-----------------------------------------------------------------------------
(* FdTable.  A monitor is shared by the fds it was copied to; recording,    *)
(* every change of a monitored fd updates a flag in the preload library's   *)
(* globals, which is recorded.                                              *)
NoMonitor == 0
is_monitoring(w, p, fd) == w.fdm[p][fd] # NoMonitor
DisabledFlag(fd) == Addr(GlobalsPage) + fd - 1

add_monitor(w, p, fd, obj) ==
  [w EXCEPT !.mons = Append(@, [obj |-> obj, dead |-> FALSE]),
            !.fdm[p][fd] = Len(w.mons) + 1]

revive(w, p, fd) == [w EXCEPT !.mons[w.fdm[p][fd]].dead = FALSE]

did_dup(w, p, from, to) == [w EXCEPT !.fdm[p][to] = w.fdm[p][from]]
did_close(w, p, fd) == [w EXCEPT !.fdm[p][fd] = NoMonitor]

MonitorMapped(w, p, fd, obj) ==
  IF is_monitoring(w, p, fd) THEN revive(w, p, fd) ELSE add_monitor(w, p, fd, obj)

-----------------------------------------------------------------------------
(* A write of n cells at offset off falls on these cells of page g, which   *)
(* shows page pg of the file.                                               *)
WrittenCells(pg, off, n) == {c \in off..(off + n - 1) : c \div PageCells = pg}
FirstOf(S) == CHOOSE c \in S : \A d \in S : c <= d
=============================================================================

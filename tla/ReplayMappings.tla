---------------------------- MODULE ReplayMappings ----------------------------
(* The replay of what RecordMappings records: the handlers of              *)
(* replay_syscall.cc read the frames, raw records, mapped regions and task *)
(* events of the trace and rebuild the memory of the programs.  The        *)
(* recording runs ahead of the replay.  A replay session can be copied to  *)
(* a checkpoint (Session.cc), which takes its place later.                 *)
EXTENDS RecordMappings

-----------------------------------------------------------------------------
(* ReplayTask *)
Apply(w, buf) ==
  IF buf.addr = 0 \/ buf.data = <<>> THEN w
  ELSE IF buf.tid \notin w.alive THEN Fail(w)
  ELSE WriteCells(w, buf.tid, buf.addr, buf.data)

NextRawData(w) == RawData(rec.tr, w.rd)
Consume(w) == [w EXCEPT !.rd = read_raw_data_for_frame(@)]

set_data_from_trace(w) ==
  IF HasRawData(w.rd) THEN Apply(Consume(w), NextRawData(w)) ELSE Fail(w)

apply_all_data_records_from_trace(w) ==
  FoldLeft(LAMBDA v, r : set_data_from_trace(v), w, w.rd.raw_recs)

(* The next mapped region of the frame; without one the handlers work with  *)
(* an empty KernelMapping and an undefined source.                          *)
Found(w) == HasMappedRegion(rec.tr, w.rd)
Region(w) == MappedRegion(rec.tr, w.rd)
ReadRegion(w) == IF Found(w) THEN [w EXCEPT !.rd = read_mapped_region(rec.tr, @)] ELSE Fail(w)

(* With a region read, go on. *)
WithRegion(w, Op(_, _)) == IF Found(w) THEN Op(ReadRegion(w), Region(w)) ELSE Fail(w)

read_task_event(w, type) ==
  LET found == TaskEvents(rec.tr, w.rd, type)
      w1 == [w EXCEPT !.rd = read_task_trace_event(rec.tr, @, type)]
  IN IF found = {} THEN Fail(w)
     ELSE Require(w1, rec.tr.tasks[NextTaskEvent(rec.tr, w.rd, type)].time = w.rd.time)

-----------------------------------------------------------------------------
(* Mapping files.  The file behind a region of source FILE is in the trace. *)
Backing(r) == Obj("backing", r.km.obj.n, r.copy, 0)

(* The trace's file is opened for reading only. *)
finish_direct_mmap(w, p, r, g, len, priv, off) ==
  LET w1 == [w EXCEPT !.objs = (Backing(r) :> r.st.file) @@ @]
      writable == ~priv /\ Class(r.km.obj) # "root"
  IN Require(MapPages(w1, p, g, len, Mapping(Backing(r), off, priv, <<>>, 0)), ~writable)

restore_mapped_region(w, p, r) ==
  LET w1 == Require(w, r.km.priv) IN
  IF r.source = "FILE" THEN finish_direct_mmap(w1, p, r, r.km.start, r.km.len, TRUE, r.km.off)
  ELSE MapPages(w1, p, r.km.start, r.km.len, [AnonMapping EXCEPT !.grows = r.km.grows])

finish_anonymous_mmap(w, p, c) ==
  WithRegion(w, LAMBDA v, r :
    IF ~c.shared THEN MapPages(v, p, c.start, c.len, [AnonMapping EXCEPT !.grows = c.grows])
    ELSE MapPages(get_or_create(Require(v, r.source = "ZERO"), r.km.obj, Addr(c.len)), p,
                  c.start, c.len, Mapping(EmuObj(r.km.obj, w.session), 0, FALSE, <<>>, 0)))

create_sigbus_region(w, p, g, len) ==
  MapPages(w, p, g, len, Mapping(EmptyFile, 0, TRUE, <<>>, 0))

(* The data come from the trace, the pages beyond them must fault. *)
finish_private_mmap(w, p, c) ==
  IF ~HasRawData(w.rd) THEN Fail(w)
  ELSE LET data_pages == Page(CeilPage(Len(NextRawData(w).data)))
           w1 == set_data_from_trace(MapPages(w, p, c.start, c.len, AnonMapping))
       IN create_sigbus_region(w1, p, c.start + data_pages, c.len - data_pages)

(* An emulated file stands for the file; it is brought up to date from the  *)
(* trace.                                                                   *)
finish_shared_mmap(w, p, r, off, fd) ==
  IF ~HasRawData(w.rd) THEN Fail(w)
  ELSE LET buf == NextRawData(w)
           e == EmuObj(r.km.obj, w.session)
           w1 == get_or_create(Consume(w), r.km.obj, r.st.size)
           w2 == MapPages(w1, p, Page(buf.addr), r.km.len, Mapping(e, off, FALSE, <<>>, 0))
           w3 == WriteCells(w2, p, buf.addr, buf.data)
       IN IF fd = 0 THEN w3 ELSE MonitorMapped(w3, p, fd, r.km.obj)

rep_mmap(w, p, c) ==
  LET w1 == IF c.anon THEN finish_anonymous_mmap(w, p, c)
            ELSE WithRegion(w, LAMBDA v, r :
                   IF r.source = "FILE"
                   THEN finish_direct_mmap(v, p, r, c.start, c.len, ~c.shared, r.km.off)
                   ELSE IF r.source # "TRACE" THEN Fail(v)
                   ELSE IF ~c.shared THEN finish_private_mmap(v, p, c)
                   ELSE finish_shared_mmap(v, p, r, c.off, c.fd))
  IN apply_all_data_records_from_trace(w1)

(* The record of the moved part is skipped; contents of the new part, if in *)
(* the trace, are written.                                                  *)
NewPart(w, p, c) ==
  LET w1 == ReadRegion(w)
      P == w.as[p][c.new]
      buf == NextRawData(w1)
      w2 == IF P.obj.t # "emu" THEN w1
            ELSE ensure_size(w1, P.obj, Addr(P.off + c.olen) + Len(buf.data))
  IN IF Region(w).source = "TRACE" /\ HasRawData(w1.rd)
     THEN WriteCells(Consume(w2), p, buf.addr, buf.data) ELSE w1

rep_mremap(w, p, c) ==
  IF ~OneMapping(w, p, c.old, c.olen) THEN Fail(w)
  ELSE WithRegion(Remap(w, p, c.old, c.olen, c.new, c.nlen), LAMBDA v, r :
         IF r.source # "ZERO" THEN Fail(v) ELSE IF Found(v) THEN NewPart(v, p, c) ELSE v)

rep_brk(w, p) ==
  WithRegion(w, LAMBDA v, r :
    IF r.km.mapped THEN MapPages(Require(v, r.source = "ZERO"), p, r.km.start, r.km.len, AnonMapping)
    ELSE UnmapPages(v, p, r.km.start, r.km.len))

rep_shmat(w, p) ==
  apply_all_data_records_from_trace(
    WithRegion(w, LAMBDA v, r : finish_shared_mmap(v, p, r, 0, 0)))

rep_grow_map(w, p) == WithRegion(w, LAMBDA v, r : restore_mapped_region(v, p, r))

-----------------------------------------------------------------------------
(* Writes: the emulated file grows, and the recorded cells are applied.     *)
(* ungrown notes that it should have grown, but for a monitor that died in  *)
(* the session this one was copied from.                                    *)
rep_did_write(w, p, fd, off, n) ==
  LET m == w.fdm[p][fd]
      e == EmuObj(w.mons[m].obj, w.session)
      pages == {x \in w.alive \X Pages : w.as[x[1]][x[2]].obj = e}
      shown == \E x \in pages : WrittenCells(w.as[x[1]][x[2]].off, off, n) # {}
      w1 == [w EXCEPT !.mons[m].dead = (pages = {})]
  IN IF m = NoMonitor \/ n = 0 THEN w
     ELSE IF w.mons[m].dead
     THEN [w EXCEPT !.ungrown = @ \/ (m \in w.died /\ shown /\ off + n > w.objs[e].size)]
     ELSE IF shown THEN ensure_size(w1, e, off + n) ELSE w1

rep_write(w, p, ev) ==
  rep_did_write(w, p, ev.c.fd, IF ev.c.implicit THEN ev.write_offset ELSE ev.c.off, ev.c.n)

-----------------------------------------------------------------------------
(* Tasks *)
init_scratch_memory(w, p, r) ==
  LET ok == r.source = "ZERO" /\ r.km.priv /\ r.km.obj = Anon
  IN MapPages(Require(w, ok), p, r.km.start, r.km.len, AnonMapping)

rep_prepare_clone(w, p, c) ==
  LET w1 == read_task_event(w, "CLONE")
      i == NextTaskEvent(rec.tr, w.rd, "CLONE")
      q == rec.tr.tasks[i].tid
      w2 == [Require(w1, rec.tr.tasks[i].parent = p)
               EXCEPT !.as[q] = w.as[p], !.fdm[q] = w.fdm[p], !.alive = @ \cup {q}]
      w3 == set_data_from_trace(w2)
      w4 == IF c.tls THEN set_data_from_trace(set_data_from_trace(w3)) ELSE w3
      w5 == set_data_from_trace(set_data_from_trace(w4))
  IN IF ~w1.ok THEN w1
     ELSE apply_all_data_records_from_trace(
            WithRegion(w5, LAMBDA v, r : init_scratch_memory(v, q, r)))

rep_exit(w, p) == [w EXCEPT !.as[p] = NoSpace, !.alive = @ \ {p}]

(* All regions of the frame, without those rr maps itself: the stack comes  *)
(* first, scratch memory last.                                              *)
ExecRegions(w) ==
  SelectSeq(SubSeq(rec.tr.mmaps, w.rd.mmap, Len(rec.tr.mmaps)),
            LAMBDA r : r.time = w.rd.time /\ r.km.obj.t # "rr")

SkipRegions(w) ==
  LET here == {i \in w.rd.mmap..Len(rec.tr.mmaps) : rec.tr.mmaps[i].time = w.rd.time}
  IN [w EXCEPT !.rd.mmap = @ + Cardinality(here)]

(* The mappings of the stub program go, those of the recorded one come. *)
RestoreSpace(w, p, kms) ==
  LET n == Len(kms)
      w1 == [w EXCEPT !.as[p] = NoSpace]
      w2 == FoldLeft(LAMBDA v, r : restore_mapped_region(v, p, r), w1, SubSeq(kms, 1, n - 1))
  IN apply_all_data_records_from_trace(init_scratch_memory(w2, p, kms[n]))

rep_execve(w, p, c) ==
  LET kms == ExecRegions(w)
      w1 == SkipRegions(read_task_event(w, "EXEC"))
      w2 == [w1 EXCEPT !.fdm[p] = [fd \in Fds |-> IF fd \in c.cloexec THEN NoMonitor
                                                   ELSE @[fd]]]
  IN IF kms = <<>> THEN Fail(w)
     ELSE RestoreSpace(Require(w2, kms[1].km.obj = Stack), p, kms)

-----------------------------------------------------------------------------
(* rep_process_syscall and rep_after_enter_syscall for each call, with what *)
(* ReplaySession does at the exit of one.                                   *)
rep_process(w, ev) ==
  LET p == ev.p
      c == ev.c
  IN CASE c.op = "mmap" -> rep_mmap(w, p, c)
       [] c.op = "mremap" -> rep_mremap(w, p, c)
       [] c.op = "munmap" -> UnmapPages(w, p, c.start, c.len)
       [] c.op = "dontneed" -> DontNeed(w, p, c.start, c.len)
       [] c.op = "brk" -> rep_brk(w, p)
       [] c.op = "shmat" -> rep_shmat(w, p)
       [] c.op = "shmdt" -> UnmapPages(w, p, c.start, 1)
       [] c.op = "grow" -> rep_grow_map(w, p)
       [] c.op = "write" -> rep_write(w, p, ev)
       [] c.op = "dup" -> did_dup(w, p, c.from, c.to)
       [] c.op = "close" -> did_close(w, p, c.fd)
       [] c.op = "clone" -> rep_prepare_clone(w, p, c)
       [] c.op = "failed_clone" -> w
       [] c.op = "exit" -> rep_exit(w, p)
       [] c.op = "execve" -> rep_execve(w, p, c)
       [] c.op = "init_preload" -> MapPages(w, p, GlobalsPage, 1, AnonMapping)

(* Calls replay finishes itself; the others go through exit_syscall, which  *)
(* applies what is left of the frame's records.                             *)
Retired == {"mmap", "mremap", "shmat", "shmdt", "grow", "execve"}
exit_syscall(w, op) == IF op \in Retired THEN w ELSE apply_all_data_records_from_trace(w)

ReplayFrame ==
  LET w == [rep EXCEPT !.rd = read_frame(rec.tr, @)]
      ev == Frame(rec.tr, w.rd).ev
  IN /\ rep.ok /\ rec.ok
     /\ ~at_end(rec.tr, rep.rd)
     /\ ~rec.tr.events[rep.rd.event].run
     /\ rep' = exit_syscall(rep_process(w, ev), ev.op)
     /\ UNCHANGED <<sc, rec, ck, views>>

ReplayRun ==
  LET ev == rec.tr.events[rep.rd.event].ev
      w == [rep EXCEPT !.rd.event = @ + 1]
  IN /\ rep.ok /\ rec.ok
     /\ ~at_end(rec.tr, rep.rd)
     /\ rec.tr.events[rep.rd.event].run
     /\ rep' = IF Accessible(w, ev.p, ev.c.addr) THEN StoreCell(w, ev.p, ev.c.addr, Stored)
               ELSE Fail(w)
     /\ UNCHANGED <<sc, rec, ck, views>>

-----------------------------------------------------------------------------
(* Checkpoints.  The processes are forked, so what is private is copied;    *)
(* each emulated file is copied once to the file system of the new session  *)
(* and its mappings are made anew.                                          *)

(* Mutant: the copied process keeps mapping the file of the old session. *)
remap_shared_mmap_not(P, s) == P

remap_shared_mmap(P, s) ==
  IF P.obj.t = "emu" THEN [P EXCEPT !.obj = [P.obj EXCEPT !.s = s]] ELSE P

EmuFiles(w) == {o \in DOMAIN w.objs : o.t = "emu" /\ o.s = w.session /\ MapsObj(w, o)}

clone_file(w, o, s) == [w EXCEPT !.objs = ([o EXCEPT !.s = s] :> w.objs[o]) @@ @]

copy_state_to(w, s) ==
  [w EXCEPT !.as = [p \in Procs |-> [g \in Pages |-> remap_shared_mmap(w.as[p][g], s)]],
            !.session = s]

Checkpoint ==
  LET s == rep.session + 1
      w == FoldLeft(LAMBDA v, o : clone_file(v, o, s), rep, SetToSeq(EmuFiles(rep)))
  IN /\ sc.checkpoint /\ rep.ok /\ rec.ok
     /\ ~ck.valid /\ ~ck.used
     /\ rep' = w
     /\ ck' = [ck EXCEPT !.valid = TRUE, !.w = copy_state_to(w, s)]
     /\ UNCHANGED <<sc, rec, views>>

(* The checkpoint replaces the session, which is killed.  Its table of fds  *)
(* is a copy, the monitors in it are not: they are as the killed session    *)
(* left them, died those that were alive when the copy was made.            *)
RestoreCheckpoint ==
  /\ ck.valid /\ rep.ok /\ rec.ok
  /\ rep' = [ck.w EXCEPT !.objs = rep.objs, !.mons = rep.mons,
                         !.died = {m \in DOMAIN ck.w.mons : rep.mons[m].dead /\ ~ck.w.mons[m].dead}]
  /\ ck' = [ck EXCEPT !.valid = FALSE, !.used = TRUE, !.w = InitRep]
  /\ UNCHANGED <<sc, rec, views>>

-----------------------------------------------------------------------------
Record(p) == \/ RecordMmap(p) \/ RecordMremap(p) \/ RecordMunmap(p) \/ RecordMadvise(p)
             \/ RecordBrk(p) \/ RecordShmat(p) \/ RecordShmdt(p) \/ RecordGrowMap(p)
             \/ RecordWrite(p) \/ RecordDup(p) \/ RecordClose(p)
             \/ RecordClone(p) \/ RecordFailedClone(p) \/ RecordExit(p)
             \/ RecordExecve(p) \/ RecordInitPreload(p) \/ RecordRun(p)

Next == \/ \E p \in Procs : Record(p)
        \/ ReplayFrame \/ ReplayRun
        \/ Checkpoint \/ RestoreCheckpoint

Spec == Init /\ [][Next]_vars

-----------------------------------------------------------------------------
(* No assertion or fatal error of the recorder's and the replay's handlers  *)
(* is met: the source of every region is the one its handler expects, a     *)
(* record it reads is there, memory it writes is mapped.  Excepted, here    *)
(* and below, is a session restored from a checkpoint in which a write has  *)
(* found its monitor dead, because the killed session had unmapped the file *)
(* and written to it, and has so not made the emulated file longer          *)
(* (MmappedFileMonitor.cc:42): what it wrote has no page to be put back to. *)
AssertionsHold == rec.ok /\ (rep.ok \/ rep.ungrown)

(* After each frame, and with the session restored from a checkpoint too    *)
(* (but for that case), every process of the replay sees on every page (its *)
(* scratch memory and its preload globals included) what it saw in the      *)
(* recording, faults for pages beyond the end of a file included.           *)
SpacesMatch ==
  rep.ok /\ rec.ok /\ ~rep.ungrown /\ rep.rd.event > 1
    => Views(rep) = views[rep.rd.event - 1]

(* The replay of a frame reads everything the recorder wrote for it: no raw *)
(* record is left, which would shift all later ones, and no mapped region,  *)
(* which would hide those of later frames.                                  *)
RecordsConsumed ==
  rep.ok /\ rec.ok =>
    /\ ~HasRawData(rep.rd)
    /\ \A i \in rep.rd.mmap..Len(rec.tr.mmaps) : rec.tr.mmaps[i].time > rep.rd.time
=============================================================================

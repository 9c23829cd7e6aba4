----------------------------- MODULE TraceStream -----------------------------
(* The trace (TraceStream.cc): one substream each for frames, raw data,    *)
(* mapped regions and task events.  A frame lists the raw records written  *)
(* since the frame before it, their bytes are in RAW_DATA; mapped regions  *)
(* and task events carry the time of the frame they belong to.             *)
(*                                                                         *)
(* A trace is a record of the four substreams, the writer's global_time    *)
(* and its pending raw_recs; a reader is a record of its global_time, the  *)
(* raw_recs of its frame and one position per substream.                   *)
EXTENDS Integers, Sequences, FiniteSets

-----------------------------------------------------------------------------
(* TraceWriter *)
EmptyTrace == [events |-> <<>>, data |-> <<>>, mmaps |-> <<>>, tasks |-> <<>>,
               time |-> 1, raw_recs |-> <<>>, immutable |-> {}]

write_raw(tr, tid, addr, cells) ==
  [tr EXCEPT !.raw_recs = Append(@, [tid |-> tid, addr |-> addr, size |-> Len(cells)]),
             !.data = @ \o cells]

write_frame(tr, ev) ==
  [tr EXCEPT !.events = Append(@, [ev |-> ev, mem |-> tr.raw_recs, run |-> FALSE]),
             !.raw_recs = <<>>,
             !.time = @ + 1]

write_task_event(tr, type, tid, parent) ==
  [tr EXCEPT !.tasks = Append(@, [time |-> tr.time, type |-> type, tid |-> tid,
                                  parent |-> parent])]

(* Whether the heuristics copy the data of a mapped file to the trace.  A   *)
(* file is of a class: "unlinked" (no name), "tmp", "device" (not regular), *)
(* "exe" (executable mode), "root" (owned by root, not writable), "user".   *)
should_copy_mmap_region(km, class) ==
  \/ class \in {"unlinked", "device", "tmp"}
  \/ /\ ~(km.priv /\ (km.exec \/ class = "exe"))
     /\ class # "root"

(* Where the replay finds the contents of a mapped region; cloning tells    *)
(* whether the filesystem can clone files.                                  *)
MappedSource(tr, km, class, origin, cloning) ==
  IF origin \in {"REMAP", "PATCH", "RR_BUFFER"} THEN "ZERO"
  ELSE IF km.obj.t = "sysv" THEN "TRACE"
  ELSE IF origin = "SYSCALL" /\ km.obj.t \in {"anon", "zero"} THEN "ZERO"
  ELSE IF km.obj.t # "file" THEN "TRACE"
  ELSE IF \/ km.obj \in tr.immutable
          \/ km.priv /\ cloning /\ class # "unlinked"
          \/ ~should_copy_mmap_region(km, class)
          \/ km.exec /\ class # "unlinked"
       THEN "FILE" ELSE "TRACE"

(* The file is linked or mapped by its name, and from now on taken to be    *)
(* immutable.                                                               *)
Hardlinked(tr, km, class, cloning) ==
  km.obj \notin tr.immutable /\ ~cloning /\ ~should_copy_mmap_region(km, class)

(* st is the size the record gives for the file, and what a copy, a clone or *)
(* a link of the file in the trace holds.  There is one link for a file, but *)
(* a copy for each region: copy is its number, 0 for the link.               *)
write_mapped_region(tr, km, class, origin, cloning, st) ==
  LET source == MappedSource(tr, km, class, origin, cloning)
      immutable == IF source = "FILE" /\ Hardlinked(tr, km, class, cloning)
                   THEN tr.immutable \cup {km.obj} ELSE tr.immutable
      mmap_count == Len(tr.mmaps) + 1
  IN [tr EXCEPT
        !.mmaps = Append(@, [time |-> tr.time, km |-> km, source |-> source, st |-> st,
                             copy |-> IF km.obj \in immutable THEN 0 ELSE mmap_count]),
        !.immutable = immutable]

LastSource(tr) == tr.mmaps[Len(tr.mmaps)].source

-----------------------------------------------------------------------------
(* TraceReader *)
NewReader == [time |-> 0, raw_recs |-> <<>>, event |-> 1, data |-> 1, mmap |-> 1, task |-> 1]

at_end(tr, rd) == rd.event > Len(tr.events)

Frame(tr, rd) == tr.events[rd.event - 1]

read_frame(tr, rd) ==
  [rd EXCEPT !.time = @ + 1, !.event = @ + 1, !.raw_recs = tr.events[rd.event].mem]

HasRawData(rd) == rd.raw_recs # <<>>

(* The first pending record with its bytes, which are the next of RAW_DATA. *)
RawData(tr, rd) ==
  LET r == Head(rd.raw_recs)
  IN [tid |-> r.tid, addr |-> r.addr, data |-> SubSeq(tr.data, rd.data, rd.data + r.size - 1)]

read_raw_data_for_frame(rd) ==
  [rd EXCEPT !.raw_recs = Tail(@), !.data = @ + Head(rd.raw_recs).size]

(* A mapped region is there to be read only in the frame it belongs to. *)
HasMappedRegion(tr, rd) ==
  rd.mmap <= Len(tr.mmaps) /\ tr.mmaps[rd.mmap].time = rd.time

MappedRegion(tr, rd) == tr.mmaps[rd.mmap]

read_mapped_region(tr, rd) ==
  IF HasMappedRegion(tr, rd) THEN [rd EXCEPT !.mmap = @ + 1] ELSE rd

(* Task events are skipped up to the first one of the type asked for that   *)
(* is not older than the frame.                                             *)
TaskEvents(tr, rd, type) ==
  {i \in rd.task..Len(tr.tasks) : tr.tasks[i].type = type /\ tr.tasks[i].time >= rd.time}

NextTaskEvent(tr, rd, type) ==
  CHOOSE i \in TaskEvents(tr, rd, type) : \A j \in TaskEvents(tr, rd, type) : i <= j

read_task_trace_event(tr, rd, type) ==
  [rd EXCEPT !.task = NextTaskEvent(tr, rd, type) + 1]
=============================================================================

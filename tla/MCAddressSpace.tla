---------------------------- MODULE MCAddressSpace ----------------------------
(* What rr knows and changes of an address space: the breakpoints and      *)
(* watchpoints in it (Breakpoints), the map of its memory (MemoryMap), and *)
(* the recording and replay of what is mapped (ReplayMappings).  A         *)
(* behaviour is one of the three; the state of the others stays as it was  *)
(* at the start.                                                           *)
EXTENDS Breakpoints

-----------------------------------------------------------------------------
(* Debugging sessions: code at the low addresses, data at the high ones.   *)
Data == {MemoryRange(2, 3), MemoryRange(2, 4)}
Code == {MemoryRange(0, 1), MemoryRange(1, 2)}

\* Data records over code and data whose last byte is no breakpoint.
Records == {MemoryRange(0, 3), MemoryRange(1, 3), MemoryRange(3, 4)}
\* A session with nothing set, read or written.
Quiet == [addr |-> 0..3, memories |-> [0..3 -> Values], breaks |-> {0, 1},
          syscalls |-> {1}, watches |-> {}, types |-> {}, maxwatches |-> 4,
          stores |-> {}, fetches |-> {}, records |-> {}, ops |-> {}]

\* Breakpoints, with copies of the session and records over the code.
Memory == [Quiet EXCEPT !.watches = {MemoryRange(2, 3)}, !.types = {"write"},
             !.stores = {2}, !.records = Records,
             !.ops = {"breakpoint", "watchpoint", "apply", "unapply", "checkpoint",
                      "fork", "syscall", "store", "disabled", "trace"}]
\* Overlapping data watchpoints of both kinds.
Watch == [Quiet EXCEPT !.breaks = {0}, !.watches = Data,
            !.types = {"write", "readwrite"}, !.stores = {2, 3}, !.records = Records,
            !.ops = {"breakpoint", "watchpoint", "apply", "unapply", "store",
                     "disabled", "trace"}]
\* Exec watchpoints, single steps over them.
Exec == [Quiet EXCEPT !.watches = Code, !.types = {"exec"}, !.fetches = {0, 1},
           !.ops = {"breakpoint", "watchpoint", "fetch", "syscall", "fork"}]
\* One watchpoint on any range that fits in the four registers.
Ranges == {MemoryRange(s, s + n) : s \in 0..7, n \in 1..16}
Registers == [Quiet EXCEPT !.addr = 0..23,
                !.memories = {[a \in 0..23 |-> CHOOSE v \in Values : TRUE]},
                !.watches = {r \in Ranges : Len(split_range(r)) <= NumRegs},
                !.types = WatchTypes, !.maxwatches = 1, !.ops = {"watchpoint"}]

PassingSessions == {Memory, Watch, Exec, Registers}

-----------------------------------------------------------------------------
(* Tracees that map memory. *)
CONSTANTS NumPages, PageSize, Files, FilePages, MaxBrk  \* of MemoryMap
VARIABLES program, mem, dont_fork, brk_end, pages, astray   \* of MemoryMap

\* Every range of the first pages, and the aligned blocks a program that never
\* splits a mapping would use.
PageRanges(n) == {r \in {[start |-> s, end |-> e] : s \in 0..n, e \in 1..n} : r.start < r.end}
PageBlocks == {r \in PageRanges(NumPages) : r.start % 2 = 0 /\ r.end = r.start + 2}

MixedCalls == [ops |-> {"mmap", "munmap", "brk", "mprotect", "growsdown", "mremap",
                   "checkpoint"},
          ranges |-> PageRanges(3), maps |-> Files \cup {"stack"}]
\* The same without mprotect, after which rr does not coalesce completely.
MappingCalls == [MixedCalls EXCEPT !.ops = @ \ {"mprotect", "growsdown"},
                                   !.maps = Files \cup {"anon"}]
ForkingCalls == [ops |-> {"mmap", "munmap", "madvise", "mremap", "fork", "checkpoint"},
            ranges |-> PageBlocks, maps |-> {"anon", "stack"}]
\* Moves that take mappings apart or land on others.
MovingCalls == [ops |-> {"mmap", "munmap", "mremap", "remap_inside", "remap_onto"},
          ranges |-> PageRanges(3), maps |-> Files \cup {"anon"}]
\* Protections the kernel refuses to change.
RefusedCalls == [ops |-> {"mmap", "mprotect", "refused", "mremap"},
          ranges |-> PageRanges(2) \cup {[start |-> 2, end |-> 3]}, maps |-> Files]

MapPrograms == {MixedCalls, MappingCalls, ForkingCalls, MovingCalls, RefusedCalls}

ASSUME MemoryMapAssumption ==
  /\ NumPages \in Nat \ {0} /\ PageSize \in Nat \ {0}
  /\ MaxBrk \in 0..(NumPages * PageSize)
  /\ FilePages \in Nat \ {0}
  /\ \A p \in MapPrograms : \A r \in p.ranges :
        r.start \in Nat /\ r.end \in r.start + 1 .. NumPages

Map == INSTANCE MemoryMap WITH Programs <- MapPrograms

-----------------------------------------------------------------------------
(* Recordings of what is mapped, and their replays. *)
CONSTANTS UserPages, MaxEvents, Ahead   \* of ReplayMappings
VARIABLES sc, rec, rep, ck, views       \* of ReplayMappings

Worlds == INSTANCE MappingWorlds
Mappings == INSTANCE ReplayMappings WITH Scenarios <- Worlds!MappingScenarios

-----------------------------------------------------------------------------
VARIABLE part   \* which of the three: never changes

mapVars == <<program, mem, dont_fork, brk_end, pages, astray>>
mappingVars == <<sc, rec, rep, ck, views>>
MCVars == <<part, vars, mapVars, mappingVars>>

SomeSession == CHOOSE s \in Sessions : Cardinality(s.memories) = 1
SomeProgram == CHOOSE p \in MapPrograms : TRUE
SomeWorld == CHOOSE x \in Worlds!MappingScenarios : TRUE

MCInit ==
  /\ \/ part = "breakpoints" /\ program = SomeProgram /\ sc = SomeWorld
     \/ part = "map" /\ session = SomeSession /\ sc = SomeWorld
     \/ part = "mappings" /\ session = SomeSession /\ program = SomeProgram
  /\ Init /\ Map!Init /\ Mappings!Init

MCNext ==
  \/ part = "breakpoints" /\ Next /\ UNCHANGED <<part, mapVars, mappingVars>>
  \/ part = "map" /\ Map!Next /\ UNCHANGED <<part, vars, mappingVars>>
  \/ part = "mappings" /\ Mappings!Next /\ UNCHANGED <<part, vars, mapVars>>

MCSpec == MCInit /\ [][MCNext]_MCVars

-----------------------------------------------------------------------------
(* A debugger is invisible to the replay: whatever it, replay's own        *)
(* breakpoints and the data records of the trace do to the same bytes, the *)
(* bytes saved under breakpoints are the recorded program's, the reference *)
(* counts are those of the debugger's lists, and a copied session has none *)
(* of it.                                                                  *)
DebuggerInvisible == TypeOK /\ MemoryTransparent /\ CountsMatchTimeline /\ CopiesAreBare

(* A watchpoint reports what happened to its bytes and nothing else, and   *)
(* the debug registers cover exactly the bytes it needs.                   *)
WatchpointsFire == WatchpointsExact /\ RegistersCoverRange

(* AddressSpace's copy of the memory map says page by page what the kernel *)
(* says, dont_fork included, however calls split, moved and merged the     *)
(* mappings, and neighbours that can be one mapping are.  Excepted, at the *)
(* pages of the call and in the one respect: offsets after an mremap from  *)
(* inside a mapping, protections after a refused mprotect, dont_fork after *)
(* a checkpoint, and everything after an mremap onto mapped pages.         *)
MapMatchesKernel ==
  /\ Map!TypeOK /\ Map!CacheMatchesKernel /\ Map!FullyCoalesced
  /\ Map!DontForkMatchesKernel

(* After each frame, and in a session restored from a checkpoint too, no   *)
(* assertion has failed and every process of the replay sees on every page *)
(* what it saw in the recording; and the replay of a frame has read all    *)
(* that the recorder wrote for it, as a raw record or mapped region left   *)
(* over would shift or hide later ones.  Excepted: a session restored from *)
(* a checkpoint, once the program writes to the end of a file whose        *)
(* monitor the session it was copied from has marked dead.                 *)
SpacesMatch == Mappings!AssertionsHold /\ Mappings!SpacesMatch /\ Mappings!RecordsConsumed
=============================================================================

------------------------------ MODULE MemoryMap ------------------------------
(***************************************************************************)
(* The memory map that rr keeps of a tracee: AddressSpace::mem, the        *)
(* MADV_DONTFORK ranges and the brk, updated from the tracee's system      *)
(* calls after the kernel has performed them, beside the kernel's own page *)
(* table.  rr never asks the kernel what is mapped; everything it does     *)
(* with tracee memory relies on this copy staying exact.                   *)
(*                                                                         *)
(* Mapping boundaries and the lengths of calls are counted in pages (rr    *)
(* and the kernel both round lengths up to a page before anything else);   *)
(* the brk is kept in bytes.  What is mapped, the name, device and inode   *)
(* of a KernelMapping, is one value, its resource.  Left out: the          *)
(* recorded_map beside map (equal while recording), emu_file, local_addr,  *)
(* monitored memory and the marker bits of Mapping::flags.                 *)
(***************************************************************************)
EXTENDS Integers, FiniteSets, FiniteSetsExt

CONSTANTS NumPages,     \* pages of the address space
          PageSize,     \* bytes in a page
          Files,        \* mappable files
          FilePages,    \* pages in a file (bound)
          MaxBrk,       \* highest brk, in bytes
          Programs      \* what a tracee may do: the calls it makes, the ranges
                        \* it passes to them and what it maps

VARIABLES program,    \* the member of Programs, never changed
          mem,        \* AddressSpace::mem: mappings, keyed by disjoint ranges
          dont_fork,  \* AddressSpace::dont_fork: a std::set of ranges
          brk_end,    \* AddressSpace::brk_end
          pages,      \* the kernel: what each page maps
          astray      \* history: the pages of which rr's copy is known to be wrong,
                      \* by what is wrong of them ("all": anything)

vars == <<program, mem, dont_fork, brk_end, pages, astray>>

\* "remap_inside" and "remap_onto" are mremaps of pages from inside a mapping
\* and onto mapped pages (MREMAP_FIXED); "refused" is an mprotect that fails
\* without changing anything.
Ops == program.ops
CallRanges == program.ranges

Page == 0..(NumPages - 1)
Prots == {"r", "rw"}

\* "stack" is an anonymous MAP_GROWSDOWN mapping, a flag rr keeps to itself;
\* "heap" one made by brk.  To the kernel both are anonymous memory.
Anonymous == {"anon", "stack", "heap"}
Resources == Anonymous \cup Files

MemoryRange(s, e) == [start |-> s, end |-> e]
PagesOf(r) == r.start..(r.end - 1)
intersects(a, b) == a.start < b.end /\ b.start < a.end

ceil_page_size(bytes) == (bytes + PageSize - 1) \div PageSize

----------------------------------------------------------------------------
(* KernelMapping.                                                          *)

KernelMapping(s, e, res, prot, off) ==
  [start |-> s, end |-> e, res |-> res, prot |-> prot, offset |-> off]

is_real_device(m) == m.res \in Files

set_range(m, s, e) == [m EXCEPT !.start = s, !.end = e]

\* Mutant: the second half of a split file mapping keeps the offset of the first.
subrange_same_offset(m, s, e) == set_range(m, s, e)

subrange(m, s, e) ==
  [set_range(m, s, e) EXCEPT
     !.offset = @ + (IF is_real_device(m) THEN s - m.start ELSE 0)]

is_coalescable(l, r) ==
  /\ l.end = r.start
  /\ l.res = r.res /\ l.prot = r.prot
  /\ is_real_device(l) => l.offset + (l.end - l.start) = r.offset

----------------------------------------------------------------------------
(* The operations on AddressSpace::mem.                                    *)

Underflow(m, r) ==
  IF m.start < r.start THEN {subrange(m, m.start, r.start)} ELSE {}

Overflow(m, r) ==
  IF r.end < m.end THEN {subrange(m, r.end, m.end)} ELSE {}

\* The loop of for_each_in_range visits in address order the mappings that
\* overlap r; ITERATE_CONTIGUOUS stops it at the first hole.
InRange(mm, r) == {m \in mm : intersects(m, r)}
InContiguousRange(mm, r) ==
  {m \in InRange(mm, r) :
     \A p \in r.start..(m.start - 1) : \E x \in mm : p \in PagesOf(x)}

unmap_internal(mm, r) ==
  (mm \ InRange(mm, r))
    \cup UNION {Underflow(m, r) \cup Overflow(m, r) : m \in InRange(mm, r)}

\* The mappings joined to m by an unbroken chain of coalescable neighbours.
Chain(mm, m) ==
  {x \in mm :
     \A y \in mm :
        y.start \in Min({x.start, m.start}) + 1 .. Max({x.start, m.start})
          => \E z \in mm : is_coalescable(z, y)}

coalesce_around(mm, m) ==
  LET chain == Chain(mm, m)
      first == CHOOSE x \in chain : \A y \in chain : x.start <= y.start
      last  == CHOOSE x \in chain : \A y \in chain : y.start <= x.start
  IN  (mm \ chain) \cup {set_range(first, first.start, last.end)}

\* mem.insert() leaves the map alone and returns the mapping in the way when
\* there is one.
map_and_coalesce(mm, m) ==
  IF InRange(mm, m) = {}
    THEN coalesce_around(mm \cup {m}, m)
    ELSE coalesce_around(mm, CHOOSE x \in InRange(mm, m) :
                               \A y \in InRange(mm, m) : x.start <= y.start)

Overlap(m, r, prot) ==
  [subrange(m, Max({m.start, r.start}), Min({m.end, r.end})) EXCEPT !.prot = prot]

ProtectPieces(m, r, prot) ==
  Underflow(m, r) \cup {Overlap(m, r, prot)} \cup Overflow(m, r)

protect_from(mm, r, prot) ==
  LET hit  == InContiguousRange(mm, r)
      mm2  == (mm \ hit) \cup UNION {ProtectPieces(m, r, prot) : m \in hit}
      last == CHOOSE m \in hit : \A x \in hit : x.start <= m.start
  IN  IF hit = {} THEN mm ELSE coalesce_around(mm2, Overlap(last, r, prot))

----------------------------------------------------------------------------
(* The DONTFORK ranges.  They sit in a std::set ordered by start and then  *)
(* by end, unlike the mappings, whose comparator equates ranges that       *)
(* overlap.                                                                *)

Before(a, b) == a.start < b.start \/ (a.start = b.start /\ a.end < b.end)

\* From lower_bound(range) on, while an element starts inside the range.
FoundBy(ranges, r) == {x \in ranges : ~Before(x, r) /\ x.start < r.end}

remove_range(ranges, r) ==
  LET hit == FoundBy(ranges, r)
      first == CHOOSE x \in hit : \A y \in hit : ~Before(y, x)
      last  == CHOOSE x \in hit : \A y \in hit : ~Before(x, y)
  IN  IF hit = {} THEN ranges
      ELSE (ranges \ hit)
             \cup {x \in {MemoryRange(first.start, r.start), MemoryRange(r.end, last.end)} :
                     x.start < x.end}

add_range(ranges, r) == remove_range(ranges, r) \cup {r}

----------------------------------------------------------------------------
(* The kernel's page table.  A page that is mapped has a resource, the     *)
(* page of the file it shows, a protection and the DONTFORK mark.          *)

Unmapped == [res |-> "none"]

KernelPage(m, p, df) ==
  [res |-> IF is_real_device(m) THEN m.res ELSE "anon",
   offset |-> IF is_real_device(m) THEN m.offset + (p - m.start) ELSE 0,
   prot |-> m.prot, dontfork |-> df]

Mapped(p) == pages[p] # Unmapped
Free(r) == \A p \in PagesOf(r) : ~Mapped(p)
WhollyMapped(r) == \A p \in PagesOf(r) : Mapped(p)

\* The pages of r up to its first hole: what mprotect changes, failing or not.
BeforeHole(r) == {p \in PagesOf(r) : \A q \in r.start..p : Mapped(q)}

\* mremap takes pages of one kernel mapping only.
OneKernelMapping(r) ==
  /\ WhollyMapped(r)
  /\ \A p \in PagesOf(r) :
        pages[p] = [pages[r.start] EXCEPT
                      !.offset = @ + IF pages[p].res \in Files THEN p - r.start ELSE 0]

----------------------------------------------------------------------------
(* Four calls leave the copy wrong, each at the pages it is about.  Those  *)
(* pages are in astray until something else is mapped there.               *)

Aspects == {"offset", "prot", "dontfork", "all"}
Strays(aspect, ps) == [a \in Aspects |-> IF a = aspect THEN astray[a] \cup ps ELSE astray[a]]
Returned(aspects, ps) == [a \in Aspects |-> IF a \in aspects THEN astray[a] \ ps ELSE astray[a]]

----------------------------------------------------------------------------
(* The tracee's system calls: the kernel performs the call, rr's handler   *)
(* at the system call exit updates the copy.                               *)

Init ==
  /\ program \in Programs
  /\ mem = {} /\ dont_fork = {} /\ brk_end = 0
  /\ pages = [p \in Page |-> Unmapped]
  /\ astray = [a \in Aspects |-> {}]

MapStep(m) ==
  /\ dont_fork' = remove_range(dont_fork, MemoryRange(m.start, m.end))
  /\ mem' = map_and_coalesce(unmap_internal(mem, m), m)
  /\ pages' = [p \in Page |-> IF p \in PagesOf(m) THEN KernelPage(m, p, FALSE)
                                                  ELSE pages[p]]
  /\ astray' = Returned(Aspects, PagesOf(m))

UnmapStep(r) ==
  /\ dont_fork' = remove_range(dont_fork, r)
  /\ mem' = unmap_internal(mem, r)
  /\ pages' = [p \in Page |-> IF p \in PagesOf(r) THEN Unmapped ELSE pages[p]]
  /\ astray' = Returned(Aspects, PagesOf(r))

Mmap(r, res, prot, off) ==
  /\ "mmap" \in Ops
  /\ IF res \in Files THEN off + (r.end - r.start) <= FilePages ELSE off = 0
  /\ MapStep(KernelMapping(r.start, r.end, res, prot, off))
  /\ UNCHANGED brk_end

Munmap(r) ==
  /\ "munmap" \in Ops
  /\ UnmapStep(r)
  /\ UNCHANGED brk_end

\* brk gives back part of the heap or, if the pages are free, extends it.
Brk(addr) ==
  LET old_brk == ceil_page_size(brk_end)
      new_brk == ceil_page_size(addr)
  IN  /\ "brk" \in Ops
      /\ addr # brk_end
      /\ \/ /\ old_brk < new_brk
            /\ Free(MemoryRange(old_brk, new_brk))
            /\ MapStep(KernelMapping(old_brk, new_brk, "heap", "rw", 0))
         \/ /\ new_brk < old_brk
            /\ UnmapStep(MemoryRange(new_brk, old_brk))
         \/ /\ new_brk = old_brk
            /\ UNCHANGED <<mem, dont_fork, pages, astray>>
      /\ brk_end' = addr

ProtectStep(r, prot) ==
  /\ mem' = protect_from(mem, r, prot)
  /\ pages' = [p \in Page |-> IF p \in BeforeHole(r)
                                THEN [pages[p] EXCEPT !.prot = prot] ELSE pages[p]]
  /\ astray' = Returned({"prot"}, BeforeHole(r))
  /\ UNCHANGED <<dont_fork, brk_end>>

\* A failed mprotect is applied too: it has changed the pages before the hole.
Mprotect(r, prot) ==
  /\ "mprotect" \in Ops
  /\ ProtectStep(r, prot)

\* So is one that the kernel refused for the whole of a mapping of a file.
MprotectRefused(r, prot) ==
  /\ "refused" \in Ops
  /\ OneKernelMapping(r) /\ pages[r.start].res \in Files
  /\ mem' = protect_from(mem, r, prot)
  /\ astray' = Strays("prot", PagesOf(r))
  /\ UNCHANGED <<dont_fork, brk_end, pages>>

\* fixup_mprotect_growsdown_parameters: rr hides MAP_GROWSDOWN from the kernel,
\* so it widens a PROT_GROWSDOWN call down to the start of the mapping itself.
MprotectGrowsDown(r, prot) ==
  /\ "growsdown" \in Ops
  /\ \E m \in mem : /\ r.start \in PagesOf(m) /\ m.res = "stack"
                    /\ ProtectStep(MemoryRange(m.start, r.end), prot)

Madvise(r, advice) ==
  /\ "madvise" \in Ops
  /\ WhollyMapped(r)
  /\ dont_fork' = IF advice = "DONTFORK" THEN add_range(dont_fork, r)
                                         ELSE remove_range(dont_fork, r)
  /\ pages' = [p \in Page |-> IF p \in PagesOf(r)
                 THEN [pages[p] EXCEPT !.dontfork = (advice = "DONTFORK")]
                 ELSE pages[p]]
  /\ astray' = Returned({"dontfork"}, PagesOf(r))
  /\ UNCHANGED <<mem, brk_end>>

mapping_of(mm, p) == CHOOSE m \in mm : p \in PagesOf(m)

RemapDontFork(old, new) ==
  IF \E x \in FoundBy(dont_fork, old) : TRUE
    THEN add_range(remove_range(dont_fork, old), new)
    ELSE remove_range(remove_range(dont_fork, old), new)

RemapMem(old, new) ==
  map_and_coalesce(unmap_internal(mem, old),
                   set_range(mapping_of(mem, old.start), new.start, new.end))

\* Moved pages are as wrong as the first of them was.  The mapping made for them
\* has the offset of the one they are from, wrong if that starts earlier in its
\* file; and it is not made at all when it is in the way of another.
RemapAstray(old, new) ==
  LET inside == pages[old.start].res \in Files /\ mapping_of(mem, old.start).start # old.start
      onto == ~Free(MemoryRange(new.start, new.end)) /\ ~intersects(old, new)
      Wrong(a) == CASE a = "offset" -> inside \/ old.start \in astray[a]
                    [] a = "all" -> onto
                    [] OTHER -> old.start \in astray[a]
  IN  [a \in Aspects |-> (astray[a] \ (PagesOf(old) \cup PagesOf(new)))
                           \cup (IF Wrong(a) THEN PagesOf(new) ELSE {})]

\* The kernel moves, shrinks or grows pages of one mapping.  A move needs free
\* pages unless the caller forces the address; growing in place always does.
Mremap(old, new) ==
  /\ "mremap" \in Ops
  /\ OneKernelMapping(old)
  /\ pages[old.start].res \in Files =>
       pages[old.start].offset + (new.end - new.start) <= FilePages
  /\ "remap_inside" \in Ops \/ \E m \in mem : m.start = old.start
  /\ \/ new.start = old.start /\ (new.end > old.end => Free(MemoryRange(old.end, new.end)))
     \/ ~intersects(old, new) /\ ("remap_onto" \in Ops \/ Free(new))
  /\ mem' = RemapMem(old, new)
  /\ dont_fork' = RemapDontFork(old, new)
  /\ astray' = RemapAstray(old, new)
  /\ pages' = [p \in Page |->
       IF p \in PagesOf(new)
         THEN [pages[old.start] EXCEPT
                 !.offset = @ + IF pages[old.start].res \in Files
                                  THEN p - new.start ELSE 0]
       ELSE IF p \in PagesOf(old) THEN Unmapped ELSE pages[p]]
  /\ UNCHANGED brk_end

\* The tracee forks and the model follows the child: AddressSpace's copy
\* constructor, then did_fork_into.  The kernel leaves DONTFORK pages behind, rr
\* those it knows of.
Fork ==
  /\ "fork" \in Ops
  /\ mem' = FoldSet(LAMBDA r, mm : unmap_internal(mm, r), mem, dont_fork)
  /\ dont_fork' = {}
  /\ pages' = [p \in Page |-> IF Mapped(p) /\ pages[p].dontfork
                                THEN Unmapped ELSE pages[p]]
  /\ astray' = Strays("all", astray["dontfork"])
  /\ UNCHANGED brk_end

\* The debugger checkpoints the replay and the model follows the clone, made by
\* the same copy constructor, which does not copy dont_fork.  The recorded program
\* is not involved: its pages stay marked.
Checkpoint ==
  /\ "checkpoint" \in Ops
  /\ dont_fork' = {}
  /\ astray' = Strays("dontfork", UNION {PagesOf(r) : r \in dont_fork})
  /\ UNCHANGED <<mem, brk_end, pages>>

SystemCall ==
  \/ \E r \in CallRanges, res \in program.maps, prot \in Prots, off \in 0..FilePages :
        Mmap(r, res, prot, off)
  \/ \E r \in CallRanges : Munmap(r)
  \/ \E addr \in 0..MaxBrk : Brk(addr)
  \/ \E r \in CallRanges, prot \in Prots : Mprotect(r, prot)
  \/ \E r \in CallRanges, prot \in Prots : MprotectRefused(r, prot)
  \/ \E r \in CallRanges, prot \in Prots : MprotectGrowsDown(r, prot)
  \/ \E r \in CallRanges, advice \in {"DONTFORK", "DOFORK"} : Madvise(r, advice)
  \/ \E old, new \in CallRanges : Mremap(old, new)
  \/ Fork

\* When it is wrong which pages are mapped, the model goes no further.
Next == astray["all"] = {} /\ (SystemCall \/ Checkpoint) /\ UNCHANGED program

Spec == Init /\ [][Next]_vars

----------------------------------------------------------------------------
(* Properties.                                                             *)

\* The mappings, ranges and pages have their types; a mapping is never empty.
TypeOK ==
  /\ \A m \in mem : /\ m.start \in Page /\ m.end \in m.start + 1 .. NumPages
                    /\ m.res \in Resources /\ m.prot \in Prots /\ m.offset \in Nat
  /\ \A r \in dont_fork : r.start \in Page /\ r.end \in r.start + 1 .. NumPages
  /\ brk_end \in 0..MaxBrk
  /\ astray \in [Aspects -> SUBSET Page]
  /\ \A p \in Page : Mapped(p) =>
        /\ pages[p].res \in Files \cup {"anon"} /\ pages[p].offset \in Nat
        /\ pages[p].prot \in Prots /\ pages[p].dontfork \in BOOLEAN

\* What AddressSpace::verify relies on.  However calls split, moved and merged the
\* mappings, no two of them overlap (MappingComparator would take one for the other)
\* and page by page the copy says what the kernel says: which pages are mapped, what
\* they show and how they are protected.  What goes wrong does so at the pages of the
\* call that is treated wrongly and in that respect only: the offset of file pages
\* moved from inside a mapping, the protection where an mprotect was refused, and
\* all where an mremap was forced onto mapped pages or where a fork was replayed
\* from a checkpoint that lost the DONTFORK marks.
CacheMatchesKernel ==
  /\ \A m, x \in mem : intersects(m, x) => m = x
  /\ \A p \in Page \ astray["all"] :
       /\ Mapped(p) <=> \E m \in mem : p \in PagesOf(m)
       /\ \A m \in mem :
            p \in PagesOf(m) =>
              LET k == KernelPage(m, p, pages[p].dontfork)
              IN  /\ k.res = pages[p].res
                  /\ p \notin astray["offset"] => k.offset = pages[p].offset
                  /\ p \notin astray["prot"] => k.prot = pages[p].prot

\* No two neighbours are left that could be one mapping.  coalesce_around looks at
\* the neighbours of one mapping only, so this rests on every operation calling it
\* on the right one.  mprotect does not: it may change several mappings, and
\* coalesces around the last.
FullyCoalesced ==
  {"mprotect", "growsdown"} \cap Ops = {} => \A m, x \in mem : ~is_coalescable(m, x)

\* The pages in dont_fork are those the kernel leaves out of a fork, but for those
\* whose marks a checkpoint lost: an unmap, a new mapping or a move takes the mark
\* away or along in both.  (Only for a tracee that advises whole blocks:
\* remove_range misses a range that starts earlier.)
DontForkMatchesKernel ==
  UNION {PagesOf(r) : r \in dont_fork}
    = {p \in Page : Mapped(p) /\ pages[p].dontfork} \ astray["dontfork"]
=============================================================================

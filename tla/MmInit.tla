------------------------------- MODULE MmInit -------------------------------
(***************************************************************************)
(* How the kernel turns the memory map of the boot information into free   *)
(* memory, after the loader has entered it: init_early and init_late of    *)
(* mm/init.rs, the early mapper and the boot heap of mm/early.rs, the      *)
(* physical map of mm/physmap.rs, and iter_usable_ranges of mm/utils.rs,   *)
(* one step per iteration of its loops.                                    *)
(*                                                                         *)
(* init_early looks for the largest range outside the reserved ones and    *)
(* makes it the boot heap, which it maps early so that the page tables of  *)
(* the physical map can be built in it; init_late reserves what the boot   *)
(* heap has used and hands all other usable ranges to the physical memory  *)
(* manager.  Ranges are [start, end) of frame numbers.                     *)
(***************************************************************************)
EXTENDS Loader

CONSTANTS
  LowLimit,      \* LOWMEM_LIMIT: frames below it are reserved
  EarlyMapMax,   \* BOOTHEAP_EARLYMAP_MAX_PAGES
  PhysMapMax,    \* PHYS_MAP_MAX_PAGES
  MaxTables,     \* bound on the page tables that one range of the physical map takes
  LowIsMapped    \* whether only maps in which the frame LowLimit is usable are considered

ASSUME LimitAssumption == LowLimit \in 1 .. FrameCount - 1 /\ EarlyMapMax \in Nat \ {0}
ASSUME LowIsMappedAssumption == LowIsMapped \in BOOLEAN

VARIABLES
  mem_map,    \* the kernel's memory map
  phase,      \* "off", "early", "physmap", "mapped", "late", "done" or "panic"
  ranges,     \* usable ranges still to come
  todo,       \* reserved ranges still to come
  cur,        \* the rest of the usable range being chopped up, or None
  largest,    \* the largest range found by init_early, or None
  bootheap,   \* base, cur and end of the boot heap
  early,      \* the slots of the early mapper
  physmap,    \* the frames mapped at PHYS_MAP_BASE
  added       \* the ranges handed to add_free_range, in order

heapVars == <<bootheap, early, physmap>>
vars == <<loaderVars, mem_map, phase, ranges, todo, cur, largest, heapVars, added>>

is_early_usable(range) == range.kind = "USABLE"
early_usable_ranges(map) ==
  LET usable == SelectSeq(map, is_early_usable)
  IN [i \in DOMAIN usable |-> Span(usable[i].start, usable[i].end)]

is_usable(range) == range.kind \in {"USABLE", "FIRMWARE_BOOT"}
highest_usable_pfn == Max({range.end : range \in ToSet(SelectSeq(mem_map, is_usable))})

\* The frames that the boot information really takes; the kernel learns no more.
bootinfo == Span(buffer.start, buffer.start + div_ceil(view.size, PAGE_SIZE))

Low == Span(0, LowLimit)
Reserved == {Low, kimage, bootinfo}

gather_reserved_ranges == SortSpans(Reserved)

Kind(f) == mem_kind_from_efi(types[f])
Heap(b, c, e) == [base |-> b, cur |-> c, end |-> e]

Init ==
  /\ LoaderInit
  /\ LowIsMapped => Kind(LowLimit) = "USABLE"
  /\ mem_map = <<>>
  /\ phase = "off"
  /\ ranges = <<>>
  /\ todo = <<>>
  /\ cur = None
  /\ largest = None
  /\ bootheap = Heap(0, 0, 0)
  /\ early = <<>>
  /\ physmap = {}
  /\ added = <<>>

RunLoader ==
  /\ LoaderNext
  /\ LowIsMapped => Kind(LowLimit)' = "USABLE"
  /\ UNCHANGED <<mem_map, phase, ranges, todo, cur, largest, heapVars, added>>

\* init_early, up to the search for the largest range.  The map is read through
\* the early mapping of the boot information.
InitEarly ==
  /\ pc = "entered"
  /\ phase = "off"
  /\ early' = <<bootinfo>>
  /\ mem_map' = get_mem_map(view)
  /\ ranges' = early_usable_ranges(mem_map')
  /\ todo' = gather_reserved_ranges
  /\ phase' = "early"
  /\ UNCHANGED <<loaderVars, cur, largest, bootheap, physmap, added>>
-----------------------------------------------------------------------------
(***************************************************************************)
(* iter_usable_ranges.                                                     *)
(***************************************************************************)

\* The closure called for a range: init_early keeps the largest, init_late adds it.
larger(r) == r.end - r.start > largest.end - largest.start

func(r) ==
  IF phase = "early"
  THEN /\ largest' = IF largest = None \/ larger(r) THEN r ELSE largest
       /\ UNCHANGED added
  ELSE /\ added' = Append(added, r)
       /\ UNCHANGED largest

Iterating == phase \in {"early", "late"}

NextRange ==
  /\ Iterating
  /\ cur = None
  /\ ranges # <<>>
  /\ cur' = Head(ranges)
  /\ ranges' = Tail(ranges)
  /\ UNCHANGED <<loaderVars, mem_map, phase, todo, largest, heapVars, added>>

\* The next reserved range does not intersect the usable one.
Apart(r) == r.start >= cur.end \/ r.end < cur.start

\* Whether a reserved range is done with.  Mutant: never.
consumed_never(r) == FALSE
consumed(r) == r.end <= cur.end

\* The gap before a reserved range.
gap(r) == r.start > cur.start

\* An iteration of the inner loop that does not break.
Chop ==
  /\ Iterating
  /\ cur # None
  /\ todo # <<>>
  /\ LET r == Head(todo)
     IN
     /\ ~Apart(r)
     /\ IF gap(r) THEN func(Span(cur.start, r.start)) ELSE UNCHANGED <<largest, added>>
     /\ todo' = IF consumed(r) THEN Tail(todo) ELSE todo
     /\ cur' = IF r.end >= cur.end THEN None ELSE Span(r.end, cur.end)
  /\ UNCHANGED <<loaderVars, mem_map, phase, ranges, heapVars>>

\* The inner loop is over: report what is left of the usable range.
ReportRest ==
  /\ Iterating
  /\ cur # None
  /\ todo # <<>> => Apart(Head(todo))
  /\ func(cur)
  /\ cur' = None
  /\ UNCHANGED <<loaderVars, mem_map, phase, ranges, todo, heapVars>>

Finished == Iterating /\ cur = None /\ ranges = <<>>
-----------------------------------------------------------------------------
(***************************************************************************)
(* The rest of init_early: the boot heap and the physical map.             *)
(***************************************************************************)

\* How much of the boot heap is mapped early.  Mutant: all of it.
earlymap_all(pages, max) == pages
earlymap_pages(pages, max) == Min({pages, max})

\* The ranges that physmap::init maps: usable ones, those that touch in one.
\* Mutant: usable by the memory manager now, without the firmware's.
only_early_usable(range) == is_early_usable(range)
in_physmap(range) == is_usable(range)
usable_map ==
  LET usable == SelectSeq(mem_map, in_physmap)
      one == [i \in DOMAIN usable |-> [usable[i] EXCEPT !.kind = "USABLE"]]
      all == coalesce_mmap(one)
  IN [i \in DOMAIN all |-> Span(all[i].start, all[i].end)]

\* The largest range becomes the boot heap; the start of it is mapped.
MakeBootheap ==
  /\ phase = "early"
  /\ Finished
  /\ IF largest = None
     THEN phase' = "panic" /\ UNCHANGED <<bootheap, early, ranges>>
     ELSE /\ bootheap' = Heap(largest.start, largest.start, largest.end)
          /\ early' = Append(early, Span(largest.start,
               largest.start + earlymap_pages(largest.end - largest.start, EarlyMapMax)))
          /\ ranges' = usable_map
          /\ phase' = "physmap"
  /\ UNCHANGED <<loaderVars, mem_map, todo, cur, largest, physmap, added>>

\* alloc_phys panics when the boot heap is exhausted, EarlyMapPfnTranslator when a
\* table is beyond the part that was mapped early.
exhausted(pages) == pages > bootheap.end - bootheap.cur
not_covered(pages) == pages > 0 /\ bootheap.cur + pages > early[2].end

\* One range of physmap::init, for which the page tables take `tables' frames.
MapPhysmap(tables) ==
  /\ phase = "physmap"
  /\ ranges # <<>>
  /\ LET r == Head(ranges)
     IN IF r.end >= PhysMapMax \/ exhausted(tables) \/ not_covered(tables)
        THEN phase' = "panic" /\ UNCHANGED <<bootheap, physmap, ranges>>
        ELSE /\ bootheap' = [bootheap EXCEPT !.cur = @ + tables]
             /\ physmap' = physmap \union FramesOf(r)
             /\ ranges' = Tail(ranges)
             /\ UNCHANGED phase
  /\ UNCHANGED <<loaderVars, mem_map, todo, cur, largest, early, added>>

\* init_early returns: the early mapper is dropped, which unmaps its slots.
\* BootinfoData::parse_phys then reads the boot information through the physical map.
FinishEarly ==
  /\ phase = "physmap"
  /\ ranges = <<>>
  /\ early' = <<>>
  /\ mem_map' = parse(view, None).memory_map
  /\ phase' = "mapped"
  /\ UNCHANGED <<loaderVars, ranges, todo, cur, largest, bootheap, physmap, added>>
-----------------------------------------------------------------------------
(***************************************************************************)
(* init_late.                                                              *)
(***************************************************************************)

\* What the boot heap has handed out, rounded up to frames.
used_range(h) == Span(h.base, h.cur)

\* pmm::init takes `pages' from the boot heap for its bitmaps; then the used part is
\* reserved and the ranges are added.
InitLate(pages) ==
  /\ phase = "mapped"
  /\ IF exhausted(pages)
     THEN phase' = "panic" /\ UNCHANGED <<bootheap, ranges, todo>>
     ELSE LET h == [bootheap EXCEPT !.cur = @ + pages]
          IN
          /\ bootheap' = h
          /\ phase' = "late"
          /\ ranges' = early_usable_ranges(mem_map)
          /\ todo' = SortSpans(ToSet(gather_reserved_ranges) \union {used_range(h)})
  /\ UNCHANGED <<loaderVars, mem_map, cur, largest, early, physmap, added>>

Done ==
  /\ phase = "late"
  /\ Finished
  /\ phase' = "done"
  /\ UNCHANGED <<loaderVars, mem_map, ranges, todo, cur, largest, heapVars, added>>

\* The kernel goes on, or boot has ended some other way.
Ended == phase \in {"done", "panic"} \/ pc \in {"failed", "panic"}
Stop == Ended /\ UNCHANGED vars

Next ==
  \/ RunLoader
  \/ InitEarly
  \/ NextRange
  \/ Chop
  \/ ReportRest
  \/ MakeBootheap
  \/ \E tables \in 0 .. MaxTables : MapPhysmap(tables)
  \/ FinishEarly
  \/ \E pages \in 1 .. FrameCount : InitLate(pages)
  \/ Done
  \/ Stop

Spec == Init /\ [][Next]_vars

\* Boot keeps executing.
FairSpec == Spec /\ WF_vars(Next)
-----------------------------------------------------------------------------
TypeOK ==
  /\ phase \in {"off", "early", "physmap", "mapped", "late", "done", "panic"}
  /\ ToSet(ranges) \union ToSet(todo) \union ToSet(added) \union ToSet(early) \subseteq Spans
  /\ cur \in Spans \union {None}
  /\ largest \in Spans \union {None}
  /\ bootheap \in [base : 0 .. FrameCount, cur : 0 .. FrameCount, end : 0 .. FrameCount]
  /\ physmap \subseteq AllFrames

Usable == {f \in AllFrames : Kind(f) = "USABLE"}
AddedFrames == UNION {FramesOf(r) : r \in ToSet(added)}
ReservedFrames == UNION {FramesOf(r) : r \in Reserved}
BootheapFrames == bootheap.base .. bootheap.end - 1
BootheapUsed == bootheap.base .. bootheap.cur - 1


\* From the end of init_early on, all memory that the kernel reaches through the
\* physical map is there: the boot information that parse_phys reads, the boot heap
\* in which the page tables and the memory manager's bitmaps lie, and every frame
\* handed out.  Nothing else is: what the firmware reserved, device memory perhaps,
\* is never mapped cached.  And the early identity mappings are gone.
PhysmapCovers ==
  phase \in {"mapped", "late", "done"} =>
    /\ physmap = {f \in AllFrames : Kind(f) \in {"USABLE", "FIRMWARE_BOOT"}}
    /\ FramesOf(bootinfo) \union BootheapFrames \union AddedFrames \subseteq physmap
    /\ early = <<>>

\* The limits of the kernel, and the pages below one table of each level.
EARLY_MAP_PT_PAGES == 10
BOOTHEAP_EARLYMAP_MAX_PAGES == 2^18
TablePages == [pt |-> 2^9, pd |-> 2^18, pdpt |-> 2^27]

\* The tables that the early mapping of a range takes: a page table only where the
\* range covers part of a large page.
early_tables(base, pages) ==
  LET last == base + pages - 1
      ends == {base \div TablePages.pt, last \div TablePages.pt}
      partly(c) == base > c * TablePages.pt \/ last < (c + 1) * TablePages.pt - 1
  IN {<<"pt", c>> : c \in {e \in ends : partly(e)}}
     \union {<<"pd", g>> : g \in base \div TablePages.pd .. last \div TablePages.pd}
     \union {<<"pdpt", h>> : h \in base \div TablePages.pdpt .. last \div TablePages.pdpt}

\* Frame numbers around the boundaries of tables.
Boundaries == {256, 2^9 - 1, 2^9, 2^18 - 1, 2^18, 2^18 + 1, 2^19 - 2, 2^19 + 2^9 + 1, 2^27 + 3}

\* The tables set aside for the early mapper are enough for the boot information (of up
\* to 600 pages) and the boot heap wherever both lie and however large the heap is,
\* except across a multiple of 512GiB, where one table more is needed for each.
EarlyTablesFit ==
  (pc = "open" /\ \A f \in AllFrames : types[f] = "CONVENTIONAL") =>
    \A b, h \in Boundaries, n \in {1, 2, 600}, m \in {1, 2^9, 2^18 - 1, 2^18, 2^20} :
      Cardinality(early_tables(b, n)
        \union early_tables(h, earlymap_pages(m, BOOTHEAP_EARLYMAP_MAX_PAGES)))
        <= EARLY_MAP_PT_PAGES

\* Boot gets through: the loops end, and so does the loader's once the firmware
\* leaves the map alone.
Terminates == <>Ended
=============================================================================

----------------------------- MODULE AddrSpace -----------------------------
(***************************************************************************)
(* mm/vm/aspace.rs, its tree of slices (aspace/tree.rs) and the VM objects *)
(* mapped into it (vm/object.rs).  Operations run under the lock of the    *)
(* address space; commit and unmap_slice, whose parts matter one by one,   *)
(* take several steps with the lock held.                                  *)
(*                                                                         *)
(* The page table is the map of pages that PageTable implements.  A        *)
(* mapping that neither the tree nor a handle refers to is dropped with    *)
(* its object and the object's frames.                                     *)
(***************************************************************************)
EXTENDS Integers, Sequences, FiniteSetsExt, Functions, TLC

CONSTANTS
  Root,          \* the root slice
  Subslices,     \* identities for the slices callers create
  Mappings,      \* identities for mappings
  Threads,       \* threads that access the pages
  PageCount,     \* the pages of the root slice
  FrameCount,    \* frames of the PMM: 1 .. FrameCount
  Sizes,         \* sizes that callers ask for
  Orders,        \* alignments that callers ask for
  Bases,         \* fixed bases that callers ask for
  Offsets,       \* offsets in objects and in mappings that callers ask for
  Prots,         \* protections that callers ask for
  Accesses,      \* accesses that threads make: "read", "write"
  Objects,       \* objects that callers map: their kind and size
  UsizeRange,    \* 2 ^ the width of usize
  StaleHandles,  \* whether handles are used after an unmap
  None

ASSUME IdsAssumption == Root \notin Subslices /\ (Subslices \union {Root}) \intersect Mappings = {}
ASSUME SizesAssumption ==
  /\ Sizes \subseteq Nat \ {0}
  /\ Objects \subseteq {"eager", "lazy", "phys"} \X Nat

VARIABLES
  slice,     \* slice[s]: a slice, or None; `attached' is whether its inner is Some
  mapping,   \* mapping[m]: a mapping with its object, or None
  children,  \* children[s]: from the starts of the children of s to the children
  held,      \* slices and mappings that callers, or the address space, have a handle of
  pages,     \* pages[v]: the frame and protection mapped at page v, or None
  op,        \* the operation that holds the lock, or None, or Panic, or Dropped
  faults     \* faults[t]: whether thread t runs, faults, waits for fault or was refused

vars == <<slice, mapping, children, held, pages, op, faults>>

Slices == Subslices \union {Root}
Pages == 0 .. PageCount - 1
Frames == 1 .. FrameCount

NoChildren == [k \in {} |-> None]
node(id) == IF id \in Mappings THEN mapping[id] ELSE slice[id]
end(id) == node(id).start + node(id).count
Span(id) == node(id).start .. end(id) - 1

linked(ch) == UNION {Range(ch[s]) : s \in Slices}
free == Frames \ UNION {Range(mapping[m].frames) : m \in {x \in Mappings : mapping[x] # None}}

\* What remains of the mappings and the slices when neither the tree ch nor the
\* handles hd refer to them: a mapping refers to its slice, and owns its object.
KeptMappings(ch, hd) ==
  [m \in Mappings |-> IF m \in linked(ch) \union hd THEN mapping[m] ELSE None]
KeptSlices(sl, mp, ch, hd) ==
  LET parents == {mp[m].parent : m \in {x \in Mappings : mp[x] # None}}
  IN [s \in Slices |-> IF s \in linked(ch) \union hd \union parents
                       THEN sl[s] ELSE None]

NewSlice(start, n, parent) == [start |-> start, count |-> n, parent |-> parent, attached |-> TRUE]
\* `committed' are the pages for which commit has returned Ok.
NewMapping(start, n, parent, offset, prot, frames) ==
  [start |-> start, count |-> n, parent |-> parent, offset |-> offset, prot |-> prot,
   frames |-> frames, committed |-> {}]

Init ==
  /\ slice = [s \in Slices |->
       IF s = Root THEN NewSlice(0, PageCount, None) ELSE None]
  /\ mapping = [m \in Mappings |-> None]
  /\ children = [s \in Slices |-> NoChildren]
  /\ held = {Root}
  /\ pages = [v \in Pages |-> None]
  /\ op = None
  /\ faults = [t \in Threads |-> [state |-> "runs"]]
-----------------------------------------------------------------------------
align_up(n, align) == ((n + align - 1) \div align) * align

\* iter_gaps: the unallocated regions of slice s, as their starts and sizes.
gaps(s) ==
  LET after(k) == Min({c \in DOMAIN children[s] : c >= k} \union {end(s)})
      edges == {slice[s].start} \union {end(c) : c \in Range(children[s])}
  IN {<<k, after(k) - k>> : k \in {e \in edges : after(e) > e}}

\* The pages of a gap left by the alignment, in usize.
aligned_page_count(gap, align) == (gap[2] - (align_up(gap[1], align) - gap[1])) % UsizeRange

\* alloc_spot_dynamic: the first gap that is large enough.
alloc_spot_dynamic(s, order, n) ==
  LET align == 2 ^ order
      fits == {g[1] : g \in {h \in gaps(s) : aligned_page_count(h, align) > n}}
  IN CASE ~slice[s].attached -> [start |-> None, result |-> "INVALID_STATE"]
       [] slice[s].attached /\ fits = {} -> [start |-> None, result |-> "OUT_OF_RESOURCES"]
       [] OTHER -> [start |-> align_up(Min(fits), align), result |-> "ok"]

\* Whether start .. start + n - 1 overlaps the child before it or the one after it.
overlaps_next(s, start, n) ==
  LET next == {k \in DOMAIN children[s] : k >= start}
  IN next # {} /\ start + n > Min(next)
overlaps(s, start, n) ==
  LET prev == {k \in DOMAIN children[s] : k < start}
  IN \/ prev # {} /\ end(children[s][Max(prev)]) > start
     \/ overlaps_next(s, start, n)

alloc_spot_fixed(s, start, n) ==
  [start |-> start,
   result |-> CASE start < slice[s].start \/ start + n > end(s) -> "INVALID_ARGUMENT"
                [] start >= slice[s].start /\ start + n <= end(s) /\ ~slice[s].attached
                     -> "INVALID_STATE"
                [] OTHER -> IF overlaps(s, start, n) THEN "RESOURCE_OVERLAP" ELSE "ok"]

\* MapBase: <<"fixed", start>> or <<"aligned", order>>.
MapBases == ({"fixed"} \X Bases) \union ({"aligned"} \X Orders)
alloc_spot(s, base, n) ==
  IF base[1] = "fixed" THEN alloc_spot_fixed(s, base[2], n) ELSE alloc_spot_dynamic(s, base[2], n)

Insert(s, start, id) == children' = [children EXCEPT ![s] = (start :> id) @@ @]

\* create_subslice.  Metadata is out of memory when no identity is left.
CreateSubslice(s, base, n) ==
  LET unused == {i \in Subslices : slice[i] = None}
      spot == alloc_spot(s, base, n)
  IN
  /\ op = None
  /\ s \in held
  /\ IF unused # {} /\ spot.result = "ok"
     THEN \E id \in unused :
            /\ slice' = [slice EXCEPT ![id] = NewSlice(spot.start, n, s)]
            /\ Insert(s, spot.start, id)
            /\ held' = held \union {id}
     ELSE UNCHANGED <<slice, children, held>>
  /\ UNCHANGED <<mapping, pages, op, faults>>

\* The frames of a new object of n pages: EagerVmObject takes them from the PMM,
\* in either order, PhysVmObject is given them, LazyVmObject has none yet.
NewFrames(kind, n) ==
  CASE kind = "lazy" -> {[i \in 0 .. n - 1 |-> None]}
    [] kind = "phys" -> {[i \in 0 .. n - 1 |-> FrameCount + 1 + i]}
    [] kind = "eager" ->
         IF Cardinality(free) < n THEN {} ELSE
         {f \in [0 .. n - 1 -> free] :
            \/ /\ f[0] = Min(free)
               /\ \A i \in 1 .. n - 1 : f[i] = Min({x \in free : x > f[i - 1]})
            \/ /\ f[0] = Max(free)
               /\ \A i \in 1 .. n - 1 : f[i] = Max({x \in free : x < f[i - 1]})}

\* map is called with an object of `total' pages, whose frames are one of `objects';
\* there is none if the object could not be made.
Map(s, base, n, offset, total, objects, prot) ==
  LET unused == {i \in Mappings : mapping[i] = None}
      spot == alloc_spot(s, base, total)
      fits == offset <= total /\ n <= total - offset
  IN
  /\ op = None
  /\ s \in held
  /\ IF unused # {} /\ objects # {} /\ fits /\ spot.result = "ok"
     THEN \E id \in unused, frames \in objects :
            /\ mapping' = [mapping EXCEPT ![id] = NewMapping(spot.start, n, s, offset, prot, frames)]
            /\ Insert(s, spot.start, id)
            /\ held' = held \union {id}
     ELSE UNCHANGED <<mapping, children, held>>
  /\ UNCHANGED <<slice, pages, op, faults>>
-----------------------------------------------------------------------------
\* do_unmap, for a range in which no hole is overshot (see PageTable).  Mutant: the
\* last page is left.
do_unmap_short(start, n) ==
  pages' = [v \in Pages |-> IF v \in start .. start + n - 2 THEN None ELSE pages[v]]
do_unmap(start, n) ==
  pages' = [v \in Pages |-> IF v \in start .. start + n - 1 THEN None ELSE pages[v]]

Panic == [call |-> "panic"]
Dropped == [call |-> "dropped"]

\* Callers use a handle they have unmapped only if StaleHandles.
Usable(m) == m \in linked(children) \/ StaleHandles

\* What unmap returns.  The mapping keeps its inner, so that its parent is found;
\* remove_child panics if the parent has no child there.
unmap_result(m) ==
  CASE ~slice[mapping[m].parent].attached -> "INVALID_STATE"
    [] slice[mapping[m].parent].attached ->
         IF mapping[m].start \in DOMAIN children[mapping[m].parent] THEN "ok" ELSE "panic"

Unmap(m) ==
  /\ op = None
  /\ m \in held
  /\ Usable(m)
  /\ LET ch == [children EXCEPT ![mapping[m].parent] =
                  [k \in DOMAIN @ \ {mapping[m].start} |-> @[k]]]
     IN CASE unmap_result(m) = "ok" ->
               /\ children' = ch
               /\ mapping' = KeptMappings(ch, held)
               /\ slice' = KeptSlices(slice, mapping', ch, held)
               /\ do_unmap(mapping[m].start, mapping[m].count)
               /\ UNCHANGED op
          [] unmap_result(m) = "panic" ->
               op' = Panic /\ UNCHANGED <<slice, mapping, children, pages>>
          [] unmap_result(m) = "INVALID_STATE" -> UNCHANGED <<slice, mapping, children, pages, op>>
  /\ UNCHANGED <<held, faults>>

\* detach_children: slice s and the slices below it.
detached(s) ==
  LET below[t \in Slices] ==
        {t} \union UNION {below[c] : c \in Range(children[t]) \intersect Subslices}
  IN below[s]

\* They lose their children, which drops the objects no handle keeps; the parent of
\* s has the children ch left, and hd are the handles left.
detach_children(s, ch, hd) ==
  LET below == detached(s)
  IN /\ children' = [t \in Slices |-> IF t \in below THEN NoChildren ELSE ch[t]]
     /\ mapping' = KeptMappings(children', hd)
     /\ slice' = KeptSlices([t \in Slices |-> IF t \in below THEN [slice[t] EXCEPT !.attached = FALSE]
                                             ELSE slice[t]],
                            mapping', children', hd)

\* unmap_slice, up to do_unmap: the slice leaves its parent and is detached.
UnmapSlice(s) ==
  /\ op = None
  /\ s \in held
  /\ IF s = Root \/ ~slice[s].attached
     THEN UNCHANGED <<slice, mapping, children, op>>
     ELSE LET p == slice[s].parent
              siblings == [k \in DOMAIN children[p] \ {slice[s].start} |-> children[p][k]]
          IN /\ detach_children(s, [children EXCEPT ![p] = siblings], held)
             /\ op' = [call |-> "unmap_slice", start |-> slice[s].start, count |-> slice[s].count]
  /\ UNCHANGED <<held, pages, faults>>

UnmapSliceFinish ==
  /\ op # None
  /\ op.call = "unmap_slice"
  /\ do_unmap(op.start, op.count)
  /\ op' = None
  /\ UNCHANGED <<slice, mapping, children, held, faults>>

\* AddrSpace::drop, when no thread is in the space any more: the tree is taken apart
\* and the root table goes.  The caller may have cloned the handle of the root slice.
DropAddrSpace ==
  /\ op = None
  /\ \A t \in Threads : faults[t].state = "runs"
  /\ held' \in {held, held \ {Root}}
  /\ detach_children(Root, children, held')
  /\ pages' = [v \in Pages |-> None]
  /\ op' = Dropped
  /\ UNCHANGED faults

\* A caller drops a handle.
DropHandle(id) ==
  /\ op \in {None, Dropped}
  /\ id \in held
  /\ id = Root => op = Dropped
  /\ held' = held \ {id}
  /\ mapping' = KeptMappings(children, held')
  /\ slice' = KeptSlices(slice, mapping', children, held')
  /\ UNCHANGED <<children, pages, op, faults>>
-----------------------------------------------------------------------------
\* commit takes the lock.
Commit(m, offset) ==
  /\ op = None
  /\ m \in held
  /\ Usable(m)
  /\ offset < mapping[m].count
  /\ op' = [call |-> "commit", m |-> m, first |-> offset, next |-> offset, end |-> mapping[m].count,
            run |-> None, thread |-> None]
  /\ UNCHANGED <<slice, mapping, children, held, pages, faults>>

\* get_child and get_mapping.
get_child(s, v) ==
  LET before == {k \in DOMAIN children[s] : k < v}
  IN IF before # {} /\ v < end(children[s][Max(before)]) THEN children[s][Max(before)] ELSE None

get_mapping(v) ==
  LET from[s \in Slices] ==
        LET child == get_child(s, v) IN IF child \in Subslices THEN from[child] ELSE child
  IN from[Root]

access_allowed(access, prot) == access = "write" => prot = "rw"

\* A thread accesses a page that the page table does not allow it to.
Access(t, v, access) ==
  /\ op # Dropped
  /\ faults[t].state = "runs"
  /\ pages[v] # None => ~access_allowed(access, pages[v].prot)
  /\ faults' = [faults EXCEPT ![t] = [state |-> "faults", page |-> v, access |-> access]]
  /\ UNCHANGED <<slice, mapping, children, held, pages, op>>

\* handle_page_fault lets the thread go on, or panics.
Answer(t, result) ==
  /\ faults' = [faults EXCEPT ![t] = [state |-> result]]
  /\ op' = IF result = "runs" THEN None ELSE Panic

\* fault takes the lock.
Fault(t) ==
  /\ op = None
  /\ faults[t].state = "faults"
  /\ LET v == faults[t].page
         m == get_mapping(v)
     IN IF m # None /\ access_allowed(faults[t].access, mapping[m].prot)
        THEN /\ op' = [call |-> "fault", m |-> m, first |-> v - mapping[m].start,
                       next |-> v - mapping[m].start, end |-> v - mapping[m].start + 1,
                       run |-> None, thread |-> t]
             /\ faults' = [faults EXCEPT ![t] = [state |-> "waits"]]
        ELSE Answer(t, IF m = None THEN "BAD_ADDRESS" ELSE "NO_PERMS")
  /\ UNCHANGED <<slice, mapping, children, held, pages>>

Committing == op # None /\ op.call \in {"commit", "fault"}

\* The operation returns, to the thread whose fault it handles if it is one.
Return(result) ==
  IF op.call = "fault" THEN Answer(op.thread, result) ELSE op' = None /\ UNCHANGED faults

\* pt().map maps the frames of the run up to the first page that is mapped already,
\* or for which there is no memory for a table.
do_map(after) ==
  LET first == mapping[op.m].start + op.run.off
      room == {k \in 0 .. op.run.size : \A v \in first .. first + k - 1 : pages[v] = None}
  IN \E k \in room :
       /\ pages' = [v \in Pages |->
                      IF v \in first .. first + k - 1
                      THEN [frame |-> op.run.pfn + (v - first), prot |-> mapping[op.m].prot]
                      ELSE pages[v]]
       /\ IF k = op.run.size THEN op' = after /\ UNCHANGED faults
          ELSE Return(IF k = Max(room) THEN "RESOURCE_OVERLAP" ELSE "OUT_OF_MEMORY")

\* provide_page for the next page; LazyVmObject takes a frame if it has none.
provide_page(i) ==
  IF mapping[op.m].frames[i] # None THEN {mapping[op.m].frames[i]}
  ELSE {f \in free : f \in {Min(free), Max(free)}}

\* An iteration of the loop of do_commit: the frame joins the run, or the run is
\* mapped and the frame starts the next one.
Provide ==
  LET i == op.next + mapping[op.m].offset
      started(pfn) == [op EXCEPT !.next = @ + 1, !.run = [off |-> op.next, pfn |-> pfn, size |-> 1]]
  IN
  /\ Committing
  /\ op.next < op.end
  /\ IF provide_page(i) = {} THEN Return("OUT_OF_MEMORY") /\ UNCHANGED <<mapping, pages>>
     ELSE \E pfn \in provide_page(i) :
            /\ mapping' = [mapping EXCEPT ![op.m].frames[i] = pfn]
            /\ IF op.run = None THEN op' = started(pfn) /\ UNCHANGED <<pages, faults>>
               ELSE IF op.run.pfn + op.run.size = pfn
               THEN op' = [op EXCEPT !.next = @ + 1, !.run.size = @ + 1] /\ UNCHANGED <<pages, faults>>
               ELSE do_map(started(pfn))
  /\ UNCHANGED <<slice, children, held>>

\* The run left over by the last iteration.
map_left_over_run == do_map([op EXCEPT !.run = None])

MapLast ==
  /\ Committing
  /\ op.next = op.end
  /\ op.run # None
  /\ map_left_over_run
  /\ UNCHANGED <<slice, mapping, children, held>>

CommitFinish ==
  /\ Committing
  /\ op.next = op.end
  /\ op.run = None
  /\ mapping' = [mapping EXCEPT ![op.m].committed = @ \union op.first .. op.end - 1]
  /\ Return("runs")
  /\ UNCHANGED <<slice, children, held, pages>>
-----------------------------------------------------------------------------
Next ==
  \/ \E s \in Slices, base \in MapBases, n \in Sizes : CreateSubslice(s, base, n)
  \/ \E s \in Slices, base \in MapBases, n \in Sizes, offset \in Offsets :
       \E object \in Objects, prot \in Prots :
         Map(s, base, n, offset, object[2], NewFrames(object[1], object[2]), prot)
  \/ \E m \in Mappings : Unmap(m)
  \/ \E s \in Slices : UnmapSlice(s)
  \/ UnmapSliceFinish
  \/ DropAddrSpace
  \/ \E id \in Slices \union Mappings : DropHandle(id)
  \/ \E m \in Mappings, offset \in Offsets : Commit(m, offset)
  \/ \E t \in Threads, v \in Pages, access \in Accesses : Access(t, v, access)
  \/ \E t \in Threads : Fault(t)
  \/ Provide
  \/ MapLast
  \/ CommitFinish
  \/ op \in {Panic, Dropped} /\ UNCHANGED vars

Spec == Init /\ [][Next]_vars
-----------------------------------------------------------------------------
\* "A tree of disjoint slices": the children of a slice lie inside it, at the pages
\* they are filed under, and apart from each other; a slice is attached exactly if
\* the tree has it, and has no children once it is detached.  Nothing that no handle
\* keeps outlives the address space: the cycles of parents and children are broken.
TreeExact ==
  /\ op = Dropped => \A m \in Mappings \ held : mapping[m] = None
  /\ \A s \in {x \in Slices : slice[x] # None} :
       /\ \A k \in DOMAIN children[s] :
            LET c == children[s][k]
            IN /\ node(c) # None
               /\ node(c).start = k
               /\ node(c).parent = s
               /\ Span(c) \subseteq Span(s)
               /\ \A j \in DOMAIN children[s] \ {k} : Span(c) \intersect Span(children[s][j]) = {}
       /\ slice[s].attached <=> (s = Root /\ op # Dropped) \/ s \in linked(children)
       /\ ~slice[s].attached => children[s] = NoChildren

\* Every page mapped is one of a mapping in the tree, with the protection of the
\* mapping and the frame that its object, still alive, has for it; only while
\* unmap_slice is between detaching and do_unmap can pages of its slice be mapped to
\* frames that are freed.
PagesBacked ==
  \A v \in Pages :
    \/ pages[v] = None
    \/ op # None /\ op.call = "unmap_slice" /\ v \in op.start .. op.start + op.count - 1
    \/ \E m \in linked(children) \intersect Mappings :
         /\ v \in Span(m)
         /\ pages[v].prot = mapping[m].prot
         /\ pages[v].frame = mapping[m].frames[v - mapping[m].start + mapping[m].offset]

\* "Subsequent valid accesses to the pages committed by this call are guaranteed not
\* to cause a page fault", until the mapping leaves the tree.
CommitHolds ==
  \A m \in linked(children) \intersect Mappings : \A i \in mapping[m].committed :
    pages[mapping[m].start + i] # None

\* The page table holds nothing that the tree does not say (PagesBacked), and all that
\* commit promised (CommitHolds), however commits and unmaps of aspace.rs fail half way.
PagesExact == PagesBacked /\ CommitHolds

\* "Retrieves the mapping containing vpn, recursing into subslices as necessary".
FaultFindsMapping ==
  \A m \in linked(children) \intersect Mappings : \A v \in Span(m) : get_mapping(v) = m

\* The errors fault is documented to return; OUT_OF_MEMORY is one of provide_page's.
FaultErrors ==
  \A t \in Threads : faults[t].state # "RESOURCE_OVERLAP"

\* "OUT_OF_RESOURCES - No available regions of the requested size were found."
RoomFound ==
  \A s \in {x \in Slices : slice[x] # None}, order \in Orders, n \in Sizes :
    alloc_spot_dynamic(s, order, n).result = "OUT_OF_RESOURCES" => \A g \in gaps(s) : g[2] < n

\* "When this function returns, `mapping' will be detached, and any address space
\* operations on it will return INVALID_STATE", of unmap.
UnmapDetaches ==
  \A m \in (held \intersect Mappings) \ linked(children) : unmap_result(m) = "INVALID_STATE"
=============================================================================

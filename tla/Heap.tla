-------------------------------- MODULE Heap --------------------------------
(***************************************************************************)
(* The kernel heap of mm/heap.rs: a slab allocator with a list of partial  *)
(* slabs for each size class, and whole pages for what is larger.  Pages   *)
(* come from the physical memory manager, here FrameAllocator, which Pmm   *)
(* implements.                                                             *)
(*                                                                         *)
(* An operation on a class runs under the spinlock of the class, and what  *)
(* it shares with other classes is one call to the memory manager: it is   *)
(* one step.  A request that the memory manager cannot serve changes       *)
(* nothing.  resize to another usable size is an Allocate followed by a    *)
(* Deallocate, with the steps of other callers in between.                 *)
(*                                                                         *)
(* A slab is named by its address; its header and bitmap are those of the  *)
(* page it is in, gone once the page is given back.                        *)
(***************************************************************************)
EXTENDS SizeClasses, Functions

CONSTANTS
  OrderCount,   \* orders the memory manager serves
  MaxPfn,       \* frames the memory manager has
  RawOrders     \* orders of the requests too large for a class

ASSUME FramesAssumption == MaxPfn \in Nat
ASSUME RawAssumption == RawOrders \subseteq Nat /\ \A k \in RawOrders : 2 ^ k \in Nat \ {0}

VARIABLES
  avail, held,  \* the memory manager: frames available, blocks held
  slabs,        \* slabs[addr]: class, SlabHeader::allocated and the bits of the bitmap
  partial,      \* partial[c]: partial_slabs, front first
  objs,         \* history: the <<ptr, class>> that callers own
  raws          \* history: the <<pfn, order>> that callers own

vars == <<avail, held, slabs, partial, objs, raws>>

Pages == INSTANCE FrameAllocator

\* The memory manager has been handed all frames.
Init ==
  /\ avail = Pages!Frames
  /\ held = {}
  /\ slabs = <<>>
  /\ partial = [c \in Classes |-> <<>>]
  /\ objs = {}
  /\ raws = {}
-----------------------------------------------------------------------------
\* push_front.
Push(c, slab, list) == [list EXCEPT ![c] = <<slab>> \o @]

\* push_front of a slab on which an object was allocated, unless it is now full.
push_if_free(c, slab, n, list) ==
  IF n < objects_per_slab[c] THEN Push(c, slab, list) ELSE list

\* The bit first_zero finds.
first_zero(s) == Min(0 .. objects_per_slab[s.class] - 1 \ s.bits)

\* SizeClassInner::allocate from a slab s at addr that is off the partial list.
TakeObject(c, addr, s, list) ==
  LET bit == first_zero(s)
      taken == [s EXCEPT !.allocated = @ + 1, !.bits = @ \union {bit}]
  IN
  /\ slabs' = [a \in DOMAIN slabs \union {addr} |-> IF a = addr THEN taken ELSE slabs[a]]
  /\ partial' = push_if_free(c, addr, s.allocated + 1, list)
  /\ objs' = objs \union {<<object_at(addr, c, bit), c>>}
  /\ UNCHANGED raws

\* allocate from the first partial slab.
AllocatePartial(c) ==
  /\ partial[c] # <<>>
  /\ LET addr == Head(partial[c])
     IN TakeObject(c, addr, slabs[addr], [partial EXCEPT ![c] = Tail(@)])
  /\ UNCHANGED <<avail, held>>

\* allocate when no slab is partial: alloc_slab, and its first object.
AllocateSlab(c, pfn) ==
  /\ partial[c] = <<>>
  /\ Pages!allocate(pfn, SlabOrders[c])
  /\ TakeObject(c, pfn * PageSize, [class |-> c, allocated |-> 0, bits |-> {}], partial)

\* The partial list without the slab at addr, which the assertion says is linked
\* when a slab has more than one object.
Position(c, addr) == CHOOSE i \in DOMAIN partial[c] : partial[c][i] = addr
Without(list, i) == SubSeq(list, 1, i - 1) \o SubSeq(list, i + 1, Len(list))
unlink(c, addr) ==
  IF objects_per_slab[c] > 1
  THEN [partial EXCEPT ![c] = Without(@, Position(c, addr))]
  ELSE partial

\* Whether an object given back leaves its slab empty.
now_empty(s) == s.allocated = 1

\* deallocate: the last object gives the slab back, header, bitmap and all.
DeallocateLast(ptr, c) ==
  LET addr == slab_header_from_obj(ptr, c)
  IN
  /\ <<ptr, c>> \in objs
  /\ now_empty(slabs[addr])
  /\ partial' = unlink(c, addr)
  /\ slabs' = Restrict(slabs, DOMAIN slabs \ {addr})
  /\ Pages!deallocate(addr \div PageSize, SlabOrders[c])
  /\ objs' = objs \ {<<ptr, c>>}
  /\ UNCHANGED raws

\* deallocate of another object: a slab that was full becomes partial.
\* Mutant: the slab is not pushed.
was_full_never(c, s) == FALSE
was_full(c, s) == s.allocated = objects_per_slab[c]

DeallocateOne(ptr, c) ==
  LET addr == slab_header_from_obj(ptr, c)
      s == slabs[addr]
  IN
  /\ <<ptr, c>> \in objs
  /\ ~now_empty(s)
  /\ slabs' = [slabs EXCEPT ![addr].allocated = @ - 1,
                            ![addr].bits = @ \ {object_index(addr, c, ptr)}]
  /\ partial' = IF was_full(c, s) THEN Push(c, addr, partial) ELSE partial
  /\ objs' = objs \ {<<ptr, c>>}
  /\ UNCHANGED <<avail, held, raws>>

\* Requests too large for a class: alloc_virt_pages and free_virt_pages.
AllocateRaw(pfn, order) ==
  /\ Pages!allocate(pfn, order)
  /\ raws' = raws \union {<<pfn, order>>}
  /\ UNCHANGED <<slabs, partial, objs>>

DeallocateRaw(pfn, order) ==
  /\ <<pfn, order>> \in raws
  /\ Pages!deallocate(pfn, order)
  /\ raws' = raws \ {<<pfn, order>>}
  /\ UNCHANGED <<slabs, partial, objs>>

Next ==
  \/ \E c \in Classes : AllocatePartial(c)
  \/ \E c \in Classes, pfn \in Pages!Frames : AllocateSlab(c, pfn)
  \/ \E o \in objs : DeallocateLast(o[1], o[2])
  \/ \E o \in objs : DeallocateOne(o[1], o[2])
  \/ \E order \in RawOrders, pfn \in Pages!Frames : AllocateRaw(pfn, order)
  \/ \E r \in raws : DeallocateRaw(r[1], r[2])

Spec == Init /\ [][Next]_vars
-----------------------------------------------------------------------------
TypeOK ==
  /\ avail \subseteq Pages!Frames
  /\ \A addr \in DOMAIN slabs :
       /\ slabs[addr].class \in Classes
       /\ slabs[addr].allocated \in 1 .. objects_per_slab[slabs[addr].class]
       /\ slabs[addr].bits \subseteq 0 .. objects_per_slab[slabs[addr].class] - 1
  /\ \A c \in Classes : partial[c] \in Seq(DOMAIN slabs)

\* The objects of the slab at addr that callers own.
OwnedIn(addr) ==
  {o \in objs : o[2] = slabs[addr].class /\ slab_header_from_obj(o[1], o[2]) = addr}

\* A slab's counter and bitmap agree with what callers own, so no object is
\* handed out twice and none is lost, though the two are updated separately.
BitmapExact ==
  \A addr \in DOMAIN slabs :
    LET s == slabs[addr]
    IN /\ s.bits = {object_index(addr, s.class, o[1]) : o \in OwnedIn(addr)}
       /\ s.allocated = Cardinality(s.bits)

\* A class's list holds exactly its slabs that have both owned and free objects,
\* each once: so the slab that allocate takes has a zero bit ("no objects free in
\* non-full slab"), the slab deallocate unlinks is linked (its assertion) and the
\* one it pushes is not.
PartialExact ==
  \A c \in Classes :
    /\ {partial[c][i] : i \in DOMAIN partial[c]} =
         {addr \in DOMAIN slabs : slabs[addr].class = c /\ slabs[addr].allocated < objects_per_slab[c]}
    /\ \A i, j \in DOMAIN partial[c] : partial[c][i] = partial[c][j] => i = j

\* The heap keeps no pages but those of slabs with an object in use and of raw
\* allocations: when everything is given back, so are all the pages.
NoSlabLeak ==
  /\ held = raws \union {<<addr \div PageSize, SlabOrders[slabs[addr].class]>> : addr \in DOMAIN slabs}
  /\ objs = {} => DOMAIN slabs = {}

\* The slabs' headers are exact, however allocations and frees of all classes
\* follow each other, and no slab outlives its objects.
MetadataExact == TypeOK /\ BitmapExact /\ PartialExact /\ NoSlabLeak

\* The bytes of an object and of a run of pages.
ObjectBytes(o) == o[1] .. o[1] + Sizes[o[2]] - 1
RawBytes(r) == r[1] * PageSize .. (r[1] + 2 ^ r[2]) * PageSize - 1
HeaderBytes(addr) == addr .. addr + HeaderSize + bitmap_bytes(slabs[addr].class) - 1

\* No two allocations share a byte, and none holds a byte of a slab's header or
\* bitmap.
Disjoint ==
  /\ \A o, p \in objs : o # p => ObjectBytes(o) \intersect ObjectBytes(p) = {}
  /\ \A r, q \in raws : r # q => RawBytes(r) \intersect RawBytes(q) = {}
  /\ \A o \in objs, r \in raws : ObjectBytes(o) \intersect RawBytes(r) = {}
  /\ \A addr \in DOMAIN slabs :
       /\ \A o \in objs : HeaderBytes(addr) \intersect ObjectBytes(o) = {}
       /\ \A r \in raws : HeaderBytes(addr) \intersect RawBytes(r) = {}
=============================================================================

-------------------------------- MODULE Pmm --------------------------------
(***************************************************************************)
(* The physical memory manager of mm/pmm.rs: a binary buddy allocator over *)
(* physical frame numbers.                                                 *)
(*                                                                         *)
(* Every public operation takes the PHYS_MANAGER spinlock and keeps it to  *)
(* the end (with / with_noirq), so at most one operation is under way; its *)
(* loops are one step per iteration, held in `op' (and, for a range being  *)
(* added, in `range'), and no other operation starts before it ends.       *)
(*                                                                         *)
(* A free list is kept as the set of the blocks linked on it: pop_free may *)
(* return any of them, the front one of the code's list included.  The     *)
(* counter free_blocks is kept apart from the list, as in the code.        *)
(***************************************************************************)
EXTENDS Integers, FiniteSets

CONSTANTS
  OrderCount,   \* ORDER_COUNT (16 in the code)
  MaxPfn        \* max_pfn given to init: frames 0..MaxPfn-1 can be tracked

ASSUME OrderCountAssumption == OrderCount \in Nat \ {0}
ASSUME MaxPfnAssumption == MaxPfn \in Nat

\* Arithmetic of the powers of two that `1 << order' yields, which the proofs need.
ASSUME PowersAssumption ==
  \A i \in 0 .. OrderCount :
    /\ 2 ^ i \in Nat \ {0}
    /\ \A j \in 0 .. i : 2 ^ i = 2 ^ j * 2 ^ (i - j)

VARIABLES
  free,         \* free[o]: the blocks linked on levels[o].free_list
  free_blocks,  \* free_blocks[o]: levels[o].free_blocks
  split,        \* split[o]: the indices of the set bits of levels[o].splitmap
  total_pages,
  op,           \* the allocate or deallocate loop under way
  range,        \* the add_free_range call under way
  added,        \* history: the frames handed over by add_free_range
  held          \* history: the <<pfn, order>> blocks callers own

vars == <<free, free_blocks, split, total_pages, op, range, added, held>>

Orders == 0 .. OrderCount - 1
LastOrder == OrderCount - 1
Frames == 0 .. MaxPfn - 1

Size(order) == 2 ^ order
Block(pfn, order) == pfn .. pfn + Size(order) - 1
Aligned(pfn, order) == pfn % Size(order) = 0

\* Whether bit `order' of pfn is set.
Bit(pfn, order) == (pfn \div Size(order)) % 2 = 1

\* Mutant: a bit for each block, not for each pair.
splitmap_index_of_block(pfn, order) == pfn \div Size(order)

splitmap_index(pfn, order) == pfn \div Size(order + 1)
buddy_of(pfn, order) == IF Bit(pfn, order) THEN pfn - Size(order) ELSE pfn + Size(order)

\* Mutant: bit `order' is not cleared.
parent_of_uncleared(pfn, order) == pfn

parent_of(pfn, order) == IF Bit(pfn, order) THEN pfn - Size(order) ELSE pfn

\* PhysManager::new reserves div_ceil(max_pfn, 2^(order+1)) bits for a level.
splitmap_bits(order) == (MaxPfn + Size(order + 1) - 1) \div Size(order + 1)

Idle == [kind |-> "idle", pfn |-> 0, order |-> 0, cur |-> 0, found |-> 0]
Freeing(pfn, order) == [kind |-> "free", pfn |-> pfn, order |-> order, cur |-> 0, found |-> 0]
NoRange == [active |-> FALSE, start |-> 0, end |-> 0, size |-> 0]

Unlocked == op = Idle /\ ~range.active
-----------------------------------------------------------------------------
Toggle(bits, i) == IF i \in bits THEN bits \ {i} ELSE bits \union {i}

toggle_parent_split(pfn, order) ==
  split' = [split EXCEPT ![order] = Toggle(@, splitmap_index(pfn, order))]

is_parent_split(pfn, order) == splitmap_index(pfn, order) \in split[order]

push_free(pfn, order) ==
  /\ free' = [free EXCEPT ![order] = @ \union {pfn}]
  /\ free_blocks' = [free_blocks EXCEPT ![order] = @ + 1]

\* Mutant: the counter is forgotten.
remove_free_uncounted(pfn, order) ==
  /\ free' = [free EXCEPT ![order] = @ \ {pfn}]
  /\ UNCHANGED free_blocks

\* remove_free and pop_free both unlink one block of the level.
remove_free(pfn, order) ==
  /\ free' = [free EXCEPT ![order] = @ \ {pfn}]
  /\ free_blocks' = [free_blocks EXCEPT ![order] = @ - 1]
-----------------------------------------------------------------------------
Init ==
  /\ free = [o \in Orders |-> {}]
  /\ free_blocks = [o \in Orders |-> 0]
  /\ split = [o \in Orders |-> {}]
  /\ total_pages = 0
  /\ op = Idle
  /\ range = NoRange
  /\ added = {}
  /\ held = {}

\* allocate: pop a block of the smallest order that has one.  When none has,
\* allocate returns None and changes nothing.
Allocate(order, found, pfn) ==
  /\ Unlocked
  /\ order <= found
  /\ pfn \in free[found]
  /\ \A o \in order .. found - 1 : free[o] = {}
  /\ remove_free(pfn, found)
  /\ toggle_parent_split(pfn, found)
  /\ op' = [kind |-> "alloc", pfn |-> pfn, order |-> order, cur |-> order, found |-> found]
  /\ UNCHANGED <<total_pages, range, added, held>>

\* One iteration of allocate's loop over order..found_order.
SplitBlock ==
  /\ op.kind = "alloc"
  /\ op.cur < op.found
  /\ toggle_parent_split(op.pfn, op.cur)
  /\ push_free(buddy_of(op.pfn, op.cur), op.cur)
  /\ op' = [op EXCEPT !.cur = @ + 1]
  /\ UNCHANGED <<total_pages, range, added, held>>

\* Mutant: the lock is not released.
ReturnBlockLocked ==
  /\ op.kind = "alloc"
  /\ op.cur = op.found
  /\ held' = held \union {<<op.pfn, op.order>>}
  /\ UNCHANGED <<free, free_blocks, split, total_pages, op, range, added>>

ReturnBlock ==
  /\ op.kind = "alloc"
  /\ op.cur = op.found
  /\ held' = held \union {<<op.pfn, op.order>>}
  /\ op' = Idle
  /\ UNCHANGED <<free, free_blocks, split, total_pages, range, added>>

\* deallocate, called by the owner of a block with the order it was given.
Deallocate(pfn, order) ==
  /\ Unlocked
  /\ <<pfn, order>> \in held
  /\ held' = held \ {<<pfn, order>>}
  /\ op' = Freeing(pfn, order)
  /\ UNCHANGED <<free, free_blocks, split, total_pages, range, added>>

\* One iteration of deallocate's loop that merges with the buddy: toggling the
\* parent's bit clears it.
MergeBuddy ==
  /\ op.kind = "free"
  /\ op.order < LastOrder
  /\ is_parent_split(op.pfn, op.order)
  /\ toggle_parent_split(op.pfn, op.order)
  /\ remove_free(buddy_of(op.pfn, op.order), op.order)
  /\ op' = [op EXCEPT !.pfn = parent_of(op.pfn, op.order), !.order = @ + 1]
  /\ UNCHANGED <<total_pages, range, added, held>>

\* Mutant: the block that could not merge leaves its bit alone.
FinishFreeUntoggled ==
  /\ op.kind = "free"
  /\ op.order < LastOrder => ~is_parent_split(op.pfn, op.order)
  /\ push_free(op.pfn, op.order)
  /\ op' = Idle
  /\ UNCHANGED <<split, total_pages, range, added, held>>

\* The loop of deallocate ends: toggling set the parent's bit, or the block has
\* the largest order (whose bit deallocate leaves alone).
FinishFree ==
  /\ op.kind = "free"
  /\ \/ op.order < LastOrder /\ ~is_parent_split(op.pfn, op.order)
        /\ toggle_parent_split(op.pfn, op.order)
     \/ op.order = LastOrder /\ UNCHANGED split
  /\ push_free(op.pfn, op.order)
  /\ op' = Idle
  /\ UNCHANGED <<total_pages, range, added, held>>

\* add_free_range, called with a range that overlaps none added before.
AddFreeRange(start, end) ==
  /\ Unlocked
  /\ start .. end - 1 \intersect added = {}
  /\ range' = [active |-> TRUE, start |-> start, end |-> end, size |-> end - start]
  /\ added' = added \union start .. end - 1
  /\ UNCHANGED <<free, free_blocks, split, total_pages, op, held>>

\* A block at start of an order that both alignment and the rest of the range allow.
BlockFits(order, start, end) == Aligned(start, order) /\ Size(order) <= end - start

\* One iteration of add_free_range's loop: min(alignment_order, remaining_order,
\* ORDER_COUNT - 1) is the largest order that fits.
FreeRangeBlock(order) ==
  /\ op = Idle
  /\ range.active
  /\ range.start < range.end
  /\ BlockFits(order, range.start, range.end)
  /\ \A o \in Orders : BlockFits(o, range.start, range.end) => o <= order
  /\ op' = Freeing(range.start, order)
  /\ range' = [range EXCEPT !.start = @ + Size(order)]
  /\ UNCHANGED <<free, free_blocks, split, total_pages, added, held>>

FinishRange ==
  /\ op = Idle
  /\ range.active
  /\ range.start >= range.end
  /\ total_pages' = total_pages + range.size
  /\ range' = NoRange
  /\ UNCHANGED <<free, free_blocks, split, op, added, held>>

\* What the holder of the lock does next.
Continue ==
  \/ SplitBlock
  \/ ReturnBlock
  \/ MergeBuddy
  \/ FinishFree
  \/ \E order \in Orders : FreeRangeBlock(order)
  \/ FinishRange

Next ==
  \/ \E order, found \in Orders : \E pfn \in Frames : Allocate(order, found, pfn)
  \/ \E pfn \in Frames, order \in Orders : Deallocate(pfn, order)
  \/ \E start, end \in 0 .. MaxPfn : start <= end /\ AddFreeRange(start, end)
  \/ Continue

Spec == Init /\ [][Next]_vars

\* The lock holder runs with interrupts off and never waits: it keeps going.
FairSpec == Spec /\ WF_vars(Continue)
-----------------------------------------------------------------------------
(***************************************************************************)
(* Where the frames are.                                                   *)
(***************************************************************************)
FreeFrames == {f \in Frames : \E o \in Orders : \E p \in free[o] : f \in Block(p, o)}
HeldFrames == {f \in Frames : \E b \in held : f \in Block(b[1], b[2])}
RangeFrames == range.start .. range.end - 1

\* The frames the operation under way has taken off a list or from a caller:
\* allocate has still to give back the upper parts of the block it popped.
OpFrames ==
  {f \in Frames :
    \/ op.kind # "idle" /\ f \in Block(op.pfn, op.order)
    \/ op.kind = "alloc" /\ op.pfn + Size(op.cur) <= f /\ f < op.pfn + Size(op.found)}

BlockType == {b \in Frames \X Orders : Aligned(b[1], b[2]) /\ b[1] + Size(b[2]) <= MaxPfn}

OpType ==
  [kind : {"idle", "alloc", "free"}, pfn : Frames \union {0},
   order : Orders, cur : Orders, found : Orders]

\* Type invariant: the pfns on the lists are aligned to their level and lie below
\* max_pfn, and every splitmap access stays within the bits `new' reserves.
TypeOK ==
  /\ free \in [Orders -> SUBSET Frames]
  /\ \A o \in Orders : \A p \in free[o] : <<p, o>> \in BlockType
  /\ free_blocks \in [Orders -> Int]
  /\ split \in [Orders -> SUBSET Nat]
  /\ \A o \in Orders : \A i \in split[o] : i < splitmap_bits(o)
  /\ total_pages \in Nat
  /\ op \in OpType
  /\ op.kind = "free" => <<op.pfn, op.order>> \in BlockType
  /\ op.kind = "alloc" =>
       /\ <<op.pfn, op.found>> \in BlockType
       /\ op.order <= op.cur
       /\ op.cur <= op.found
  /\ range \in [active : BOOLEAN, start : 0 .. MaxPfn, end : 0 .. MaxPfn, size : 0 .. MaxPfn]
  /\ range.start <= range.end
  /\ added \subseteq Frames
  /\ held \subseteq BlockType

\* No frame is in two places: a frame is in at most one block of the free lists
\* and at most one block allocate has given out, and is not at once free, owned
\* by a caller, in the hands of the operation under way, or still to be added.
NoOverlap ==
  /\ \A o1, o2 \in Orders : \A p1 \in free[o1], p2 \in free[o2] : \A f \in Frames :
       f \in Block(p1, o1) /\ f \in Block(p2, o2) => p1 = p2 /\ o1 = o2
  /\ \A b, c \in held : \A f \in Frames :
       f \in Block(b[1], b[2]) /\ f \in Block(c[1], c[2]) => b = c
  /\ FreeFrames \intersect HeldFrames = {}
  /\ OpFrames \intersect (FreeFrames \union HeldFrames) = {}
  /\ RangeFrames \intersect (FreeFrames \union HeldFrames \union OpFrames) = {}

\* No frame is lost: every frame added is free, owned by a caller, or in the
\* hands of the operation under way, and nothing else is.
NoLeak == added = FreeFrames \union HeldFrames \union OpFrames \union RangeFrames

\* What a splitmap bit means (below the largest order): exactly one of the two
\* blocks of the pair is on the level's free list.  It is the whole ground for
\* deallocate's decision to merge.  Both are never on it: they would have merged.
SplitmapExact ==
  \A o \in Orders : o < LastOrder =>
    \A p \in Frames : Aligned(p, o) =>
      /\ is_parent_split(p, o) <=> (p \in free[o] \/ buddy_of(p, o) \in free[o])
      /\ ~(p \in free[o] /\ buddy_of(p, o) \in free[o])

\* The inductive invariant of allocate, deallocate and add_free_range: types, no
\* frame in two places, none lost and exact splitmaps only hold together.
IInv ==
  /\ TypeOK
  /\ op.kind = "idle" => op = Idle
  /\ ~range.active => range = NoRange
  /\ NoOverlap
  /\ NoLeak
  /\ SplitmapExact

\* deallocate unlinks its buddy without looking (remove_free's cursor_mut_from_ptr):
\* whenever it decides to merge, the buddy is linked on that level's list.
MergedBuddyIsFree ==
  op.kind = "free" /\ op.order < LastOrder /\ is_parent_split(op.pfn, op.order)
    => buddy_of(op.pfn, op.order) \in free[op.order]

\* free_blocks, kept by hand beside each list, is the length of the list.
CountersExact == \A o \in Orders : free_blocks[o] = Cardinality(free[o])

\* allocate(order) gives up only when it must: if some aligned run of 2^order
\* frames is wholly free, some list of that order or above is not empty.
NoSpuriousFailure ==
  Unlocked =>
    \A b \in BlockType :
      Block(b[1], b[2]) \subseteq FreeFrames =>
        \E o \in b[2] .. LastOrder : free[o] # {}

\* Whoever takes the PHYS_MANAGER lock finishes: the merging, splitting and
\* range loops terminate.
LockReleased == []<>Unlocked

\* The allocator of pmm.rs implements the promise FrameAllocator states: the
\* available frames are those added that no caller owns.
FA == INSTANCE FrameAllocator WITH avail <- added \ HeldFrames
ImplementsFrameAllocator == FA!Spec
=============================================================================

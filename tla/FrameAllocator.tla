--------------------------- MODULE FrameAllocator ---------------------------
(***************************************************************************)
(* What mm::pmm promises its callers: each allocation is an aligned run of *)
(* frames that were available and are now the caller's alone, until the    *)
(* caller gives them back.                                                 *)
(***************************************************************************)
EXTENDS Integers

CONSTANTS OrderCount, MaxPfn

VARIABLES
  avail,   \* the frames no caller owns
  held     \* the <<pfn, order>> blocks callers own

vars == <<avail, held>>

Orders == 0 .. OrderCount - 1
Frames == 0 .. MaxPfn - 1
Block(pfn, order) == pfn .. pfn + 2 ^ order - 1
HeldFrames == {f \in Frames : \E b \in held : f \in Block(b[1], b[2])}

Init == avail = {} /\ held = {}

allocate(pfn, order) ==
  /\ pfn % 2 ^ order = 0
  /\ Block(pfn, order) \subseteq avail
  /\ avail' = avail \ Block(pfn, order)
  /\ held' = held \union {<<pfn, order>>}

deallocate(pfn, order) ==
  /\ <<pfn, order>> \in held
  /\ avail' = avail \union Block(pfn, order)
  /\ held' = held \ {<<pfn, order>>}

add_free_range(start, end) ==
  /\ start .. end - 1 \intersect (avail \union HeldFrames) = {}
  /\ avail' = avail \union start .. end - 1
  /\ UNCHANGED held

Next ==
  \/ \E pfn \in Frames, order \in Orders : allocate(pfn, order) \/ deallocate(pfn, order)
  \/ \E start, end \in 0 .. MaxPfn : add_free_range(start, end)

Spec == Init /\ [][Next]_vars
=============================================================================

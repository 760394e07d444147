------------------------------- MODULE MCHeap -------------------------------
(***************************************************************************)
(* Heap for TLC: a page of 9 bytes with a header of 2, and classes whose   *)
(* slabs hold three objects in one page, two in two pages, and one.        *)
(* Beside it, the heap's arithmetic with the kernel's own page size and    *)
(* table of size classes, which is checked in the initial state.           *)
(***************************************************************************)
EXTENDS Heap

CONSTANTS MaxSize, MaxAlignOrder   \* the largest layouts the arithmetic is checked for

MCSizes == <<2, 6, 8>>
MCSlabOrders == <<0, 1, 1>>

\* Mutant: a class of 120 in place of 128.
size_classes_120 ==
  <<2, 8, 16, 32, 48, 64, 80, 96, 120, 160, 192, 224, 256, 320, 384, 448, 512, 640, 768,
    896, 1024, 1280, 1536, 1792, 2048>>
size_classes ==
  <<2, 8, 16, 32, 48, 64, 80, 96, 128, 160, 192, 224, 256, 320, 384, 448, 512, 640, 768,
    896, 1024, 1280, 1536, 1792, 2048>>
slab_orders ==
  <<0, 0, 0, 0, 0, 0, 0, 0, 0, 0, 0, 0, 1, 1, 1, 1, 2, 2, 2, 2, 3, 3, 3, 3, 3>>

Kernel ==
  INSTANCE SizeClasses WITH PageSize <- 4096, HeaderSize <- 24, Sizes <- size_classes,
                            SlabOrders <- slab_orders

Fresh == slabs = <<>> /\ raws = {}
Aligns == {2 ^ k : k \in 0 .. MaxAlignOrder}

\* An allocation is at least as large as its layout and aligned as its layout
\* asks, though the allocator never looks at the alignment again after rounding
\* the size up to it: the comment above ALLOCATOR says why this must hold of the
\* table of classes.  In a slab of any class the objects do not reach into the
\* header and the bitmap or past the end, the bitmap has a bit for each, and
\* deallocate recovers the slab and the bit from the pointer alone.  And resize
\* keeps the pointer only where the memory, later given back under its new layout,
\* goes to the class or the order it came from.
RequestServed ==
  Fresh =>
    /\ \A size \in 1 .. MaxSize, align \in Aligns : Kernel!Serves(size, align)
    /\ \A c \in Kernel!Classes : Kernel!LaidOut(c)
    /\ \A size \in 1 .. MaxSize : Kernel!ResizesInPlace(size)
=============================================================================

---------------------------- MODULE SizeClasses ----------------------------
(***************************************************************************)
(* The arithmetic of the kernel heap, mm/heap.rs: which size class or      *)
(* number of pages serves a request, and where a slab keeps its header,    *)
(* its bitmap and its objects.  Addresses and sizes are in bytes.          *)
(***************************************************************************)
EXTENDS Naturals, Sequences, FiniteSetsExt

CONSTANTS
  PageSize,     \* PAGE_SIZE
  HeaderSize,   \* size_of::<SlabHeader>()
  Sizes,        \* the size of each class, ascending
  SlabOrders    \* the slab order of each class

ASSUME PageAssumption == PageSize \in Nat \ {0} /\ HeaderSize \in 1 .. PageSize
ASSUME ClassesAssumption ==
  /\ Sizes \in Seq(Nat \ {0}) /\ SlabOrders \in Seq(Nat)
  /\ Len(SlabOrders) = Len(Sizes)
  /\ \A i, j \in DOMAIN Sizes : i < j => Sizes[i] < Sizes[j]

Classes == DOMAIN Sizes

align_down(val, align) == (val \div align) * align
align_up(val, align) == align_down(val + align - 1, align)
div_ceil(val, divisor) == (val + divisor - 1) \div divisor
log2(val) == CHOOSE k \in 0 .. val : 2 ^ k <= val /\ val < 2 ^ (k + 1)
log2_ceil(val) == IF val <= 1 THEN 0 ELSE log2(val - 1) + 1

get_effective_size(size, align) == align_up(size, align)

\* The classes that are large enough; the binary search finds the first of them.
LargeEnough(size) == {i \in Classes : Sizes[i] >= size}

IsSlab(size) == LargeEnough(size) # {}
get_size_class(size) == Min(LargeEnough(size))
raw_page_order(size) == log2_ceil(div_ceil(size, PageSize))

usable_size(size) ==
  IF IsSlab(size) THEN Sizes[get_size_class(size)] ELSE PageSize * 2 ^ raw_page_order(size)
-----------------------------------------------------------------------------
slab_size(c) == PageSize * 2 ^ SlabOrders[c]
bytes_required(n) == div_ceil(n, 8)

\* SizeClassMeta::new counts down from what would fit without a bitmap.
\* Mutant: without the loop.
objects_without_bitmap(c) == (slab_size(c) - HeaderSize) \div Sizes[c]
fits(c, n) == HeaderSize + bytes_required(n) + n * Sizes[c] <= slab_size(c)

\* A slab has room for an object; powers of two are what 1 << order yields.
ASSUME SlabsAssumption == \A c \in Classes : 2 ^ SlabOrders[c] \in Nat \ {0} /\ fits(c, 1)

objects_that_fit(c) ==
  CHOOSE n \in 0 .. objects_without_bitmap(c) :
    fits(c, n) /\ (n < objects_without_bitmap(c) => ~fits(c, n + 1))

objects_per_slab == [c \in Classes |-> objects_that_fit(c)]
first_object_offset(c) == slab_size(c) - Sizes[c] * objects_that_fit(c)
bitmap_bytes(c) == bytes_required(objects_that_fit(c))

object_at(slab, c, index) == slab + first_object_offset(c) + index * Sizes[c]
object_index(slab, c, ptr) == (ptr - slab - first_object_offset(c)) \div Sizes[c]

slab_header_from_obj(ptr, c) == align_down(ptr, slab_size(c))
-----------------------------------------------------------------------------
\* A layout gets at least the bytes it asks for, aligned as it asks.
Serves(size, align) ==
  LET eff == get_effective_size(size, align)
      c == get_size_class(eff)
  IN
  /\ usable_size(eff) >= size
  /\ IF IsSlab(eff)
     THEN \A offset \in {slab_size(c), first_object_offset(c), Sizes[c]} : offset % align = 0
     ELSE usable_size(eff) % align = 0

\* The objects of a slab do not reach into its header and its bitmap or past its
\* end, the bitmap has a bit for each, and the slab and the bit are recovered from
\* the pointer alone.
LaidOut(c) ==
  LET n == objects_per_slab[c]
      slab == 3 * slab_size(c)
  IN
  /\ n > 1
  /\ HeaderSize + bitmap_bytes(c) <= first_object_offset(c)
  /\ n <= 8 * bitmap_bytes(c)
  /\ \A index \in {0, 1, n \div 2, n - 1} :
       LET ptr == object_at(slab, c, index)
       IN /\ ptr + Sizes[c] <= slab + slab_size(c)
          /\ slab_header_from_obj(ptr, c) = slab
          /\ object_index(slab, c, ptr) = index

\* The usable size of a request tells which class, or which order, serves it.
ResizesInPlace(size) ==
  /\ \A c \in Classes :
       usable_size(size) = usable_size(Sizes[c]) <=> IsSlab(size) /\ get_size_class(size) = c
  /\ \A order \in 0 .. 3 :
       usable_size(size) = PageSize * 2 ^ order <=> ~IsSlab(size) /\ raw_page_order(size) = order
=============================================================================

----------------------------- MODULE HeapProofs -----------------------------
(***************************************************************************)
(* Proofs about the kernel heap, for any page size, table of size classes  *)
(* and number of frames.                                                   *)
(***************************************************************************)
EXTENDS Heap, FiniteSetTheorems, WellFoundedInduction, TLAPS

Count(c) == objects_per_slab[c]
-----------------------------------------------------------------------------
\* A nonempty set of naturals has a least element.
LEMMA LeastElement ==
  ASSUME NEW S \in SUBSET Nat, S # {}
  PROVE  \E n \in S : \A m \in S : n <= m
  <1> DEFINE R == OpToRel(<, Nat)
  <1>1. IsWellFoundedOn(R, Nat)
    BY NatLessThanWellFounded
  <1>2. \A x, y \in Nat : y < x => <<y, x>> \in R
    BY DEF OpToRel
  <1> HIDE DEF R
  <1>3. PICK n \in S : \A m \in S : <<m, n>> \notin R
    BY <1>1, WFMin, Zenon
  <1>4. ASSUME NEW m \in S PROVE n <= m
    <2>1. ~(m < n)
      BY <1>2, <1>3, Zenon
    <2> QED BY <2>1
  <1> QED BY <1>4

LEMMA MinElement ==
  ASSUME NEW S \in SUBSET Nat, S # {}
  PROVE  Min(S) \in S
  BY LeastElement, Zenon DEF Min

\* (k * d + r) \div d for a remainder r.
LEMMA DivRemainder ==
  ASSUME NEW d \in Nat \ {0}, NEW k \in Nat, NEW r \in 0 .. d - 1
  PROVE  (k * d + r) \div d = k
  OBVIOUS

LEMMA DivMultiple ==
  ASSUME NEW d \in Nat \ {0}, NEW p \in Nat, p % d = 0
  PROVE  p = (p \div d) * d /\ p \div d \in Nat
  OBVIOUS

LEMMA DivPositive ==
  ASSUME NEW d \in Nat \ {0}, NEW x \in Nat, d <= x
  PROVE  x \div d \in Nat \ {0}
  OBVIOUS

LEMMA ProductMonotonic ==
  ASSUME NEW x \in Nat, NEW y \in Nat, NEW d \in Nat, x <= y
  PROVE  x * d <= y * d /\ x * d \in Nat /\ y * d \in Nat
  OBVIOUS
-----------------------------------------------------------------------------
\* Types of what a class consists of.
LEMMA ClassTypes ==
  ASSUME NEW c \in Classes
  PROVE  /\ Sizes[c] \in Nat \ {0}
         /\ SlabOrders[c] \in Nat
         /\ slab_size(c) \in Nat \ {0}
         /\ slab_size(c) = PageSize * 2 ^ SlabOrders[c]
         /\ 2 ^ SlabOrders[c] \in Nat \ {0}
         /\ PageSize \in Nat \ {0}
         /\ HeaderSize \in Nat
  <1>1. Sizes[c] \in Nat \ {0} /\ SlabOrders[c] \in Nat
    BY ClassesAssumption DEF Classes
  <1>2. 2 ^ SlabOrders[c] \in Nat \ {0}
    BY SlabsAssumption
  <1>3. PageSize \in Nat \ {0} /\ HeaderSize \in Nat
    BY PageAssumption
  <1> QED BY <1>1, <1>2, <1>3 DEF slab_size

LEMMA BitmapBytes ==
  ASSUME NEW n \in Nat
  PROVE  bytes_required(n) \in Nat /\ bytes_required(n) <= bytes_required(n + 1)
  BY DEF bytes_required, div_ceil

\* SizeClassMeta::new finds a number of objects for which header, bitmap and objects
\* fit in the slab, and at least one.
LEMMA ObjectsFit ==
  ASSUME NEW c \in Classes
  PROVE  /\ objects_that_fit(c) \in Nat \ {0}
         /\ fits(c, objects_that_fit(c))
  <1> DEFINE N == objects_without_bitmap(c)
             P(n) == fits(c, n) /\ (n < N => ~fits(c, n + 1))
             short == {k \in 0 .. N : fits(c, N - k)}
  <1>1. fits(c, 1) /\ ~(slab_size(c) < HeaderSize + Sizes[c])
    BY SlabsAssumption, ClassTypes, BitmapBytes DEF fits
  <1>2. N \in Nat \ {0}
    BY <1>1, ClassTypes, DivPositive DEF objects_without_bitmap
  <1>3. N - 1 \in short /\ short \in SUBSET Nat
    BY <1>1, <1>2
  <1>4. PICK k \in short : \A m \in short : k <= m
    <2> HIDE DEF short
    <2> QED BY <1>3, LeastElement
  <1>5. P(N - k) /\ N - k \in 0 .. N
    <2>1. k \in 0 .. N /\ fits(c, N - k)
      OBVIOUS
    <2>2. ASSUME N - k < N, fits(c, N - k + 1) PROVE FALSE
      <3>1. k - 1 \in 0 .. N /\ N - (k - 1) = N - k + 1
        BY <1>2, <2>1, <2>2
      <3>2. k - 1 \in short
        BY <3>1, <2>2
      <3> QED BY <1>4, <3>2, <2>1
    <2> QED BY <1>2, <2>1, <2>2
  <1>6. objects_that_fit(c) \in 0 .. N /\ P(objects_that_fit(c))
    BY <1>5 DEF objects_that_fit
  <1>7. objects_that_fit(c) # 0
    BY <1>1, <1>2, <1>6
  <1> QED BY <1>2, <1>6, <1>7

\* A slab: header and bitmap, perhaps a gap, and the objects up to its end.
LEMMA SlabLayout ==
  ASSUME NEW c \in Classes
  PROVE  /\ Count(c) \in Nat \ {0}
         /\ first_object_offset(c) \in Nat
         /\ bitmap_bytes(c) \in Nat
         /\ HeaderSize + bitmap_bytes(c) <= first_object_offset(c)
         /\ first_object_offset(c) + Count(c) * Sizes[c] = slab_size(c)
  <1>1. Count(c) = objects_that_fit(c)
    BY DEF Count, objects_per_slab
  <1>2. /\ Count(c) \in Nat \ {0}
        /\ HeaderSize + bytes_required(Count(c)) + Count(c) * Sizes[c] <= slab_size(c)
    BY <1>1, ObjectsFit DEF fits
  <1>3. bytes_required(Count(c)) \in Nat
    BY <1>2, BitmapBytes
  <1>4. bitmap_bytes(c) = bytes_required(Count(c))
    BY <1>1 DEF bitmap_bytes
  <1>5. first_object_offset(c) = slab_size(c) - Sizes[c] * Count(c)
    BY <1>1 DEF first_object_offset
  <1>6. Sizes[c] * Count(c) = Count(c) * Sizes[c] /\ Count(c) * Sizes[c] \in Nat
    BY <1>2, ClassTypes
  <1> HIDE DEF Count
  <1> QED BY <1>2, <1>3, <1>4, <1>5, <1>6, ClassTypes

\* The bits of a slab's bitmap that stand for objects.
LEMMA SlotsFinite ==
  ASSUME NEW c \in Classes
  PROVE  /\ IsFiniteSet(0 .. Count(c) - 1)
         /\ Cardinality(0 .. Count(c) - 1) = Count(c)
         /\ 0 .. Count(c) - 1 \subseteq Nat
  <1>1. Count(c) \in Nat \ {0}
    BY SlabLayout
  <1> DEFINE n == Count(c) - 1
  <1>2. n \in Int /\ 0 \in Int /\ 0 <= n /\ n - 0 + 1 = Count(c)
    BY <1>1
  <1> HIDE DEF n
  <1>3. IsFiniteSet(0 .. n) /\ Cardinality(0 .. n) = IF 0 > n THEN 0 ELSE n - 0 + 1
    BY <1>2, FS_Interval
  <1>4. Cardinality(0 .. n) = Count(c)
    BY <1>2, <1>3
  <1> QED BY <1>1, <1>3, <1>4 DEF n

\* Where an object is, and that deallocate finds its slab and its bit from the pointer.
LEMMA ObjectGeometry ==
  ASSUME NEW c \in Classes, NEW k \in Nat, NEW bit \in 0 .. Count(c) - 1,
         NEW slab, slab = k * slab_size(c)
  PROVE  LET ptr == object_at(slab, c, bit)
         IN /\ ptr \in Nat
            /\ slab \in Nat
            /\ slab + HeaderSize + bitmap_bytes(c) <= ptr
            /\ ptr + Sizes[c] <= slab + slab_size(c)
            /\ slab_header_from_obj(ptr, c) = slab
            /\ object_index(slab, c, ptr) = bit
  <1> DEFINE f == first_object_offset(c)
             z == Sizes[c]
             n == Count(c)
             S == slab_size(c)
             ptr == object_at(slab, c, bit)
  <1>1. /\ f \in Nat /\ z \in Nat \ {0} /\ n \in Nat \ {0} /\ S \in Nat \ {0}
        /\ f + n * z = S /\ bitmap_bytes(c) \in Nat /\ HeaderSize \in Nat
        /\ HeaderSize + bitmap_bytes(c) <= f
    BY SlabLayout, ClassTypes
  <1>2. ptr = slab + f + bit * z
    BY DEF object_at
  <1>3. slab_header_from_obj(ptr, c) = (ptr \div S) * S
    BY DEF slab_header_from_obj, align_down
  <1>4. object_index(slab, c, ptr) = (ptr - slab - f) \div z
    BY DEF object_index
  <1> HIDE DEF f, z, n, S, ptr
  <1>5. slab \in Nat
    BY <1>1 DEF S
  <1>6. /\ bit * z \in Nat /\ (bit + 1) * z <= n * z /\ (bit + 1) * z = bit * z + z
        /\ n * z \in Nat
    <2>1. bit \in Nat /\ bit + 1 \in Nat /\ bit + 1 <= n
      BY <1>1 DEF n
    <2>2. (bit + 1) * z <= n * z /\ n * z \in Nat
      BY <1>1, <2>1, ProductMonotonic
    <2> QED BY <1>1, <2>1, <2>2
  <1>7. /\ ptr \in Nat /\ slab + HeaderSize + bitmap_bytes(c) <= ptr
        /\ ptr + z <= slab + S
    BY <1>1, <1>2, <1>5, <1>6
  <1>8. ptr \div S = k
    <2>1. f + bit * z \in 0 .. S - 1
      BY <1>1, <1>6
    <2>2. ptr = k * S + (f + bit * z)
      BY <1>1, <1>2, <1>5, <1>6 DEF S
    <2> QED BY <1>1, <2>1, <2>2, DivRemainder, Zenon
  <1>9. (ptr - slab - f) \div z = bit
    <2>1. ptr - slab - f = bit * z + 0
      BY <1>1, <1>2, <1>5, <1>6
    <2>2. bit \in Nat /\ 0 \in 0 .. z - 1
      BY <1>1 DEF n
    <2> QED BY <1>1, <2>1, <2>2, DivRemainder
  <1> QED BY <1>3, <1>4, <1>5, <1>7, <1>8, <1>9 DEF ptr, S, z
-----------------------------------------------------------------------------
\* The inductive invariant.  MetadataExact speaks of what callers own through the
\* pointer arithmetic of deallocate; here the objects owned are counted off from the
\* bitmaps (Exact), and why neither two slabs nor a slab and a large allocation meet is
\* said of the blocks held (Blocks).
BlockOf(b) == Pages!Block(b[1], b[2])
Pair(a) == <<a \div PageSize, SlabOrders[slabs[a].class]>>
Elements(list) == {list[i] : i \in DOMAIN list}
Distinct(list) == \A i, j \in DOMAIN list : list[i] = list[j] => i = j
SlabType == [class : Classes, allocated : Nat, bits : SUBSET Nat]

Typed ==
  /\ avail \subseteq Pages!Frames
  /\ objs \subseteq Nat \X Classes
  /\ raws \subseteq Nat \X RawOrders
  /\ slabs \in [DOMAIN slabs -> SlabType]
  /\ partial \in [Classes -> Seq(Nat)]

Blocks ==
  /\ \A b \in held : /\ b[1] \in Nat /\ 2 ^ b[2] \in Nat \ {0} /\ b[1] % 2 ^ b[2] = 0
                    /\ b = <<b[1], b[2]>>
                    /\ BlockOf(b) \subseteq Pages!Frames \ avail
  /\ \A b, d \in held : b # d => BlockOf(b) \intersect BlockOf(d) = {}

Placed ==
  /\ \A a \in DOMAIN slabs : a \in Nat /\ a = (a \div PageSize) * PageSize
  /\ held = raws \union {Pair(a) : a \in DOMAIN slabs}
  /\ \A a \in DOMAIN slabs : Pair(a) \notin raws

Counted ==
  \A a \in DOMAIN slabs :
    /\ slabs[a].bits \in SUBSET (0 .. Count(slabs[a].class) - 1)
    /\ slabs[a].bits # {}
    /\ slabs[a].allocated = Cardinality(slabs[a].bits)

Exact ==
  \A ptr \in Nat, c \in Classes :
    <<ptr, c>> \in objs <=>
      \E a \in DOMAIN slabs : \E bit \in slabs[a].bits :
        slabs[a].class = c /\ ptr = object_at(a, c, bit)

Listed ==
  \A c \in Classes :
    /\ Elements(partial[c]) =
         {a \in DOMAIN slabs : slabs[a].class = c /\ slabs[a].allocated < Count(c)}
    /\ Distinct(partial[c])

HeapInv == Typed /\ Blocks /\ Placed /\ Counted /\ Exact /\ Listed
-----------------------------------------------------------------------------
\* What the operations of the intrusive list do to it.
LEMMA PushFront ==
  ASSUME NEW l \in Seq(Nat), NEW x \in Nat, x \notin Elements(l), Distinct(l)
  PROVE  /\ <<x>> \o l \in Seq(Nat)
         /\ Elements(<<x>> \o l) = Elements(l) \union {x}
         /\ Distinct(<<x>> \o l)
  <1> DEFINE m == <<x>> \o l
  <1>1. m \in Seq(Nat) /\ Len(m) = Len(l) + 1 /\ m[1] = x
        /\ DOMAIN l = 1 .. Len(l) /\ DOMAIN m = 1 .. Len(l) + 1 /\ Len(l) \in Nat
    OBVIOUS
  <1>2. \A i \in 1 .. Len(l) : m[i + 1] = l[i]
    OBVIOUS
  <1>3. \A i \in DOMAIN m : i = 1 \/ (\E k \in DOMAIN l : i = k + 1 /\ m[i] = l[k])
    <2> SUFFICES ASSUME NEW i \in DOMAIN m, i # 1
                 PROVE  \E k \in DOMAIN l : i = k + 1 /\ m[i] = l[k]
      OBVIOUS
    <2>1. i - 1 \in DOMAIN l /\ i = (i - 1) + 1 /\ m[i] = l[i - 1]
      OBVIOUS
    <2> QED BY <2>1
  <1> HIDE DEF m
  <1>4. Elements(m) = Elements(l) \union {x}
    <2>1. ASSUME NEW y \in Elements(m) PROVE y \in Elements(l) \union {x}
      BY <1>1, <1>3, SMTT(30) DEF Elements
    <2>2. ASSUME NEW y \in Elements(l) PROVE y \in Elements(m)
      <3>1. PICK i \in 1 .. Len(l) : y = l[i]
        BY <1>1 DEF Elements
      <3>2. i + 1 \in DOMAIN m /\ m[i + 1] = y
        BY <1>1, <1>2, <3>1
      <3> QED BY <3>2 DEF Elements
    <2>3. x \in Elements(m)
      BY <1>1 DEF Elements
    <2> QED BY <2>1, <2>2, <2>3, Zenon
  <1>5. ASSUME NEW i \in DOMAIN m, NEW j \in DOMAIN m, m[i] = m[j] PROVE i = j
    <2>1. CASE i = 1 /\ j # 1
      BY <1>1, <1>3, <1>5, <2>1 DEF Elements
    <2>2. CASE i # 1 /\ j = 1
      BY <1>1, <1>3, <1>5, <2>2 DEF Elements
    <2>3. CASE i # 1 /\ j # 1
      BY <1>3, <1>5, <2>3 DEF Distinct
    <2> QED BY <2>1, <2>2, <2>3
  <1> QED BY <1>1, <1>4, <1>5 DEF m, Distinct

LEMMA PopFront ==
  ASSUME NEW l \in Seq(Nat), l # <<>>, Distinct(l)
  PROVE  /\ Tail(l) \in Seq(Nat)
         /\ Head(l) \in Elements(l)
         /\ Elements(Tail(l)) = Elements(l) \ {Head(l)}
         /\ Distinct(Tail(l))
  <1> DEFINE m == Tail(l)
  <1>1. m \in Seq(Nat) /\ DOMAIN l = 1 .. Len(l) /\ 1 \in DOMAIN l /\ Head(l) = l[1]
    OBVIOUS
  <1>2. \A i \in DOMAIN m : i + 1 \in DOMAIN l /\ m[i] = l[i + 1] /\ i + 1 # 1 /\ i \in Nat
    OBVIOUS
  <1>3. \A i \in DOMAIN l : i = 1 \/ (\E k \in DOMAIN m : i = k + 1 /\ l[i] = m[k])
    <2> SUFFICES ASSUME NEW i \in DOMAIN l, i # 1
                 PROVE  \E k \in DOMAIN m : i = k + 1 /\ l[i] = m[k]
      OBVIOUS
    <2>1. i - 1 \in DOMAIN m /\ i = (i - 1) + 1 /\ l[i] = m[i - 1]
      OBVIOUS
    <2> QED BY <2>1
  <1> HIDE DEF m
  <1>4. Elements(m) = Elements(l) \ {l[1]}
    <2>1. ASSUME NEW y \in Elements(m) PROVE y \in Elements(l) \ {l[1]}
      <3>1. PICK i \in DOMAIN m : y = m[i]
        BY DEF Elements
      <3>2. i + 1 \in DOMAIN l /\ y = l[i + 1] /\ i + 1 # 1
        BY <1>2, <3>1
      <3> QED BY <1>1, <3>2, Zenon DEF Elements, Distinct
    <2>2. ASSUME NEW y \in Elements(l), y # l[1] PROVE y \in Elements(m)
      <3>1. PICK i \in DOMAIN l : y = l[i]
        BY DEF Elements
      <3>2. PICK k \in DOMAIN m : y = m[k]
        BY <1>3, <2>2, <3>1
      <3> QED BY <3>2 DEF Elements
    <2> QED BY <2>1, <2>2
  <1>5. Distinct(m)
    <2> SUFFICES ASSUME NEW i \in DOMAIN m, NEW j \in DOMAIN m, m[i] = m[j] PROVE i = j
      BY DEF Distinct
    <2>1. i + 1 = j + 1
      BY <1>2 DEF Distinct
    <2> QED BY <1>2, <2>1
  <1>6. l[1] \in Elements(l)
    BY <1>1 DEF Elements
  <1> QED BY <1>1, <1>4, <1>5, <1>6 DEF m

LEMMA Unlink ==
  ASSUME NEW l \in Seq(Nat), NEW p \in DOMAIN l, Distinct(l)
  PROVE  /\ Without(l, p) \in Seq(Nat)
         /\ Elements(Without(l, p)) = Elements(l) \ {l[p]}
         /\ Distinct(Without(l, p))
  <1> DEFINE m == Without(l, p)
             Moved(i) == IF i < p THEN i ELSE i + 1
  <1>1. DOMAIN l = 1 .. Len(l) /\ Len(l) \in Nat /\ p \in 1 .. Len(l)
    OBVIOUS
  <1> DEFINE before == SubSeq(l, 1, p - 1)
             after == SubSeq(l, p + 1, Len(l))
  <1>a. /\ before \in Seq(Nat) /\ Len(before) = p - 1
        /\ \A i \in 1 .. p - 1 : before[i] = l[i]
    BY <1>1, SMTT(30)
  <1>b. /\ after \in Seq(Nat) /\ Len(after) = Len(l) - p
        /\ \A i \in 1 .. Len(l) - p : after[i] = l[p + i]
    <2>1. /\ after \in Seq(Nat)
          /\ Len(after) = IF p + 1 <= Len(l) THEN Len(l) - (p + 1) + 1 ELSE 0
          /\ \A i \in 1 .. Len(l) - (p + 1) + 1 : after[i] = l[(p + 1) + i - 1]
      <3> DEFINE u == p + 1
                 v == Len(l)
      <3>1. u \in Int /\ v \in Int /\ \A i \in u .. v : l[i] \in Nat
        BY <1>1
      <3> HIDE DEF u, v
      <3>2. /\ SubSeq(l, u, v) \in Seq(Nat)
            /\ Len(SubSeq(l, u, v)) = IF u <= v THEN v - u + 1 ELSE 0
            /\ \A i \in 1 .. v - u + 1 : SubSeq(l, u, v)[i] = l[u + i - 1]
        BY <3>1
      <3> QED BY <3>2, Zenon DEF u, v
    <2>2. Len(l) - (p + 1) + 1 = Len(l) - p /\ \A i \in 1 .. Len(l) - p : (p + 1) + i - 1 = p + i
      BY <1>1
    <2>3. Len(after) = Len(l) - p
      BY <1>1, <2>1, SMTT(30)
    <2> QED BY <2>1, <2>2, <2>3, Zenon
  <1>c. m = before \o after
    BY DEF Without
  <1> HIDE DEF before, after, m
  <1>d. /\ m \in Seq(Nat) /\ Len(m) = Len(before) + Len(after)
        /\ \A i \in 1 .. Len(before) + Len(after) :
             m[i] = IF i <= Len(before) THEN before[i] ELSE after[i - Len(before)]
    <2>1. ASSUME NEW s \in Seq(Nat), NEW t \in Seq(Nat)
          PROVE  /\ s \o t \in Seq(Nat) /\ Len(s \o t) = Len(s) + Len(t)
                 /\ \A i \in 1 .. Len(s) + Len(t) : (s \o t)[i] = IF i <= Len(s) THEN s[i] ELSE t[i - Len(s)]
      OBVIOUS
    <2> QED BY <1>a, <1>b, <1>c, <2>1, Zenon
  <1>2. m \in Seq(Nat) /\ Len(m) = Len(l) - 1
    BY <1>1, <1>a, <1>b, <1>d, SMTT(30)
  <1>3. DOMAIN m = 1 .. Len(l) - 1
    BY <1>1, <1>2
  <1>4. ASSUME NEW i \in 1 .. Len(l) - 1 PROVE m[i] = l[Moved(i)]
    <2>1. Len(before) + Len(after) = Len(l) - 1
      BY <1>1, <1>a, <1>b
    <2>2. m[i] = IF i <= Len(before) THEN before[i] ELSE after[i - Len(before)]
      BY <1>d, <2>1, Zenon
    <2>3. CASE i < p
      <3>1. i <= Len(before) /\ i \in 1 .. p - 1
        BY <1>1, <1>a, <2>3
      <3> QED BY <1>a, <2>2, <2>3, <3>1
    <2>4. CASE ~(i < p)
      <3>1. /\ ~(i <= Len(before)) /\ i - Len(before) \in 1 .. Len(l) - p
            /\ p + (i - Len(before)) = i + 1
        <4>1. /\ ~(i <= p - 1) /\ i - (p - 1) \in 1 .. Len(l) - p
              /\ p + (i - (p - 1)) = i + 1
          BY <1>1, <2>4, SMTT(30)
        <4> QED BY <1>a, <4>1
      <3> QED BY <1>b, <2>2, <2>4, <3>1, Zenon
    <2> QED BY <2>3, <2>4
  <1>5. \A i \in DOMAIN m : /\ Moved(i) \in DOMAIN l /\ Moved(i) # p /\ m[i] = l[Moved(i)]
    BY <1>1, <1>3, <1>4, SMTT(30)
  <1>6. \A i \in DOMAIN l : i # p => \E k \in DOMAIN m : i = Moved(k)
    <2> SUFFICES ASSUME NEW i \in DOMAIN l, i # p PROVE \E k \in DOMAIN m : i = Moved(k)
      OBVIOUS
    <2>1. CASE i < p
      BY <1>1, <1>3, <2>1
    <2>2. CASE i > p
      <3>1. i - 1 \in DOMAIN m /\ i = Moved(i - 1)
        BY <1>1, <1>3, <2>2
      <3> QED BY <3>1
    <2> QED BY <1>1, <2>1, <2>2
  <1>7. \A i, j \in DOMAIN m : Moved(i) = Moved(j) => i = j
    BY <1>1, <1>3, SMTT(30)
  <1> HIDE DEF Moved
  <1>8. Elements(m) = Elements(l) \ {l[p]}
    <2>1. ASSUME NEW y \in Elements(m) PROVE y \in Elements(l) \ {l[p]}
      BY <1>5 DEF Elements, Distinct
    <2>2. ASSUME NEW y \in Elements(l), y # l[p] PROVE y \in Elements(m)
      BY <1>5, <1>6, <2>2 DEF Elements
    <2> QED BY <2>1, <2>2
  <1>9. Distinct(m)
    BY <1>5, <1>7 DEF Distinct
  <1> QED BY <1>2, <1>8, <1>9 DEF m
-----------------------------------------------------------------------------
\* A block of pages that is aligned begins at a multiple of the size of the slab.
LEMMA SlabAligned ==
  ASSUME NEW c \in Classes, NEW pfn \in Nat, pfn % 2 ^ SlabOrders[c] = 0
  PROVE  \E k \in Nat : pfn * PageSize = k * slab_size(c)
  <1> DEFINE w == 2 ^ SlabOrders[c]
  <1>1. w \in Nat \ {0} /\ PageSize \in Nat \ {0} /\ slab_size(c) = PageSize * w
    BY ClassTypes
  <1> HIDE DEF w
  <1>2. PICK k \in Nat : pfn = k * w
    BY <1>1, DivMultiple, Zenon DEF w
  <1>3. (k * w) * PageSize = k * (PageSize * w)
    BY <1>1
  <1> QED BY <1>1, <1>2, <1>3

LEMMA PageMultiple ==
  ASSUME NEW pfn \in Nat
  PROVE  pfn * PageSize \in Nat /\ (pfn * PageSize) \div PageSize = pfn
  <1>1. PageSize \in Nat \ {0} /\ 0 \in 0 .. PageSize - 1
    BY PageAssumption
  <1>2. pfn * PageSize \in Nat /\ pfn * PageSize = pfn * PageSize + 0
    BY <1>1
  <1> QED BY <1>1, <1>2, DivRemainder

\* Every slab is on a block that the heap holds.
LEMMA SlabFacts ==
  ASSUME HeapInv, NEW a \in DOMAIN slabs
  PROVE  LET c == slabs[a].class
         IN /\ c \in Classes
            /\ slabs[a] \in SlabType
            /\ a \div PageSize \in Nat
            /\ a = (a \div PageSize) * PageSize
            /\ Pair(a) \in held
            /\ \E k \in Nat : a = k * slab_size(c)
  <1> DEFINE c == slabs[a].class
             pfn == a \div PageSize
  <1>1. slabs[a] \in SlabType /\ c \in Classes
    BY DEF HeapInv, Typed, SlabType
  <1>2. a \in Nat /\ a = pfn * PageSize /\ Pair(a) \in held
    BY DEF HeapInv, Placed
  <1>3. pfn \in Nat
    BY <1>2, PageAssumption
  <1>4. pfn % 2 ^ SlabOrders[c] = 0
    <2>1. Pair(a)[1] = pfn /\ Pair(a)[2] = SlabOrders[c]
      BY DEF Pair
    <2> QED BY <1>2, <2>1 DEF HeapInv, Blocks
  <1> HIDE DEF pfn, c
  <1>5. \E k \in Nat : a = k * slab_size(c)
    BY <1>1, <1>2, <1>3, <1>4, SlabAligned
  <1> QED BY <1>1, <1>2, <1>3, <1>5 DEF pfn, c

\* An object that is owned has its bit set in the slab that deallocate finds.
LEMMA OwnedObject ==
  ASSUME HeapInv, NEW ptr, NEW c, <<ptr, c>> \in objs
  PROVE  LET addr == slab_header_from_obj(ptr, c)
             bit == object_index(addr, c, ptr)
         IN /\ ptr \in Nat /\ c \in Classes
            /\ addr \in DOMAIN slabs
            /\ slabs[addr].class = c
            /\ bit \in slabs[addr].bits
            /\ ptr = object_at(addr, c, bit)
  <1>1. ptr \in Nat /\ c \in Classes
    BY DEF HeapInv, Typed
  <1>2. PICK a \in DOMAIN slabs : \E bit \in slabs[a].bits :
          slabs[a].class = c /\ ptr = object_at(a, c, bit)
    BY <1>1 DEF HeapInv, Exact
  <1>3. PICK bit \in slabs[a].bits : slabs[a].class = c /\ ptr = object_at(a, c, bit)
    BY <1>2
  <1>4. bit \in 0 .. Count(c) - 1
    BY <1>3 DEF HeapInv, Counted
  <1>5. PICK k \in Nat : a = k * slab_size(c)
    BY <1>3, SlabFacts
  <1>6. slab_header_from_obj(ptr, c) = a /\ object_index(a, c, ptr) = bit
    BY <1>1, <1>3, <1>4, <1>5, ObjectGeometry
  <1> QED BY <1>1, <1>3, <1>6

\* Different bits of different slabs are different objects.
LEMMA ObjectsDiffer ==
  ASSUME HeapInv, NEW a \in DOMAIN slabs, NEW bit \in slabs[a].bits
  PROVE  LET c == slabs[a].class
             ptr == object_at(a, c, bit)
         IN /\ ptr \in Nat
            /\ <<ptr, c>> \in objs
            /\ slab_header_from_obj(ptr, c) = a
            /\ object_index(a, c, ptr) = bit
  <1> DEFINE c == slabs[a].class
  <1>1. c \in Classes /\ \E k \in Nat : a = k * slab_size(c)
    BY SlabFacts
  <1>2. bit \in 0 .. Count(c) - 1
    BY DEF HeapInv, Counted
  <1> HIDE DEF c
  <1>3. /\ object_at(a, c, bit) \in Nat
        /\ slab_header_from_obj(object_at(a, c, bit), c) = a
        /\ object_index(a, c, object_at(a, c, bit)) = bit
    BY <1>1, <1>2, ObjectGeometry
  <1>4. <<object_at(a, c, bit), c>> \in objs
    BY <1>1, <1>3 DEF HeapInv, Exact, c
  <1> QED BY <1>3, <1>4 DEF c
-----------------------------------------------------------------------------
\* What the memory manager's two calls do to the blocks held.
LEMMA AllocateBlocks ==
  ASSUME Typed, Blocks, NEW pfn \in Nat, NEW order, 2 ^ order \in Nat \ {0},
         Pages!allocate(pfn, order)
  PROVE  /\ Blocks'
         /\ avail' \subseteq Pages!Frames
         /\ pfn \in Pages!Frames
         /\ <<pfn, order>> \notin held
         /\ \A b \in held : pfn \notin BlockOf(b)
         /\ held' = held \union {<<pfn, order>>}
  <1> DEFINE new == <<pfn, order>>
             B == Pages!Block(pfn, order)
  <1>1. /\ pfn % 2 ^ order = 0 /\ B \subseteq avail
        /\ avail' = avail \ B /\ held' = held \union {new}
    BY DEF Pages!allocate
  <1>2. avail \subseteq Pages!Frames
    BY DEF Typed
  <1>3. pfn \in B
    BY DEF Pages!Block
  <1>4. BlockOf(new) = B /\ new[1] = pfn /\ new[2] = order
    BY DEF BlockOf
  <1>5. \A b \in held : BlockOf(b) \intersect B = {}
    BY <1>1 DEF Blocks
  <1>6. new \notin held /\ \A b \in held : pfn \notin BlockOf(b)
    BY <1>3, <1>4, <1>5
  <1> HIDE DEF new, B
  <1>7. ASSUME NEW b \in held'
        PROVE  /\ b[1] \in Nat /\ 2 ^ b[2] \in Nat \ {0} /\ b[1] % 2 ^ b[2] = 0
               /\ b = <<b[1], b[2]>>
               /\ BlockOf(b) \subseteq Pages!Frames \ avail'
    <2>1. CASE b \in held
      BY <1>1, <2>1 DEF Blocks
    <2>2. CASE b = new
      BY <1>1, <1>2, <1>4, <2>2 DEF new
    <2> QED BY <1>1, <2>1, <2>2
  <1>8. ASSUME NEW b \in held', NEW d \in held', b # d
        PROVE  BlockOf(b) \intersect BlockOf(d) = {}
    <2>1. CASE b \in held /\ d \in held
      BY <1>8, <2>1 DEF Blocks
    <2>2. CASE b = new \/ d = new
      BY <1>1, <1>4, <1>5, <1>8, <2>2
    <2> QED BY <1>1, <2>1, <2>2
  <1>9. Blocks'
    BY <1>7, <1>8 DEF Blocks, BlockOf, Pages!Block, Pages!Frames
  <1> QED BY <1>1, <1>2, <1>3, <1>6, <1>9 DEF new

LEMMA DeallocateBlocks ==
  ASSUME Typed, Blocks, NEW pfn, NEW order, Pages!deallocate(pfn, order)
  PROVE  /\ Blocks'
         /\ avail' \subseteq Pages!Frames
         /\ held' = held \ {<<pfn, order>>}
  <1> DEFINE old == <<pfn, order>>
             B == Pages!Block(pfn, order)
  <1>1. old \in held /\ avail' = avail \union B /\ held' = held \ {old}
    BY DEF Pages!deallocate
  <1>2. BlockOf(old) = B
    BY DEF BlockOf
  <1> HIDE DEF old, B
  <1>3. B \subseteq Pages!Frames
    BY <1>1, <1>2 DEF Blocks
  <1>4. avail' \subseteq Pages!Frames
    BY <1>1, <1>3 DEF Typed
  <1>5. ASSUME NEW b \in held'
        PROVE  /\ b[1] \in Nat /\ 2 ^ b[2] \in Nat \ {0} /\ b[1] % 2 ^ b[2] = 0
               /\ b = <<b[1], b[2]>>
               /\ BlockOf(b) \subseteq Pages!Frames \ avail'
    <2>1. b \in held /\ b # old
      BY <1>1
    <2>2. BlockOf(b) \intersect B = {}
      BY <1>1, <1>2, <2>1 DEF Blocks
    <2> QED BY <1>1, <2>1, <2>2 DEF Blocks
  <1>6. \A b, d \in held' : b # d => BlockOf(b) \intersect BlockOf(d) = {}
    BY <1>1 DEF Blocks
  <1>7. Blocks'
    BY <1>5, <1>6 DEF Blocks, BlockOf, Pages!Block, Pages!Frames
  <1> QED BY <1>1, <1>4, <1>7 DEF old
-----------------------------------------------------------------------------
\* The slabs of class d with a free object, apart from the one at addr.
OthersWithRoom(d, addr) ==
  {a \in DOMAIN slabs \ {addr} : slabs[a].class = d /\ slabs[a].allocated < Count(d)}

\* Taking an object from a slab that has one free and is off its list.
LEMMA TakeObjectStep ==
  ASSUME HeapInv, NEW c \in Classes, NEW addr \in Nat, NEW s \in SlabType,
         NEW list \in [Classes -> Seq(Nat)],
         TakeObject(c, addr, s, list),
         s.class = c, s.bits \in SUBSET (0 .. Count(c) - 1),
         s.allocated = Cardinality(s.bits), s.allocated < Count(c),
         addr \in DOMAIN slabs => slabs[addr] = s,
         addr \notin DOMAIN slabs => s.bits = {},
         \E k \in Nat : addr = k * slab_size(c),
         \A d \in Classes :
           Elements(list[d]) = OthersWithRoom(d, addr) /\ Distinct(list[d])
  PROVE  /\ DOMAIN slabs' = DOMAIN slabs \union {addr}
         /\ slabs' \in [DOMAIN slabs' -> SlabType]
         /\ slabs'[addr].class = c
         /\ \A a \in DOMAIN slabs : slabs'[a].class = slabs[a].class
         /\ objs' \subseteq Nat \X Classes
         /\ partial' \in [Classes -> Seq(Nat)]
         /\ raws' = raws
         /\ Counted' /\ Exact' /\ Listed'
  <1> DEFINE bit == first_zero(s)
             taken == [s EXCEPT !.allocated = @ + 1, !.bits = @ \union {bit}]
             ptr == object_at(addr, c, bit)
  <1>1. /\ slabs' = [a \in DOMAIN slabs \union {addr} |-> IF a = addr THEN taken ELSE slabs[a]]
        /\ partial' = push_if_free(c, addr, s.allocated + 1, list)
        /\ objs' = objs \union {<<ptr, c>>}
        /\ raws' = raws
    BY DEF TakeObject
  <1>2. bit \in 0 .. Count(c) - 1 /\ bit \notin s.bits
    <2>1. Count(c) \in Nat \ {0} /\ Count(c) = objects_per_slab[s.class]
      BY SlabLayout DEF Count
    <2> DEFINE I == 0 .. Count(c) - 1
    <2>2. Cardinality(I) = Count(c) /\ I \subseteq Nat
      BY SlotsFinite
    <2>3. first_zero(s) = Min(I \ s.bits)
      BY <2>1 DEF first_zero
    <2> HIDE DEF I
    <2>4. s.bits # I
      BY <2>1, <2>2
    <2>5. I \ s.bits # {} /\ I \ s.bits \in SUBSET Nat
      BY <2>2, <2>4, Zenon DEF I
    <2> QED BY <2>3, <2>5, MinElement, Zenon DEF I
  <1> HIDE DEF bit
  <1>3. /\ taken \in SlabType /\ taken.class = c /\ taken.allocated = s.allocated + 1
        /\ taken.bits = s.bits \union {bit}
    <2>1. bit \in Nat
      BY <1>2
    <2>2. s.allocated + 1 \in Nat /\ s.bits \union {bit} \in SUBSET Nat
      BY <2>1 DEF SlabType
    <2> DEFINE n == s.allocated + 1
               bits == s.bits \union {bit}
    <2>3. n \in Nat /\ bits \in SUBSET Nat
      BY <2>2
    <2>4. taken = [s EXCEPT !.allocated = n, !.bits = bits]
      OBVIOUS
    <2> HIDE DEF n, bits, taken
    <2>5. taken \in SlabType /\ taken.class = s.class /\ taken.allocated = n /\ taken.bits = bits
      BY <2>3, <2>4, Zenon DEF SlabType
    <2> QED BY <2>5 DEF n, bits
  <1> HIDE DEF taken, ptr
  <1>4. /\ DOMAIN slabs' = DOMAIN slabs \union {addr}
        /\ slabs'[addr] = taken
        /\ \A a \in DOMAIN slabs \ {addr} : slabs'[a] = slabs[a]
    BY <1>1
  <1>5. slabs' \in [DOMAIN slabs' -> SlabType]
    BY <1>1, <1>3, <1>4 DEF HeapInv, Typed
  <1>6. \A a \in DOMAIN slabs : slabs'[a].class = slabs[a].class
    BY <1>3, <1>4, SMTT(30)
  <1>7. ptr \in Nat
    BY <1>2, ObjectGeometry, Zenon DEF ptr
  <1>8. objs' \subseteq Nat \X Classes
    BY <1>1, <1>7 DEF HeapInv, Typed
  <1>9. Counted'
    <2> SUFFICES ASSUME NEW a \in DOMAIN slabs'
                 PROVE  /\ slabs'[a].bits \in SUBSET (0 .. Count(slabs'[a].class) - 1)
                        /\ slabs'[a].bits # {}
                        /\ slabs'[a].allocated = Cardinality(slabs'[a].bits)
      BY DEF Counted, Count
    <2>1. CASE a = addr
      <3>1. IsFiniteSet(0 .. Count(c) - 1)
        BY SlotsFinite, Zenon
      <3>2. IsFiniteSet(s.bits)
        BY <3>1, FS_Subset, Zenon
      <3>3. Cardinality(s.bits \union {bit}) = Cardinality(s.bits) + 1
        BY <1>2, <3>2, FS_AddElement, Zenon
      <3> QED BY <1>2, <1>3, <1>4, <2>1, <3>3, Zenon
    <2>2. CASE a # addr
      BY <1>4, <2>2, Zenon DEF HeapInv, Counted
    <2> QED BY <2>1, <2>2, Zenon
  <1>10. Exact'
    <2> SUFFICES ASSUME NEW p \in Nat, NEW d \in Classes
                 PROVE  <<p, d>> \in objs' <=>
                          \E a \in DOMAIN slabs' : \E b \in slabs'[a].bits :
                            slabs'[a].class = d /\ p = object_at(a, d, b)
      BY Zenon DEF Exact, object_at, first_object_offset, slab_size, objects_that_fit
    <2>1. ASSUME <<p, d>> \in objs'
          PROVE  \E a \in DOMAIN slabs' : \E b \in slabs'[a].bits :
                   slabs'[a].class = d /\ p = object_at(a, d, b)
      <3>1. CASE <<p, d>> = <<ptr, c>>
        <4>1. bit \in slabs'[addr].bits /\ slabs'[addr].class = d /\ p = object_at(addr, d, bit)
          BY <1>3, <1>4, <3>1, Zenon DEF ptr
        <4> QED BY <1>4, <4>1, Zenon
      <3>2. CASE <<p, d>> \in objs
        <4>0. Exact
          BY Zenon DEF HeapInv
        <4>1. PICK a \in DOMAIN slabs : \E b \in slabs[a].bits :
                slabs[a].class = d /\ p = object_at(a, d, b)
          BY <3>2, <4>0, Zenon DEF Exact
        <4>2. a \in DOMAIN slabs' /\ slabs[a].bits \subseteq slabs'[a].bits
          BY <1>3, <1>4, Zenon
        <4> QED BY <1>6, <4>1, <4>2, Zenon
      <3> QED BY <1>1, <2>1, <3>1, <3>2, Zenon
    <2>2. ASSUME NEW a \in DOMAIN slabs', NEW b \in slabs'[a].bits,
                 slabs'[a].class = d, p = object_at(a, d, b)
          PROVE  <<p, d>> \in objs'
      <3>1. CASE a = addr /\ b = bit
        BY <1>1, <1>3, <1>4, <2>2, <3>1, Zenon DEF ptr
      <3>2. CASE a # addr
        <4>1. a \in DOMAIN slabs /\ b \in slabs[a].bits /\ slabs[a].class = d
          BY <1>4, <2>2, <3>2, Zenon
        <4>2. <<p, d>> \in objs
          BY <2>2, <4>1, Zenon DEF HeapInv, Exact
        <4> QED BY <1>1, <4>2, Zenon
      <3>3. CASE a = addr /\ b # bit
        <4>1. b \in s.bits
          BY <1>3, <1>4, <2>2, <3>3, Zenon
        <4>2. a \in DOMAIN slabs /\ b \in slabs[a].bits /\ slabs[a].class = d
          BY <1>3, <1>4, <2>2, <3>3, <4>1, Zenon
        <4>3. <<p, d>> \in objs
          BY <2>2, <4>2 DEF HeapInv, Exact
        <4> QED BY <1>1, <4>3
      <3> QED BY <3>1, <3>2, <3>3, Zenon
    <2> QED BY <2>1, <2>2, Zenon
  <1>11. partial' \in [Classes -> Seq(Nat)] /\ Listed'
    <2> DEFINE room(d) == {a \in DOMAIN slabs' : slabs'[a].class = d /\ slabs'[a].allocated < Count(d)}
    <2>1. ASSUME NEW d \in Classes
          PROVE  /\ room(d) = IF d = c /\ s.allocated + 1 < Count(c)
                              THEN Elements(list[d]) \union {addr} ELSE Elements(list[d])
                 /\ addr \notin Elements(list[d])
      BY <1>3, <1>4 DEF OthersWithRoom
    <2> HIDE DEF room
    <2>2. CASE s.allocated + 1 < Count(c)
      <3>1. partial' = [list EXCEPT ![c] = <<addr>> \o @]
        BY <1>1, <2>2, Zenon DEF push_if_free, Push, Count
      <3>2. /\ <<addr>> \o list[c] \in Seq(Nat)
            /\ Elements(<<addr>> \o list[c]) = Elements(list[c]) \union {addr}
            /\ Distinct(<<addr>> \o list[c])
        BY <2>1, PushFront, Zenon
      <3>3. partial' \in [Classes -> Seq(Nat)]
        BY <3>1, <3>2, Zenon
      <3>4. ASSUME NEW d \in Classes
            PROVE  Elements(partial'[d]) = room(d) /\ Distinct(partial'[d])
        <4>1. CASE d = c
          BY <2>1, <2>2, <3>1, <3>2, <4>1, Zenon
        <4>2. CASE d # c
          BY <2>1, <3>1, <4>2, Zenon
        <4> QED BY <4>1, <4>2, Zenon
      <3> QED BY <3>3, <3>4, Zenon DEF Listed, room, Elements, Distinct, Count
    <2>3. CASE ~(s.allocated + 1 < Count(c))
      <3>1. partial' = list
        BY <1>1, <2>3, Zenon DEF push_if_free, Count
      <3>2. \A d \in Classes : Elements(partial'[d]) = room(d) /\ Distinct(partial'[d])
        BY <2>1, <2>3, <3>1, Zenon
      <3> QED BY <3>1, <3>2, Zenon DEF Listed, room, Elements, Distinct, Count
    <2> QED BY <2>2, <2>3, Zenon
  <1> QED BY <1>1, <1>3, <1>4, <1>5, <1>6, <1>8, <1>9, <1>10, <1>11, Zenon

LEMMA AllocatePartialStep ==
  ASSUME HeapInv, NEW c \in Classes, AllocatePartial(c)
  PROVE  HeapInv'
  <1> DEFINE l == partial[c]
             addr == Head(l)
             s == slabs[addr]
             list == [partial EXCEPT ![c] = Tail(@)]
  <1>1. /\ l # <<>> /\ TakeObject(c, addr, s, list) /\ avail' = avail /\ held' = held
    BY DEF AllocatePartial
  <1>2. partial \in [Classes -> Seq(Nat)] /\ l \in Seq(Nat) /\ Distinct(l)
    BY DEF HeapInv, Typed, Listed
  <1>3. /\ Tail(l) \in Seq(Nat) /\ addr \in Elements(l)
        /\ Elements(Tail(l)) = Elements(l) \ {addr} /\ Distinct(Tail(l))
    <2> HIDE DEF l
    <2> QED BY <1>1, <1>2, PopFront
  <1>4. list \in [Classes -> Seq(Nat)] /\ list[c] = Tail(l)
        /\ \A d \in Classes \ {c} : list[d] = partial[d]
    BY <1>2, <1>3
  <1> HIDE DEF addr, list
  <1>5. addr \in DOMAIN slabs /\ s.class = c /\ s.allocated < Count(c)
    BY <1>3 DEF HeapInv, Listed
  <1>6. /\ s \in SlabType /\ s.bits \in SUBSET (0 .. Count(c) - 1)
        /\ s.allocated = Cardinality(s.bits) /\ addr \in Nat
        /\ \E k \in Nat : addr = k * slab_size(c)
    BY <1>5, SlabFacts, Zenon DEF HeapInv, Counted, Placed
  <1>7. ASSUME NEW d \in Classes
        PROVE  Elements(list[d]) = OthersWithRoom(d, addr) /\ Distinct(list[d])
    <2>1. /\ Elements(partial[d]) =
                    {a \in DOMAIN slabs : slabs[a].class = d /\ slabs[a].allocated < Count(d)}
          /\ Distinct(partial[d])
      BY DEF HeapInv, Listed
    <2>2. CASE d = c
      BY <1>3, <1>4, <2>1, <2>2, Zenon DEF OthersWithRoom
    <2>3. CASE d # c
      <3>1. list[d] = partial[d]
        BY <1>4, <2>3
      <3> QED BY <1>5, <2>1, <2>3, <3>1, Zenon DEF OthersWithRoom
    <2> QED BY <2>2, <2>3
  <1> HIDE DEF s, l
  <1>8. /\ DOMAIN slabs' = DOMAIN slabs \union {addr}
        /\ slabs' \in [DOMAIN slabs' -> SlabType]
        /\ slabs'[addr].class = c
        /\ \A a \in DOMAIN slabs : slabs'[a].class = slabs[a].class
        /\ objs' \subseteq Nat \X Classes
        /\ partial' \in [Classes -> Seq(Nat)]
        /\ raws' = raws
        /\ Counted' /\ Exact' /\ Listed'
    <2>1. /\ addr \in DOMAIN slabs => slabs[addr] = s
          /\ addr \notin DOMAIN slabs => s.bits = {}
      BY <1>5 DEF s
    <2>2. /\ TakeObject(c, addr, s, list) /\ list \in [Classes -> Seq(Nat)]
          /\ s.class = c /\ s.allocated < Count(c)
      BY <1>1, <1>4, <1>5, Zenon
    <2> QED BY <1>6, <1>7, <2>1, <2>2, TakeObjectStep, Zenon
  <1>9. DOMAIN slabs' = DOMAIN slabs
    BY <1>5, <1>8, Zenon
  <1>10. Typed'
    BY <1>1, <1>8, Zenon DEF HeapInv, Typed, Pages!Frames, SlabType
  <1>11. Blocks'
    BY <1>1 DEF HeapInv, Blocks, BlockOf, Pages!Block, Pages!Frames
  <1>12. Placed'
    <2>1. \A a \in DOMAIN slabs : Pair(a)' = Pair(a)
      BY <1>8 DEF Pair
    <2> QED BY <1>1, <1>8, <1>9, <2>1, Zenon DEF HeapInv, Placed
  <1> QED BY <1>8, <1>10, <1>11, <1>12 DEF HeapInv

LEMMA AllocateSlabStep ==
  ASSUME HeapInv, NEW c \in Classes, NEW pfn \in Pages!Frames, AllocateSlab(c, pfn)
  PROVE  HeapInv'
  <1> DEFINE addr == pfn * PageSize
             s == [class |-> c, allocated |-> 0, bits |-> {}]
             o == SlabOrders[c]
  <1>1. Pages!allocate(pfn, o) /\ TakeObject(c, addr, s, partial)
    BY DEF AllocateSlab
  <1>2. /\ pfn \in Nat /\ 2 ^ o \in Nat \ {0} /\ PageSize \in Nat \ {0}
    BY ClassTypes, FramesAssumption DEF Pages!Frames
  <1>3. /\ Blocks' /\ avail' \subseteq Pages!Frames /\ <<pfn, o>> \notin held
        /\ (\A b \in held : pfn \notin BlockOf(b)) /\ held' = held \union {<<pfn, o>>}
    BY <1>1, <1>2, AllocateBlocks DEF HeapInv
  <1>4. pfn % 2 ^ o = 0
    BY <1>1 DEF Pages!allocate
  <1>5. addr \in Nat /\ addr \div PageSize = pfn
    BY <1>2, PageMultiple
  <1>6. \E k \in Nat : addr = k * slab_size(c)
    BY <1>2, <1>4, SlabAligned
  <1>7. s \in SlabType /\ s.class = c /\ s.bits = {} /\ s.allocated = 0
    BY DEF SlabType
  <1> HIDE DEF addr, s, o
  <1>8. addr \notin DOMAIN slabs
    <2> SUFFICES ASSUME addr \in DOMAIN slabs PROVE FALSE
      OBVIOUS
    <2>1. Pair(addr) \in held /\ Pair(addr)[1] = pfn
      BY <1>5, SlabFacts DEF Pair
    <2>2. 2 ^ Pair(addr)[2] \in Nat \ {0}
      BY <2>1 DEF HeapInv, Blocks
    <2>3. pfn \in BlockOf(Pair(addr))
      BY <1>2, <2>1, <2>2 DEF BlockOf, Pages!Block
    <2> QED BY <1>3, <2>1, <2>3
  <1>9. /\ DOMAIN slabs' = DOMAIN slabs \union {addr}
        /\ slabs' \in [DOMAIN slabs' -> SlabType]
        /\ slabs'[addr].class = c
        /\ \A a \in DOMAIN slabs : slabs'[a].class = slabs[a].class
        /\ objs' \subseteq Nat \X Classes
        /\ partial' \in [Classes -> Seq(Nat)]
        /\ raws' = raws
        /\ Counted' /\ Exact' /\ Listed'
    <2>1. s.allocated = Cardinality(s.bits) /\ s.bits \in SUBSET (0 .. Count(c) - 1)
      BY <1>7, FS_EmptySet, Zenon
    <2>2. s.allocated < Count(c)
      BY <1>7, SlabLayout
    <2>3. DOMAIN slabs \ {addr} = DOMAIN slabs
      BY <1>8
    <2>4. /\ partial \in [Classes -> Seq(Nat)]
          /\ \A d \in Classes :
               Elements(partial[d]) = OthersWithRoom(d, addr) /\ Distinct(partial[d])
      BY <2>3 DEF HeapInv, Typed, Listed, OthersWithRoom
    <2> QED BY <1>1, <1>5, <1>6, <1>7, <1>8, <2>1, <2>2, <2>4, TakeObjectStep, Zenon
  <1>10. Typed'
    BY <1>3, <1>9, Zenon DEF HeapInv, Typed, Pages!Frames, SlabType
  <1>11. Placed'
    <2>1. \A a \in DOMAIN slabs : Pair(a)' = Pair(a)
      BY <1>9 DEF Pair
    <2>2. Pair(addr)' = <<pfn, o>>
      BY <1>5, <1>9 DEF Pair, o
    <2>3. \A a \in DOMAIN slabs' : a \in Nat /\ a = (a \div PageSize) * PageSize
      BY <1>5, <1>9 DEF HeapInv, Placed, addr
    <2>4. held' = raws' \union {Pair(a)' : a \in DOMAIN slabs'}
      BY <1>3, <1>9, <2>1, <2>2 DEF HeapInv, Placed
    <2>5. \A a \in DOMAIN slabs' : Pair(a)' \notin raws'
      BY <1>3, <1>9, <2>1, <2>2, Zenon DEF HeapInv, Placed
    <2> QED BY <2>3, <2>4, <2>5 DEF Placed
  <1> QED BY <1>3, <1>9, <1>10, <1>11, Zenon DEF HeapInv
-----------------------------------------------------------------------------
\* The slab that deallocate finds, and its counter.
LEMMA FreedSlab ==
  ASSUME HeapInv, NEW ptr, NEW c, <<ptr, c>> \in objs
  PROVE  LET addr == slab_header_from_obj(ptr, c)
             s == slabs[addr]
             bit == object_index(addr, c, ptr)
         IN /\ addr \in DOMAIN slabs /\ addr \in Nat /\ c \in Classes /\ ptr \in Nat
            /\ s \in SlabType /\ s.class = c /\ bit \in s.bits
            /\ ptr = object_at(addr, c, bit)
            /\ s.allocated \in 1 .. Count(c) /\ Count(c) \in Nat
            /\ s.allocated - 1 = Cardinality(s.bits \ {bit})
            /\ s.allocated = 1 <=> s.bits \ {bit} = {}
  <1> DEFINE addr == slab_header_from_obj(ptr, c)
             s == slabs[addr]
             bit == object_index(addr, c, ptr)
  <1>1. /\ addr \in DOMAIN slabs /\ c \in Classes /\ ptr \in Nat
        /\ s.class = c /\ bit \in s.bits /\ ptr = object_at(addr, c, bit)
    BY OwnedObject
  <1>2. addr \in Nat /\ s \in SlabType /\ s.bits \in SUBSET (0 .. Count(c) - 1)
        /\ s.allocated = Cardinality(s.bits)
    BY <1>1, SlabFacts, Zenon DEF HeapInv, Placed, Counted
  <1> HIDE DEF addr, s, bit
  <1>3. IsFiniteSet(0 .. Count(c) - 1) /\ Cardinality(0 .. Count(c) - 1) = Count(c)
    BY <1>1, SlotsFinite, Zenon
  <1>4. IsFiniteSet(s.bits) /\ Cardinality(s.bits) <= Count(c)
    <2> DEFINE I == 0 .. Count(c) - 1
    <2>1. IsFiniteSet(I) /\ Cardinality(I) = Count(c) /\ s.bits \in SUBSET I
      BY <1>2, <1>3
    <2> HIDE DEF I
    <2>2. IsFiniteSet(s.bits) /\ Cardinality(s.bits) <= Cardinality(I)
      BY <2>1, FS_Subset
    <2> QED BY <2>1, <2>2, Zenon
  <1>5. /\ IsFiniteSet(s.bits \ {bit})
        /\ Cardinality(s.bits \ {bit}) = Cardinality(s.bits) - 1
    BY <1>1, <1>4, FS_RemoveElement, Zenon
  <1>6. Cardinality(s.bits) \in Nat /\ Cardinality(s.bits \ {bit}) \in Nat
    BY <1>4, <1>5, FS_CardinalityType
  <1>7. Cardinality(s.bits \ {bit}) = 0 <=> s.bits \ {bit} = {}
    BY <1>5, FS_EmptySet, Zenon
  <1>8. Count(c) \in Nat
    BY <1>1, SlabLayout
  <1>9. s.allocated \in 1 .. Count(c) /\ s.allocated - 1 = Cardinality(s.bits \ {bit})
    BY <1>2, <1>4, <1>5, <1>6, <1>8
  <1>10. s.allocated = 1 <=> s.bits \ {bit} = {}
    BY <1>6, <1>7, <1>9
  <1> QED BY <1>1, <1>2, <1>8, <1>9, <1>10, Zenon DEF addr, s, bit

\* Clearing the bit of an object takes that object, and no other, from those owned.
LEMMA FreedExact ==
  ASSUME HeapInv, NEW ptr, NEW c, <<ptr, c>> \in objs,
         NEW addr, addr = slab_header_from_obj(ptr, c),
         NEW bit, bit = object_index(addr, c, ptr),
         objs' = objs \ {<<ptr, c>>},
         DOMAIN slabs' \subseteq DOMAIN slabs,
         addr \in DOMAIN slabs' => slabs'[addr].bits = slabs[addr].bits \ {bit},
         addr \notin DOMAIN slabs' => slabs[addr].bits \ {bit} = {},
         \A a \in DOMAIN slabs \ {addr} : a \in DOMAIN slabs' /\ slabs'[a] = slabs[a],
         \A a \in DOMAIN slabs' : slabs'[a].class = slabs[a].class
  PROVE  Exact'
  <1>1. /\ addr \in DOMAIN slabs /\ slabs[addr].class = c /\ bit \in slabs[addr].bits
        /\ ptr = object_at(addr, c, bit)
    BY FreedSlab, Zenon
  <1> SUFFICES ASSUME NEW p \in Nat, NEW d \in Classes
               PROVE  <<p, d>> \in objs' <=>
                        \E a \in DOMAIN slabs' : \E b \in slabs'[a].bits :
                          slabs'[a].class = d /\ p = object_at(a, d, b)
    BY DEF Exact, object_at, first_object_offset, slab_size, objects_that_fit
  <1>2. ASSUME <<p, d>> \in objs'
        PROVE  \E a \in DOMAIN slabs' : \E b \in slabs'[a].bits :
                 slabs'[a].class = d /\ p = object_at(a, d, b)
    <2>1. <<p, d>> \in objs /\ <<p, d>> # <<ptr, c>>
      BY <1>2
    <2>2. PICK a \in DOMAIN slabs : \E b \in slabs[a].bits :
            slabs[a].class = d /\ p = object_at(a, d, b)
      BY <2>1 DEF HeapInv, Exact
    <2>3. PICK b \in slabs[a].bits : slabs[a].class = d /\ p = object_at(a, d, b)
      BY <2>2
    <2>4. CASE a = addr
      <3>1. b # bit
        BY <1>1, <2>1, <2>3, <2>4, Zenon
      <3>2. b \in slabs[addr].bits \ {bit}
        BY <2>3, <2>4, <3>1, Zenon
      <3>3. addr \in DOMAIN slabs' /\ b \in slabs'[addr].bits
        BY <3>2
      <3> QED BY <2>3, <2>4, <3>3, Zenon
    <2>5. CASE a # addr
      BY <2>3, <2>5, Zenon
    <2> QED BY <2>4, <2>5, Zenon
  <1>3. ASSUME NEW a \in DOMAIN slabs', NEW b \in slabs'[a].bits,
               slabs'[a].class = d, p = object_at(a, d, b)
        PROVE  <<p, d>> \in objs'
    <2>1. a \in DOMAIN slabs /\ b \in slabs[a].bits /\ slabs[a].class = d
      BY <1>3, Zenon
    <2>2. /\ <<p, d>> \in objs /\ slab_header_from_obj(p, d) = a /\ object_index(a, d, p) = b
      BY <1>3, <2>1, ObjectsDiffer
    <2>3. <<p, d>> # <<ptr, c>>
      <3> SUFFICES ASSUME p = ptr, d = c PROVE FALSE
        BY Zenon
      <3>1. a = addr /\ b = bit
        BY <2>2, Zenon
      <3> QED BY <1>3, <3>1, Zenon
    <2> QED BY <2>2, <2>3, Zenon
  <1> QED BY <1>2, <1>3, Zenon

LEMMA DeallocateOneStep ==
  ASSUME HeapInv, NEW ptr, NEW c, DeallocateOne(ptr, c)
  PROVE  HeapInv'
  <1> DEFINE addr == slab_header_from_obj(ptr, c)
             s == slabs[addr]
             bit == object_index(addr, c, ptr)
  <1>1. /\ <<ptr, c>> \in objs /\ s.allocated # 1
        /\ slabs' = [slabs EXCEPT ![addr].allocated = @ - 1, ![addr].bits = @ \ {bit}]
        /\ partial' = IF s.allocated = Count(c) THEN Push(c, addr, partial) ELSE partial
        /\ objs' = objs \ {<<ptr, c>>}
        /\ avail' = avail /\ held' = held /\ raws' = raws
    BY DEF DeallocateOne, now_empty, was_full, Count
  <1>2. /\ addr \in DOMAIN slabs /\ addr \in Nat /\ c \in Classes
        /\ s \in SlabType /\ s.class = c /\ bit \in s.bits
        /\ s.allocated \in 1 .. Count(c) /\ Count(c) \in Nat
        /\ s.allocated - 1 = Cardinality(s.bits \ {bit})
        /\ s.allocated = 1 <=> s.bits \ {bit} = {}
    BY <1>1, FreedSlab, Zenon
  <1>3. slabs \in [DOMAIN slabs -> SlabType] /\ partial \in [Classes -> Seq(Nat)]
    BY DEF HeapInv, Typed
  <1> HIDE DEF addr, bit
  <1>4. DOMAIN slabs' = DOMAIN slabs /\ \A a \in DOMAIN slabs \ {addr} : slabs'[a] = slabs[a]
    BY <1>1, <1>3
  <1>5. /\ slabs'[addr].class = c /\ slabs'[addr].allocated = s.allocated - 1
        /\ slabs'[addr].bits = s.bits \ {bit} /\ slabs'[addr] \in SlabType
    <2>1. s.allocated - 1 \in Nat /\ s.bits \ {bit} \in SUBSET Nat
      BY <1>2 DEF SlabType
    <2> QED BY <1>1, <1>2, <1>3, <2>1, Zenon DEF SlabType
  <1> HIDE DEF s
  <1>6. \A a \in DOMAIN slabs' : slabs'[a].class = slabs[a].class
    BY <1>2, <1>4, <1>5, Zenon DEF s
  <1>7. Exact'
    <2>1. /\ addr = slab_header_from_obj(ptr, c) /\ bit = object_index(addr, c, ptr)
          /\ slabs'[addr].bits = slabs[addr].bits \ {bit}
          /\ DOMAIN slabs' \subseteq DOMAIN slabs /\ addr \in DOMAIN slabs'
      BY <1>2, <1>4, <1>5, Zenon DEF addr, bit, s
    <2>2. \A a \in DOMAIN slabs \ {addr} : a \in DOMAIN slabs' /\ slabs'[a] = slabs[a]
      BY <1>4, Zenon
    <2> QED BY <1>1, <1>6, <2>1, <2>2, FreedExact, SMTT(30)
  <1>8. Counted'
    <2> SUFFICES ASSUME NEW a \in DOMAIN slabs'
                 PROVE  /\ slabs'[a].bits \in SUBSET (0 .. Count(slabs'[a].class) - 1)
                        /\ slabs'[a].bits # {}
                        /\ slabs'[a].allocated = Cardinality(slabs'[a].bits)
      BY DEF Counted, Count
    <2>1. CASE a = addr
      <3>1. s.bits \in SUBSET (0 .. Count(c) - 1)
        BY <1>2, Zenon DEF HeapInv, Counted, s
      <3> QED BY <1>1, <1>2, <1>5, <2>1, <3>1, Zenon
    <2>2. CASE a # addr
      BY <1>4, <2>2 DEF HeapInv, Counted
    <2> QED BY <2>1, <2>2, Zenon
  <1>9. partial' \in [Classes -> Seq(Nat)] /\ Listed'
    <2> DEFINE room(d) == {a \in DOMAIN slabs' : slabs'[a].class = d /\ slabs'[a].allocated < Count(d)}
    <2>1. ASSUME NEW d \in Classes
          PROVE  /\ room(d) = IF d = c THEN Elements(partial[d]) \union {addr}
                              ELSE Elements(partial[d])
                 /\ addr \in Elements(partial[d]) <=> d = c /\ s.allocated < Count(c)
                 /\ Distinct(partial[d])
      BY <1>2, <1>4, <1>5, <1>6 DEF HeapInv, Listed, s
    <2> HIDE DEF room
    <2>2. CASE s.allocated = Count(c)
      <3>1. partial' = [partial EXCEPT ![c] = <<addr>> \o @]
        BY <1>1, <2>2 DEF Push
      <3>2. /\ <<addr>> \o partial[c] \in Seq(Nat)
            /\ Elements(<<addr>> \o partial[c]) = Elements(partial[c]) \union {addr}
            /\ Distinct(<<addr>> \o partial[c])
        BY <1>2, <1>3, <2>1, <2>2, PushFront
      <3>3. partial' \in [Classes -> Seq(Nat)]
        BY <1>3, <3>1, <3>2, Zenon
      <3>4. ASSUME NEW d \in Classes
            PROVE  Elements(partial'[d]) = room(d) /\ Distinct(partial'[d])
        <4>1. CASE d = c
          BY <1>3, <2>1, <3>1, <3>2, <4>1, Zenon
        <4>2. CASE d # c
          BY <1>3, <2>1, <3>1, <4>2, Zenon
        <4> QED BY <4>1, <4>2
      <3> QED BY <3>3, <3>4, Zenon DEF Listed, room, Elements, Distinct, Count
    <2>3. CASE s.allocated # Count(c)
      <3>1. partial' = partial
        BY <1>1, <2>3
      <3>2. \A d \in Classes : Elements(partial'[d]) = room(d) /\ Distinct(partial'[d])
        BY <1>2, <2>1, <2>3, <3>1
      <3> QED BY <1>3, <3>1, <3>2 DEF Listed, room, Elements, Distinct, Count
    <2> QED BY <2>2, <2>3, SMTT(30)
  <1>10. Typed'
    BY <1>1, <1>3, <1>4, <1>5, <1>9, Zenon DEF HeapInv, Typed, Pages!Frames, SlabType
  <1>11. Blocks'
    BY <1>1 DEF HeapInv, Blocks, BlockOf, Pages!Block, Pages!Frames
  <1>12. Placed'
    <2>1. \A a \in DOMAIN slabs : Pair(a)' = Pair(a)
      BY <1>4, <1>6 DEF Pair
    <2> QED BY <1>1, <1>4, <2>1 DEF HeapInv, Placed
  <1> QED BY <1>7, <1>8, <1>9, <1>10, <1>11, <1>12, Zenon DEF HeapInv

\* Two slabs are on two blocks.
LEMMA PairsDiffer ==
  ASSUME HeapInv, NEW a \in DOMAIN slabs, NEW b \in DOMAIN slabs, a # b
  PROVE  Pair(a) # Pair(b)
  <1>1. a = (a \div PageSize) * PageSize /\ b = (b \div PageSize) * PageSize
    BY SlabFacts
  <1>2. Pair(a)[1] = a \div PageSize /\ Pair(b)[1] = b \div PageSize
    BY DEF Pair
  <1> QED BY <1>1, <1>2

LEMMA DeallocateLastStep ==
  ASSUME HeapInv, NEW ptr, NEW c, DeallocateLast(ptr, c)
  PROVE  HeapInv'
  <1> DEFINE addr == slab_header_from_obj(ptr, c)
             s == slabs[addr]
             bit == object_index(addr, c, ptr)
  <1>1. /\ <<ptr, c>> \in objs /\ s.allocated = 1
        /\ slabs' = [a \in DOMAIN slabs \ {addr} |-> slabs[a]]
        /\ partial' = unlink(c, addr)
        /\ Pages!deallocate(addr \div PageSize, SlabOrders[c])
        /\ objs' = objs \ {<<ptr, c>>} /\ raws' = raws
    BY Zenon DEF DeallocateLast, now_empty, Restrict
  <1>2. /\ addr \in DOMAIN slabs /\ addr \in Nat /\ c \in Classes
        /\ s.class = c /\ Count(c) \in Nat /\ s.allocated \in 1 .. Count(c)
        /\ s.bits \ {bit} = {}
    BY <1>1, FreedSlab, Zenon
  <1>3. slabs \in [DOMAIN slabs -> SlabType] /\ partial \in [Classes -> Seq(Nat)]
    BY DEF HeapInv, Typed
  <1> HIDE DEF addr, bit
  <1>4. /\ DOMAIN slabs' = DOMAIN slabs \ {addr}
        /\ \A a \in DOMAIN slabs \ {addr} : slabs'[a] = slabs[a]
    BY <1>1
  <1>5. slabs' \in [DOMAIN slabs' -> SlabType]
    BY <1>1, <1>3, <1>4, SMTT(30)
  <1>6. /\ Blocks' /\ avail' \subseteq Pages!Frames
        /\ held' = held \ {Pair(addr)}
    BY <1>1, <1>2, DeallocateBlocks, Zenon DEF HeapInv, Pair
  <1>7. Exact'
    <2>1. /\ addr = slab_header_from_obj(ptr, c) /\ bit = object_index(addr, c, ptr)
          /\ slabs[addr].bits \ {bit} = {}
          /\ DOMAIN slabs' \subseteq DOMAIN slabs /\ addr \notin DOMAIN slabs'
      BY <1>2, <1>4, Zenon DEF addr, bit
    <2>2. /\ \A a \in DOMAIN slabs \ {addr} : a \in DOMAIN slabs' /\ slabs'[a] = slabs[a]
          /\ \A a \in DOMAIN slabs' : slabs'[a].class = slabs[a].class
      BY <1>4
    <2> QED BY <1>1, <2>1, <2>2, FreedExact, Zenon
  <1>8. Counted'
    BY <1>4, Zenon DEF HeapInv, Counted, Count
  <1>9. partial' \in [Classes -> Seq(Nat)] /\ Listed'
    <2> DEFINE room(d) == {a \in DOMAIN slabs' : slabs'[a].class = d /\ slabs'[a].allocated < Count(d)}
    <2>1. ASSUME NEW d \in Classes
          PROVE  /\ room(d) = Elements(partial[d]) \ {addr}
                 /\ addr \in Elements(partial[d]) <=> d = c /\ 1 < Count(c)
                 /\ Distinct(partial[d])
      BY <1>1, <1>2, <1>4, SMTT(30) DEF HeapInv, Listed
    <2> HIDE DEF room, s
    <2>2. CASE 1 < Count(c)
      <3> DEFINE p == Position(c, addr)
                 m == Without(partial[c], p)
      <3>1. partial' = [partial EXCEPT ![c] = m]
        BY <1>1, <2>2, Zenon DEF unlink, Count
      <3>2. \E i \in DOMAIN partial[c] : partial[c][i] = addr
        BY <1>2, <2>1, <2>2 DEF Elements
      <3>3. p \in DOMAIN partial[c] /\ partial[c][p] = addr
        BY <3>2 DEF Position
      <3> HIDE DEF p
      <3>4. m \in Seq(Nat) /\ Elements(m) = Elements(partial[c]) \ {addr} /\ Distinct(m)
        BY <1>2, <1>3, <2>1, <3>3, Unlink, Zenon
      <3> HIDE DEF m
      <3>5. partial' \in [Classes -> Seq(Nat)]
        BY <1>3, <3>1, <3>4, Zenon
      <3>6. ASSUME NEW d \in Classes
            PROVE  Elements(partial'[d]) = room(d) /\ Distinct(partial'[d])
        <4>1. CASE d = c
          BY <1>3, <2>1, <3>1, <3>4, <4>1, Zenon
        <4>2. CASE d # c
          <5>1. partial'[d] = partial[d]
            BY <1>3, <3>1, <4>2
          <5>2. room(d) = Elements(partial[d])
            BY <2>1, <4>2, Zenon
          <5> QED BY <2>1, <5>1, <5>2, Zenon
        <4> QED BY <4>1, <4>2
      <3> QED BY <3>5, <3>6 DEF Listed, room, Elements, Distinct, Count
    <2>3. CASE ~(1 < Count(c))
      <3>1. partial' = partial
        BY <1>1, <1>2, <2>3, Zenon DEF unlink, Count
      <3>2. \A d \in Classes : Elements(partial'[d]) = room(d) /\ Distinct(partial'[d])
        BY <2>1, <2>3, <3>1, Zenon
      <3> QED BY <1>3, <3>1, <3>2 DEF Listed, room, Elements, Distinct, Count
    <2> QED BY <2>2, <2>3, SMTT(30)
  <1>10. Typed'
    BY <1>1, <1>5, <1>6, <1>9, Zenon DEF HeapInv, Typed, Pages!Frames, SlabType
  <1>11. Placed'
    <2>1. \A a \in DOMAIN slabs' : Pair(a)' = Pair(a) /\ a \in DOMAIN slabs /\ a # addr
      BY <1>4, SMTT(30) DEF Pair
    <2>2. \A a \in DOMAIN slabs' : Pair(a) # Pair(addr)
      BY <1>2, <2>1, PairsDiffer, Zenon
    <2>3. Pair(addr) \notin raws
      BY <1>2 DEF HeapInv, Placed
    <2>4. held' = raws' \union {Pair(a)' : a \in DOMAIN slabs'}
      <3>1. \A a \in DOMAIN slabs : a = addr \/ a \in DOMAIN slabs'
        BY <1>4
      <3>2. held = raws \union {Pair(a) : a \in DOMAIN slabs}
        BY DEF HeapInv, Placed
      <3> QED BY <1>1, <1>2, <1>6, <2>1, <2>2, <2>3, <3>1, <3>2, Zenon
    <2> QED BY <1>1, <2>1, <2>4, Zenon DEF HeapInv, Placed
  <1> QED BY <1>6, <1>7, <1>8, <1>9, <1>10, <1>11, Zenon DEF HeapInv

\* What the operations on whole pages leave of the slabs.
LEMMA SlabsKept ==
  ASSUME HeapInv, UNCHANGED <<slabs, partial, objs>>
  PROVE  /\ Counted' /\ Exact' /\ Listed'
         /\ \A a \in DOMAIN slabs : Pair(a)' = Pair(a)
         /\ objs' \subseteq Nat \X Classes
         /\ slabs' \in [DOMAIN slabs' -> SlabType]
         /\ partial' \in [Classes -> Seq(Nat)]
  <1>1. slabs' = slabs /\ partial' = partial /\ objs' = objs
    OBVIOUS
  <1>2. Counted'
    BY <1>1, Zenon DEF HeapInv, Counted, Count
  <1>3. Exact'
    <2> SUFFICES ASSUME NEW p \in Nat, NEW d \in Classes
                 PROVE  <<p, d>> \in objs' <=>
                          \E a \in DOMAIN slabs' : \E b \in slabs'[a].bits :
                            slabs'[a].class = d /\ p = object_at(a, d, b)
      BY DEF Exact, object_at, first_object_offset, slab_size, objects_that_fit
    <2> QED BY <1>1 DEF HeapInv, Exact
  <1>4. Listed'
    BY <1>1 DEF HeapInv, Listed, Elements, Distinct, Count
  <1> QED BY <1>1, <1>2, <1>3, <1>4, Zenon DEF HeapInv, Typed, Pair

LEMMA AllocateRawStep ==
  ASSUME HeapInv, NEW order \in RawOrders, NEW pfn \in Pages!Frames, AllocateRaw(pfn, order)
  PROVE  HeapInv'
  <1>1. /\ Pages!allocate(pfn, order) /\ raws' = raws \union {<<pfn, order>>}
        /\ UNCHANGED <<slabs, partial, objs>>
    BY DEF AllocateRaw
  <1>2. pfn \in Nat /\ 2 ^ order \in Nat \ {0}
    BY FramesAssumption, RawAssumption DEF Pages!Frames
  <1>3. /\ Blocks' /\ avail' \subseteq Pages!Frames /\ <<pfn, order>> \notin held
        /\ held' = held \union {<<pfn, order>>}
    BY <1>1, <1>2, AllocateBlocks, Zenon DEF HeapInv
  <1>4. Typed'
    BY <1>1, <1>2, <1>3, SlabsKept DEF HeapInv, Typed, Pages!Frames, SlabType
  <1>5. Placed'
    <2>1. slabs' = slabs /\ \A a \in DOMAIN slabs : Pair(a)' = Pair(a)
      BY <1>1, SlabsKept
    <2>2. held = raws \union {Pair(a) : a \in DOMAIN slabs}
      BY DEF HeapInv, Placed
    <2>3. held' = raws' \union {Pair(a)' : a \in DOMAIN slabs'}
      BY <1>1, <1>3, <2>1, <2>2, Zenon
    <2>4. \A a \in DOMAIN slabs' : Pair(a)' \notin raws'
      BY <1>1, <1>3, <2>1, <2>2, Zenon DEF HeapInv, Placed
    <2> QED BY <2>1, <2>3, <2>4, Zenon DEF HeapInv, Placed
  <1> QED BY <1>1, <1>3, <1>4, <1>5, SlabsKept, Zenon DEF HeapInv

LEMMA DeallocateRawStep ==
  ASSUME HeapInv, NEW order, NEW pfn, DeallocateRaw(pfn, order)
  PROVE  HeapInv'
  <1>1. /\ Pages!deallocate(pfn, order) /\ raws' = raws \ {<<pfn, order>>}
        /\ <<pfn, order>> \in raws /\ UNCHANGED <<slabs, partial, objs>>
    BY DEF DeallocateRaw
  <1>2. Blocks' /\ avail' \subseteq Pages!Frames /\ held' = held \ {<<pfn, order>>}
    BY <1>1, DeallocateBlocks DEF HeapInv
  <1>3. Typed'
    BY <1>1, <1>2, SlabsKept, Zenon DEF HeapInv, Typed, Pages!Frames, SlabType
  <1>4. Placed'
    <2>1. slabs' = slabs /\ \A a \in DOMAIN slabs : Pair(a)' = Pair(a) /\ Pair(a) \notin raws
      BY <1>1, SlabsKept, Zenon DEF HeapInv, Placed
    <2>2. held = raws \union {Pair(a) : a \in DOMAIN slabs}
      BY DEF HeapInv, Placed
    <2>3. held' = raws' \union {Pair(a)' : a \in DOMAIN slabs'}
      BY <1>1, <1>2, <2>1, <2>2, Zenon
    <2> QED BY <1>1, <2>1, <2>3, Zenon DEF HeapInv, Placed
  <1> QED BY <1>1, <1>2, <1>3, <1>4, SlabsKept, Zenon DEF HeapInv
-----------------------------------------------------------------------------
LEMMA InitInv ==
  ASSUME Init
  PROVE  HeapInv
  <1>1. /\ avail = Pages!Frames /\ held = {} /\ slabs = <<>> /\ objs = {} /\ raws = {}
        /\ partial = [c \in Classes |-> <<>>]
    BY DEF Init
  <1>2. DOMAIN slabs = {} /\ slabs \in [DOMAIN slabs -> SlabType]
    BY <1>1
  <1>3. \A c \in Classes : partial[c] = <<>> /\ DOMAIN partial[c] = {}
    BY <1>1
  <1>4. Typed
    BY <1>1, <1>2 DEF Typed
  <1>5. Blocks /\ Placed /\ Counted /\ Exact
    BY <1>1, <1>2, Zenon DEF Blocks, Placed, Counted, Exact
  <1>6. Listed
    BY <1>2, <1>3 DEF Listed, Elements, Distinct
  <1> QED BY <1>4, <1>5, <1>6 DEF HeapInv

LEMMA NextInv ==
  ASSUME HeapInv, [Next]_vars
  PROVE  HeapInv'
  <1>1. ASSUME NEW c \in Classes, AllocatePartial(c) PROVE HeapInv'
    BY <1>1, AllocatePartialStep
  <1>2. ASSUME NEW c \in Classes, NEW pfn \in Pages!Frames, AllocateSlab(c, pfn) PROVE HeapInv'
    BY <1>2, AllocateSlabStep
  <1>3. ASSUME NEW o \in objs, DeallocateLast(o[1], o[2]) PROVE HeapInv'
    BY <1>3, DeallocateLastStep
  <1>4. ASSUME NEW o \in objs, DeallocateOne(o[1], o[2]) PROVE HeapInv'
    BY <1>4, DeallocateOneStep
  <1>5. ASSUME NEW order \in RawOrders, NEW pfn \in Pages!Frames, AllocateRaw(pfn, order)
        PROVE  HeapInv'
    BY <1>5, AllocateRawStep
  <1>6. ASSUME NEW r \in raws, DeallocateRaw(r[1], r[2]) PROVE HeapInv'
    BY <1>6, DeallocateRawStep
  <1>7. CASE UNCHANGED vars
    <2>1. /\ avail' = avail /\ held' = held /\ raws' = raws
          /\ UNCHANGED <<slabs, partial, objs>>
      BY <1>7 DEF vars
    <2>2. Typed' /\ Blocks'
      BY <2>1, SlabsKept, Zenon DEF HeapInv, Typed, Blocks, BlockOf, Pages!Block, Pages!Frames, SlabType
    <2>3. Placed'
      BY <2>1, SlabsKept, Zenon DEF HeapInv, Placed
    <2> QED BY <2>1, <2>2, <2>3, SlabsKept, Zenon DEF HeapInv
  <1> QED BY <1>1, <1>2, <1>3, <1>4, <1>5, <1>6, <1>7, Zenon DEF Next
-----------------------------------------------------------------------------
\* A slab has an object that is owned, and its counter is in range.
LEMMA SlabOwned ==
  ASSUME HeapInv, NEW a \in DOMAIN slabs
  PROVE  /\ slabs[a].class \in Classes
         /\ slabs[a].allocated \in 1 .. Count(slabs[a].class)
         /\ \E ptr \in Nat : <<ptr, slabs[a].class>> \in objs
  <1>1. PICK bit : bit \in slabs[a].bits
    BY DEF HeapInv, Counted
  <1> DEFINE c == slabs[a].class
             ptr == object_at(a, c, bit)
  <1>2. ptr \in Nat /\ <<ptr, c>> \in objs /\ slab_header_from_obj(ptr, c) = a
    BY <1>1, ObjectsDiffer, Zenon
  <1> HIDE DEF ptr, c
  <1>3. c \in Classes /\ slabs[a].allocated \in 1 .. Count(c)
    BY <1>2, FreedSlab, Zenon
  <1> QED BY <1>2, <1>3, Zenon DEF c

LEMMA InvMetadata ==
  ASSUME HeapInv
  PROVE  MetadataExact
  <1>1. TypeOK
    <2>1. avail \subseteq Pages!Frames
      BY DEF HeapInv, Typed
    <2>2. ASSUME NEW a \in DOMAIN slabs
          PROVE  /\ slabs[a].class \in Classes
                 /\ slabs[a].allocated \in 1 .. objects_per_slab[slabs[a].class]
                 /\ slabs[a].bits \subseteq 0 .. objects_per_slab[slabs[a].class] - 1
      BY SlabOwned, Zenon DEF HeapInv, Counted, Count
    <2>3. ASSUME NEW c \in Classes PROVE partial[c] \in Seq(DOMAIN slabs)
      <3>1. partial[c] \in Seq(Nat)
        BY DEF HeapInv, Typed
      <3>2. \A i \in DOMAIN partial[c] : partial[c][i] \in DOMAIN slabs
        BY DEF HeapInv, Listed, Elements
      <3> QED BY <3>1, <3>2
    <2> QED BY <2>1, <2>2, <2>3, Zenon DEF TypeOK
  <1>2. BitmapExact
    <2> SUFFICES ASSUME NEW a \in DOMAIN slabs
                 PROVE  slabs[a].bits =
                          {object_index(a, slabs[a].class, o[1]) : o \in OwnedIn(a)}
      BY Zenon DEF HeapInv, Counted, BitmapExact
    <2> DEFINE c == slabs[a].class
    <2>1. ASSUME NEW bit \in slabs[a].bits
          PROVE  \E o \in OwnedIn(a) : bit = object_index(a, c, o[1])
      <3> DEFINE o == <<object_at(a, c, bit), c>>
      <3>1. /\ o \in objs /\ slab_header_from_obj(o[1], o[2]) = a
            /\ object_index(a, c, o[1]) = bit /\ o[2] = slabs[a].class
        BY ObjectsDiffer, Zenon
      <3> HIDE DEF o
      <3> QED BY <3>1, Zenon DEF OwnedIn
    <2>2. ASSUME NEW o \in OwnedIn(a) PROVE object_index(a, c, o[1]) \in slabs[a].bits
      <3>1. o \in objs /\ o[2] = c /\ slab_header_from_obj(o[1], o[2]) = a
        BY DEF OwnedIn
      <3>2. o = <<o[1], o[2]>>
        BY <3>1 DEF HeapInv, Typed
      <3> QED BY <3>1, <3>2, OwnedObject
    <2> HIDE DEF c
    <2> QED BY <2>1, <2>2, Zenon DEF c
  <1>3. PartialExact
    BY Zenon DEF HeapInv, Listed, Elements, Distinct, Count, PartialExact
  <1>4. NoSlabLeak
    <2>1. held = raws \union {<<a \div PageSize, SlabOrders[slabs[a].class]>> : a \in DOMAIN slabs}
      BY DEF HeapInv, Placed, Pair
    <2>2. objs = {} => DOMAIN slabs = {}
      BY SlabOwned, Zenon
    <2> QED BY <2>1, <2>2 DEF NoSlabLeak
  <1> QED BY <1>1, <1>2, <1>3, <1>4 DEF MetadataExact
-----------------------------------------------------------------------------
\* Two blocks that are held are apart in memory.
LEMMA BlocksApart ==
  ASSUME HeapInv, NEW b \in held, NEW d \in held, b # d
  PROVE  \/ (b[1] + 2 ^ b[2]) * PageSize <= d[1] * PageSize
         \/ (d[1] + 2 ^ d[2]) * PageSize <= b[1] * PageSize
  <1> DEFINE x == b[1]
             y == d[1]
             m == x + 2 ^ b[2]
             n == y + 2 ^ d[2]
  <1>1. /\ x \in Nat /\ y \in Nat /\ m \in Nat /\ n \in Nat /\ x < m /\ y < n
    BY DEF HeapInv, Blocks
  <1>2. (x .. m - 1) \intersect (y .. n - 1) = {}
    BY DEF HeapInv, Blocks, BlockOf, Pages!Block
  <1>3. PageSize \in Nat
    BY PageAssumption
  <1> HIDE DEF x, y, m, n
  <1>4. m <= y \/ n <= x
    <2> SUFFICES ASSUME y < m, x < n PROVE FALSE
      BY <1>1
    <2>1. CASE x <= y
      BY <1>1, <1>2, <2>1
    <2>2. CASE y < x
      BY <1>1, <1>2, <2>2
    <2> QED BY <1>1, <2>1, <2>2
  <1>5. m * PageSize <= y * PageSize \/ n * PageSize <= x * PageSize
    BY <1>1, <1>3, <1>4, ProductMonotonic
  <1> QED BY <1>5 DEF x, y, m, n

\* The bytes of a slab are those of its block.
LEMMA SlabSpan ==
  ASSUME HeapInv, NEW a \in DOMAIN slabs
  PROVE  /\ Pair(a) \in held /\ Pair(a) \notin raws
         /\ a \in Nat /\ slab_size(slabs[a].class) \in Nat
         /\ Pair(a)[1] * PageSize = a
         /\ (Pair(a)[1] + 2 ^ Pair(a)[2]) * PageSize = a + slab_size(slabs[a].class)
  <1> DEFINE c == slabs[a].class
             pfn == a \div PageSize
             w == 2 ^ SlabOrders[c]
  <1>1. c \in Classes /\ pfn \in Nat /\ a = pfn * PageSize /\ Pair(a) \in held
    BY SlabFacts
  <1>2. PageSize \in Nat /\ w \in Nat /\ slab_size(c) = PageSize * w
    BY <1>1, ClassTypes, Zenon
  <1>3. Pair(a)[1] = pfn /\ 2 ^ Pair(a)[2] = w
    BY DEF Pair
  <1>4. Pair(a) \notin raws
    BY DEF HeapInv, Placed
  <1> HIDE DEF c, pfn, w
  <1>5. (pfn + w) * PageSize = pfn * PageSize + PageSize * w /\ PageSize * w \in Nat
        /\ pfn * PageSize \in Nat
    BY <1>1, <1>2
  <1> QED BY <1>1, <1>2, <1>3, <1>4, <1>5, Zenon DEF c

\* An object is in the slab that deallocate finds, past header and bitmap, at the
\* place of its bit.
LEMMA ObjectSpan ==
  ASSUME HeapInv, NEW o \in objs
  PROVE  LET c == o[2]
             a == slab_header_from_obj(o[1], c)
             bit == object_index(a, c, o[1])
         IN /\ o = <<o[1], c>> /\ o[1] \in Nat /\ c \in Classes /\ Sizes[c] \in Nat
            /\ a \in DOMAIN slabs /\ a \in Nat /\ slabs[a].class = c
            /\ bit \in Nat /\ o[1] = a + first_object_offset(c) + bit * Sizes[c]
            /\ bitmap_bytes(c) \in Nat
            /\ a + HeaderSize + bitmap_bytes(c) <= o[1]
            /\ o[1] + Sizes[c] <= a + slab_size(c)
  <1> DEFINE c == o[2]
             a == slab_header_from_obj(o[1], c)
             bit == object_index(a, c, o[1])
  <1>1. o = <<o[1], c>> /\ o[1] \in Nat /\ c \in Classes
    BY DEF HeapInv, Typed
  <1>2. /\ a \in DOMAIN slabs /\ slabs[a].class = c /\ bit \in slabs[a].bits
        /\ o[1] = object_at(a, c, bit)
    BY <1>1, OwnedObject
  <1> HIDE DEF a, bit, c
  <1>3. bit \in 0 .. Count(c) - 1
    BY <1>2 DEF HeapInv, Counted
  <1>4. PICK k \in Nat : a = k * slab_size(c)
    BY <1>2, SlabFacts, Zenon
  <1>5. /\ a \in Nat /\ a + HeaderSize + bitmap_bytes(c) <= o[1]
        /\ o[1] + Sizes[c] <= a + slab_size(c)
    BY <1>1, <1>2, <1>3, <1>4, ObjectGeometry
  <1>6. bit \in Nat
    BY <1>1, <1>3, SlotsFinite
  <1> QED BY <1>1, <1>2, <1>5, <1>6, ClassTypes, SlabLayout, Zenon DEF object_at, a, bit, c

\* Bytes lo .. hi - 1 and lo2 .. hi2 - 1, one range before the other.
LEMMA RangesApart ==
  ASSUME NEW lo \in Nat, NEW hi \in Nat, NEW lo2 \in Nat, NEW hi2 \in Nat,
         hi <= lo2 \/ hi2 <= lo
  PROVE  (lo .. hi - 1) \intersect (lo2 .. hi2 - 1) = {}
  OBVIOUS

\* Two slots of one slab.
LEMMA SlotsApart ==
  ASSUME NEW i \in Nat, NEW j \in Nat, NEW z \in Nat, i < j
  PROVE  i * z + z <= j * z
  <1>1. i + 1 \in Nat /\ i + 1 <= j /\ (i + 1) * z = i * z + z
    OBVIOUS
  <1> QED BY <1>1, ProductMonotonic

LEMMA ObjectsApart ==
  ASSUME HeapInv, NEW o \in objs, NEW p \in objs, o # p
  PROVE  ObjectBytes(o) \intersect ObjectBytes(p) = {}
  <1> DEFINE c == o[2]
             d == p[2]
             a == slab_header_from_obj(o[1], c)
             b == slab_header_from_obj(p[1], d)
             i == object_index(a, c, o[1])
             j == object_index(b, d, p[1])
             H == HeaderSize
             f(k) == first_object_offset(k)
  <1>1. /\ o = <<o[1], c>> /\ o[1] \in Nat /\ c \in Classes /\ Sizes[c] \in Nat
        /\ a \in DOMAIN slabs /\ a \in Nat /\ slabs[a].class = c
        /\ i \in Nat /\ o[1] = a + f(c) + i * Sizes[c]
        /\ a + H + bitmap_bytes(c) <= o[1] /\ o[1] + Sizes[c] <= a + slab_size(c)
        /\ bitmap_bytes(c) \in Nat
    BY ObjectSpan, Zenon
  <1>2. /\ p = <<p[1], d>> /\ p[1] \in Nat /\ d \in Classes /\ Sizes[d] \in Nat
        /\ b \in DOMAIN slabs /\ b \in Nat /\ slabs[b].class = d
        /\ j \in Nat /\ p[1] = b + f(d) + j * Sizes[d]
        /\ b + H + bitmap_bytes(d) <= p[1] /\ p[1] + Sizes[d] <= b + slab_size(d)
        /\ bitmap_bytes(d) \in Nat
    BY ObjectSpan, Zenon
  <1>3. /\ H \in Nat /\ slab_size(c) \in Nat /\ slab_size(d) \in Nat
        /\ f(c) \in Nat
    BY <1>1, <1>2, ClassTypes, SlabLayout, Zenon
  <1> HIDE DEF c, d, a, b, i, j, H, f
  <1>4. o[1] + Sizes[c] <= p[1] \/ p[1] + Sizes[d] <= o[1]
    <2>1. CASE a # b
      <3>1. a + slab_size(c) <= b \/ b + slab_size(d) <= a
        <4>1. Pair(a) # Pair(b)
          BY <1>1, <1>2, <2>1, PairsDiffer, Zenon
        <4>2. /\ Pair(a) \in held /\ Pair(a)[1] * PageSize = a
              /\ (Pair(a)[1] + 2 ^ Pair(a)[2]) * PageSize = a + slab_size(c)
          BY <1>1, SlabSpan, Zenon
        <4>3. /\ Pair(b) \in held /\ Pair(b)[1] * PageSize = b
              /\ (Pair(b)[1] + 2 ^ Pair(b)[2]) * PageSize = b + slab_size(d)
          BY <1>2, SlabSpan, Zenon
        <4> QED BY <4>1, <4>2, <4>3, BlocksApart, Zenon
      <3>2. b <= p[1] /\ a <= o[1]
        BY <1>1, <1>2, <1>3
      <3> QED BY <1>1, <1>2, <1>3, <3>1, <3>2, SMTT(30)
    <2>2. CASE a = b
      <3>1. c = d /\ i # j
        BY <1>1, <1>2, <2>2, Zenon
      <3>2. i * Sizes[c] \in Nat /\ j * Sizes[c] \in Nat
        BY <1>1, <1>2
      <3>3. CASE i < j
        <4>1. i * Sizes[c] + Sizes[c] <= j * Sizes[c]
          BY <1>1, <1>2, <3>3, SlotsApart, Zenon
        <4> QED BY <1>1, <1>2, <1>3, <2>2, <3>1, <3>2, <4>1
      <3>4. CASE j < i
        <4>1. j * Sizes[c] + Sizes[c] <= i * Sizes[c]
          BY <1>1, <1>2, <3>4, SlotsApart, Zenon
        <4> QED BY <1>1, <1>2, <1>3, <2>2, <3>1, <3>2, <4>1, SMTT(30)
      <3> QED BY <1>1, <1>2, <3>1, <3>3, <3>4, SMTT(30)
    <2> QED BY <2>1, <2>2
  <1>5. o[1] + Sizes[c] \in Nat /\ p[1] + Sizes[d] \in Nat
    BY <1>1, <1>2
  <1> DEFINE m == o[1] + Sizes[c]
             n == p[1] + Sizes[d]
  <1>6. ObjectBytes(o) = o[1] .. m - 1 /\ ObjectBytes(p) = p[1] .. n - 1
    <2>1. ObjectBytes(o) = o[1] .. o[1] + (Sizes[c] - 1) /\ ObjectBytes(p) = p[1] .. p[1] + (Sizes[d] - 1)
      BY DEF ObjectBytes, c, d
    <2>2. o[1] + (Sizes[c] - 1) = m - 1 /\ p[1] + (Sizes[d] - 1) = n - 1
      BY <1>1, <1>2
    <2> QED BY <2>1, <2>2
  <1> HIDE DEF m, n
  <1>7. m \in Nat /\ n \in Nat /\ (m <= p[1] \/ n <= o[1])
    BY <1>4, <1>5, Zenon DEF m, n
  <1>8. (o[1] .. m - 1) \intersect (p[1] .. n - 1) = {}
    <2>1. o[1] \in Nat /\ p[1] \in Nat
      BY <1>1, <1>2
    <2> QED BY <1>7, <2>1, RangesApart, Zenon
  <1> QED BY <1>6, <1>8

LEMMA RawsApart ==
  ASSUME HeapInv, NEW r \in raws, NEW q \in raws, r # q
  PROVE  RawBytes(r) \intersect RawBytes(q) = {}
  <1> DEFINE x == r[1] * PageSize
             m == (r[1] + 2 ^ r[2]) * PageSize
             y == q[1] * PageSize
             n == (q[1] + 2 ^ q[2]) * PageSize
  <1>1. r \in held /\ q \in held
    BY DEF HeapInv, Placed
  <1>2. m <= y \/ n <= x
    BY <1>1, BlocksApart
  <1>3. x \in Nat /\ m \in Nat /\ y \in Nat /\ n \in Nat
    BY <1>1, PageAssumption DEF HeapInv, Blocks
  <1>4. RawBytes(r) = x .. m - 1 /\ RawBytes(q) = y .. n - 1
    BY DEF RawBytes
  <1> HIDE DEF x, m, y, n
  <1> QED BY <1>2, <1>3, <1>4, RangesApart

\* A slab and a run of pages.
LEMMA SlabRawApart ==
  ASSUME HeapInv, NEW a \in DOMAIN slabs, NEW r \in raws
  PROVE  LET x == r[1] * PageSize
             m == (r[1] + 2 ^ r[2]) * PageSize
         IN /\ x \in Nat /\ m \in Nat /\ RawBytes(r) = x .. m - 1
            /\ a + slab_size(slabs[a].class) <= x \/ m <= a
  <1> DEFINE x == r[1] * PageSize
             m == (r[1] + 2 ^ r[2]) * PageSize
  <1>1. r \in held
    BY DEF HeapInv, Placed
  <1>2. x \in Nat /\ m \in Nat
    BY <1>1, PageAssumption DEF HeapInv, Blocks
  <1>3. RawBytes(r) = x .. m - 1
    BY DEF RawBytes
  <1>4. /\ Pair(a) \in held /\ Pair(a) # r /\ Pair(a)[1] * PageSize = a
        /\ (Pair(a)[1] + 2 ^ Pair(a)[2]) * PageSize = a + slab_size(slabs[a].class)
    BY SlabSpan
  <1>5. a + slab_size(slabs[a].class) <= x \/ m <= a
    BY <1>1, <1>4, BlocksApart, Zenon
  <1> QED BY <1>2, <1>3, <1>5, Zenon

LEMMA ObjectRawApart ==
  ASSUME HeapInv, NEW o \in objs, NEW r \in raws
  PROVE  ObjectBytes(o) \intersect RawBytes(r) = {}
  <1> DEFINE c == o[2]
             a == slab_header_from_obj(o[1], c)
             h == o[1] + Sizes[c]
             x == r[1] * PageSize
             m == (r[1] + 2 ^ r[2]) * PageSize
             top == a + slab_size(c)
  <1>1. /\ o[1] \in Nat /\ Sizes[c] \in Nat /\ c \in Classes /\ bitmap_bytes(c) \in Nat
        /\ a \in DOMAIN slabs /\ a \in Nat /\ slabs[a].class = c
        /\ a + HeaderSize + bitmap_bytes(c) <= o[1] /\ h <= top
    BY ObjectSpan, Zenon
  <1>2. x \in Nat /\ m \in Nat /\ RawBytes(r) = x .. m - 1 /\ (top <= x \/ m <= a)
    BY <1>1, SlabRawApart, Zenon
  <1>3. ObjectBytes(o) = o[1] .. h - 1
    BY <1>1, SMTT(30) DEF ObjectBytes
  <1>4. top \in Nat /\ HeaderSize \in Nat
    BY <1>1, ClassTypes
  <1>5. h \in Nat /\ a <= o[1]
    BY <1>1, <1>4
  <1> HIDE DEF a, c, h, x, m, top
  <1>6. h <= x \/ m <= o[1]
    BY <1>1, <1>2, <1>4, <1>5
  <1> QED BY <1>1, <1>2, <1>3, <1>5, <1>6, RangesApart, Zenon

LEMMA HeaderApart ==
  ASSUME HeapInv, NEW a \in DOMAIN slabs
  PROVE  /\ \A o \in objs : HeaderBytes(a) \intersect ObjectBytes(o) = {}
         /\ \A r \in raws : HeaderBytes(a) \intersect RawBytes(r) = {}
  <1> DEFINE c == slabs[a].class
             e == a + HeaderSize + bitmap_bytes(c)
             top == a + slab_size(c)
  <1>1. a \in Nat /\ c \in Classes /\ HeaderSize \in Nat /\ bitmap_bytes(c) \in Nat
    BY SlabSpan, SlabFacts, ClassTypes, SlabLayout, Zenon
  <1>2. e \in Nat /\ top \in Nat /\ e <= top
    <2>1. /\ first_object_offset(c) \in Nat /\ slab_size(c) \in Nat
          /\ HeaderSize + bitmap_bytes(c) <= first_object_offset(c)
          /\ first_object_offset(c) + Count(c) * Sizes[c] = slab_size(c)
          /\ Count(c) * Sizes[c] \in Nat
      BY <1>1, SlabLayout, ClassTypes
    <2> QED BY <1>1, <2>1
  <1>3. HeaderBytes(a) = a .. e - 1
    BY <1>1 DEF HeaderBytes
  <1>4. ASSUME NEW r \in raws PROVE HeaderBytes(a) \intersect RawBytes(r) = {}
    <2> DEFINE x == r[1] * PageSize
               m == (r[1] + 2 ^ r[2]) * PageSize
    <2>1. x \in Nat /\ m \in Nat /\ RawBytes(r) = x .. m - 1 /\ (top <= x \/ m <= a)
      BY SlabRawApart, Zenon
    <2> HIDE DEF x, m, e, top
    <2>2. e <= x \/ m <= a
      BY <1>1, <1>2, <2>1
    <2> QED BY <1>1, <1>2, <1>3, <2>1, <2>2, RangesApart, Zenon
  <1>5. ASSUME NEW o \in objs PROVE HeaderBytes(a) \intersect ObjectBytes(o) = {}
    <2> DEFINE d == o[2]
               b == slab_header_from_obj(o[1], d)
               h == o[1] + Sizes[d]
    <2>1. /\ o[1] \in Nat /\ Sizes[d] \in Nat /\ d \in Classes /\ bitmap_bytes(d) \in Nat
          /\ b \in DOMAIN slabs /\ b \in Nat /\ slabs[b].class = d
          /\ b + HeaderSize + bitmap_bytes(d) <= o[1] /\ h <= b + slab_size(d)
      BY ObjectSpan, Zenon
    <2>2. ObjectBytes(o) = o[1] .. h - 1
      BY <2>1, SMTT(30) DEF ObjectBytes
    <2>3. h \in Nat /\ b <= o[1] /\ slab_size(d) \in Nat
      BY <1>1, <2>1, ClassTypes
    <2> HIDE DEF b, d, h
    <2>4. e <= o[1] \/ h <= a
      <3>1. CASE a = b
        BY <2>1, <3>1, Zenon
      <3>2. CASE a # b
        <4>1. Pair(a) # Pair(b)
          BY <2>1, <3>2, PairsDiffer
        <4>2. /\ Pair(a) \in held /\ Pair(a)[1] * PageSize = a
              /\ (Pair(a)[1] + 2 ^ Pair(a)[2]) * PageSize = top
          BY SlabSpan
        <4>3. /\ Pair(b) \in held /\ Pair(b)[1] * PageSize = b
              /\ (Pair(b)[1] + 2 ^ Pair(b)[2]) * PageSize = b + slab_size(d)
          BY <2>1, SlabSpan, Zenon
        <4>4. top <= b \/ b + slab_size(d) <= a
          BY <4>1, <4>2, <4>3, BlocksApart, Zenon
        <4> HIDE DEF top, e
        <4> QED BY <1>1, <1>2, <2>1, <2>3, <4>4, SMTT(30)
      <3> QED BY <3>1, <3>2, Zenon
    <2> HIDE DEF e
    <2> QED BY <1>1, <1>2, <1>3, <2>1, <2>2, <2>3, <2>4, RangesApart, Zenon
  <1> QED BY <1>4, <1>5

LEMMA InvDisjoint ==
  ASSUME HeapInv
  PROVE  Disjoint
  BY ObjectsApart, RawsApart, ObjectRawApart, HeaderApart, Zenon DEF Disjoint
-----------------------------------------------------------------------------
\* The counters, bitmaps and partial lists of the heap stay exact, and no slab outlives
\* its objects, for every table of size classes and every memory.
THEOREM HeapMetadata == Spec => []MetadataExact
  <1>1. Init => HeapInv
    BY InitInv
  <1>2. HeapInv /\ [Next]_vars => HeapInv'
    BY NextInv
  <1>3. HeapInv => MetadataExact
    BY InvMetadata
  <1> QED BY <1>1, <1>2, <1>3, PTL DEF Spec

\* No two allocations of GlobalAlloc share a byte, and none covers a byte of a slab's
\* header or bitmap, for every table of size classes and every memory.
THEOREM HeapDisjoint == Spec => []Disjoint
  <1>1. Init => HeapInv
    BY InitInv
  <1>2. HeapInv /\ [Next]_vars => HeapInv'
    BY NextInv
  <1>3. HeapInv => Disjoint
    BY InvDisjoint
  <1> QED BY <1>1, <1>2, <1>3, PTL DEF Spec
=============================================================================

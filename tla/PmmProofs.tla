----------------------------- MODULE PmmProofs -----------------------------
(***************************************************************************)
(* Proofs about Pmm, for every ORDER_COUNT and every max_pfn.              *)
(***************************************************************************)
EXTENDS Pmm, FiniteSetTheorems, WellFoundedInduction, TLAPS

USE OrderCountAssumption, MaxPfnAssumption

-----------------------------------------------------------------------------
(***************************************************************************)
(* Division and powers of two.                                             *)
(***************************************************************************)

\* A multiple of S has no remainder and the expected quotient.
LEMMA MultipleDiv ==
  ASSUME NEW S \in Nat \ {0}, NEW n \in Nat
  PROVE  (n * S) % S = 0 /\ (n * S) \div S = n
  OBVIOUS

\* Halving the block index is dividing by the doubled block size.
LEMMA MultipleDivDouble ==
  ASSUME NEW S \in Nat \ {0}, NEW n \in Nat
  PROVE  (n * S) \div (2 * S) = n \div 2
  OBVIOUS

\* A number without remainder is a multiple.
LEMMA DivMultiple ==
  ASSUME NEW S \in Nat \ {0}, NEW p \in Nat, p % S = 0
  PROVE  \E n \in Nat : p = n * S
  OBVIOUS

\* Division is monotonic.
LEMMA DivMonotonic ==
  ASSUME NEW d \in Nat \ {0}, NEW x \in Nat, NEW y \in Nat, x <= y
  PROVE  x \div d <= y \div d
  OBVIOUS

\* Adding the divisor adds one to the quotient.
LEMMA DivAddOne ==
  ASSUME NEW d \in Nat \ {0}, NEW x \in Nat
  PROVE  (x + d) \div d = (x \div d) + 1
  OBVIOUS

\* 1 << order is positive and doubles with the order.
LEMMA SizeFacts ==
  ASSUME NEW o \in Orders
  PROVE  /\ Size(o) \in Nat \ {0}
         /\ Size(o + 1) \in Nat \ {0}
         /\ Size(o + 1) = 2 * Size(o)
  <1>1. o \in 0 .. OrderCount /\ o + 1 \in 0 .. OrderCount
    BY DEF Orders
  <1>2. ASSUME NEW i \in 0 .. OrderCount, i = o + 1
        PROVE  2 ^ i = 2 ^ o * 2 ^ 1
    <2>1. o \in 0 .. i /\ i - o = 1
      BY <1>1, <1>2
    <2> QED BY <2>1, PowersAssumption, Zenon
  <1>3. 2 ^ 1 = 2
    OBVIOUS
  <1> QED BY <1>1, <1>2, <1>3, PowersAssumption DEF Size

\* A block of a larger order is a whole number of blocks of a smaller one.
LEMMA SizeMultiple ==
  ASSUME NEW i \in 0 .. OrderCount, NEW j \in 0 .. i
  PROVE  /\ Size(i) \in Nat /\ Size(j) \in Nat
         /\ \E k \in Nat \ {0} : Size(i) = k * Size(j)
         /\ Size(j) <= Size(i)
  <1>1. i - j \in 0 .. OrderCount /\ j \in 0 .. OrderCount
    OBVIOUS
  <1>2. 2 ^ i \in Nat /\ 2 ^ j \in Nat \ {0} /\ 2 ^ (i - j) \in Nat \ {0}
        /\ 2 ^ i = 2 ^ j * 2 ^ (i - j)
    BY <1>1, PowersAssumption
  <1>3. ASSUME NEW a \in Nat, NEW b \in Nat \ {0}, NEW c \in Nat \ {0}, a = b * c
        PROVE  b <= a /\ a = c * b
    BY <1>3
  <1> QED BY <1>2, <1>3 DEF Size

\* Alignment to a larger order is alignment to a smaller one.
LEMMA AlignedWeaken ==
  ASSUME NEW i \in 0 .. OrderCount, NEW j \in 0 .. i, NEW p \in Nat, Aligned(p, i)
  PROVE  Aligned(p, j)
  <1>1. Size(i) \in Nat \ {0} /\ Size(j) \in Nat \ {0}
    BY PowersAssumption DEF Size
  <1>2. PICK k \in Nat \ {0} : Size(i) = k * Size(j)
    BY SizeMultiple
  <1>3. PICK n \in Nat : p = n * Size(i)
    BY <1>1, DivMultiple, Zenon DEF Aligned
  <1>4. p = (n * k) * Size(j) /\ n * k \in Nat
    BY <1>1, <1>2, <1>3
  <1> QED BY <1>1, <1>4, MultipleDiv, Zenon DEF Aligned

-----------------------------------------------------------------------------
(***************************************************************************)
(* Buddies and parents.                                                    *)
(***************************************************************************)

\* buddy_of and parent_of of an aligned block: the two buddies are the halves of
\* the parent, which is aligned to the next order, and share one splitmap bit.
LEMMA BuddyGeometry ==
  ASSUME NEW o \in Orders, NEW p \in Nat, Aligned(p, o)
  PROVE  /\ buddy_of(p, o) \in Nat
         /\ parent_of(p, o) \in Nat
         /\ Aligned(buddy_of(p, o), o)
         /\ Aligned(parent_of(p, o), o + 1)
         /\ buddy_of(buddy_of(p, o), o) = p
         /\ splitmap_index(buddy_of(p, o), o) = splitmap_index(p, o)
         /\ \/ ~Bit(p, o) /\ buddy_of(p, o) = p + Size(o) /\ parent_of(p, o) = p
            \/ Bit(p, o) /\ buddy_of(p, o) = p - Size(o) /\ parent_of(p, o) = p - Size(o)
  <1> DEFINE S == Size(o)
  <1>1. S \in Nat \ {0} /\ Size(o + 1) = 2 * S /\ Size(o + 1) \in Nat \ {0}
    BY SizeFacts
  <1> HIDE DEF S
  <1>2. PICK n \in Nat : p = n * S
    BY <1>1, DivMultiple, Zenon DEF Aligned, S
  <1>3. p \div S = n
    BY <1>1, <1>2, MultipleDiv
  <1>4. CASE n % 2 = 0
    <2>1. PICK k \in Nat : n = 2 * k
      BY <1>4
    <2>2. ~Bit(p, o)
      BY <1>3, <1>4 DEF Bit, S
    <2>3. buddy_of(p, o) = p + S /\ parent_of(p, o) = p
      BY <2>2 DEF buddy_of, parent_of, S
    <2>4. p + S = (n + 1) * S /\ n + 1 \in Nat
      BY <1>1, <1>2
    <2>5. p = k * (2 * S)
      BY <1>1, <1>2, <2>1
    <2>6. Aligned(p, o + 1)
      <3>1. p = k * Size(o + 1)
        BY <1>1, <2>5
      <3>2. (k * Size(o + 1)) % Size(o + 1) = 0
        BY <1>1, MultipleDiv
      <3> QED BY <3>1, <3>2 DEF Aligned
    <2>7. (p + S) \div S = n + 1 /\ (p + S) % S = 0
      BY <1>1, <2>4, MultipleDiv, Zenon
    <2>8. (n + 1) % 2 = 1 /\ (n + 1) \div 2 = k /\ n \div 2 = k
      BY <2>1
    <2>9. Bit(p + S, o)
      BY <2>7, <2>8 DEF Bit, S
    <2>10. buddy_of(p + S, o) = p
      BY <1>1, <1>2, <2>9 DEF buddy_of, S
    <2>11. ((n + 1) * S) \div (2 * S) = (n + 1) \div 2 /\ (n * S) \div (2 * S) = n \div 2
      BY <1>1, <2>4, MultipleDivDouble
    <2>12. (p + S) \div (2 * S) = k /\ p \div (2 * S) = k
      BY <1>2, <2>4, <2>8, <2>11
    <2> QED
      BY <1>1, <2>2, <2>3, <2>6, <2>7, <2>10, <2>12 DEF Aligned, splitmap_index, S
  <1>5. CASE n % 2 = 1
    <2>1. PICK k \in Nat : n = 2 * k + 1
      BY <1>5
    <2>2. Bit(p, o)
      BY <1>3, <1>5 DEF Bit, S
    <2>3. buddy_of(p, o) = p - S /\ parent_of(p, o) = p - S
      BY <2>2 DEF buddy_of, parent_of, S
    <2>4. p - S = (2 * k) * S /\ p - S = k * (2 * S) /\ 2 * k \in Nat
      BY <1>1, <1>2, <2>1
    <2>5. p - S \in Nat
      BY <1>1, <2>4
    <2>6. Aligned(p - S, o + 1)
      <3>1. p - S = k * Size(o + 1)
        BY <1>1, <2>4
      <3>2. (k * Size(o + 1)) % Size(o + 1) = 0
        BY <1>1, MultipleDiv
      <3> QED BY <3>1, <3>2 DEF Aligned
    <2>7. (p - S) \div S = 2 * k /\ (p - S) % S = 0
      BY <1>1, <2>4, MultipleDiv, Zenon
    <2>8. (2 * k) % 2 = 0 /\ (2 * k) \div 2 = k /\ n \div 2 = k
      BY <2>1
    <2>9. ~Bit(p - S, o)
      BY <2>7, <2>8 DEF Bit, S
    <2>10. buddy_of(p - S, o) = p
      BY <1>1, <1>2, <2>5, <2>9 DEF buddy_of, S
    <2>11. ((2 * k) * S) \div (2 * S) = (2 * k) \div 2 /\ (n * S) \div (2 * S) = n \div 2
      BY <1>1, <2>4, MultipleDivDouble
    <2>12. (p - S) \div (2 * S) = k /\ p \div (2 * S) = k
      BY <1>2, <2>4, <2>8, <2>11
    <2> QED
      BY <1>1, <2>2, <2>3, <2>5, <2>6, <2>7, <2>10, <2>12 DEF Aligned, splitmap_index, S
  <1> QED BY <1>4, <1>5

\* Two aligned blocks of one order share a splitmap bit only if they are buddies.
LEMMA SameIndex ==
  ASSUME NEW o \in Orders, NEW p \in Nat, NEW q \in Nat, Aligned(p, o), Aligned(q, o),
         splitmap_index(p, o) = splitmap_index(q, o)
  PROVE  q = p \/ q = buddy_of(p, o)
  <1> DEFINE S == Size(o)
  <1>1. S \in Nat \ {0} /\ Size(o + 1) = 2 * S
    BY SizeFacts
  <1> HIDE DEF S
  <1>2. PICK n \in Nat : p = n * S
    BY <1>1, DivMultiple, Zenon DEF Aligned, S
  <1>3. PICK m \in Nat : q = m * S
    BY <1>1, DivMultiple, Zenon DEF Aligned, S
  <1>4. n \div 2 = m \div 2
    BY <1>1, <1>2, <1>3, MultipleDivDouble DEF splitmap_index
  <1>5. p \div S = n
    BY <1>1, <1>2, MultipleDiv
  <1>6. CASE n % 2 = 0
    <2>1. buddy_of(p, o) = p + S
      BY <1>5, <1>6 DEF buddy_of, Bit, S
    <2>2. m = n \/ m = n + 1
      BY <1>4, <1>6
    <2>3. (n + 1) * S = n * S + S
      BY <1>1
    <2> QED BY <1>2, <1>3, <2>1, <2>2, <2>3
  <1>7. CASE n % 2 = 1
    <2>1. buddy_of(p, o) = p - S
      BY <1>5, <1>7 DEF buddy_of, Bit, S
    <2>2. m = n \/ m = n - 1
      BY <1>4, <1>7
    <2>3. (n - 1) * S = n * S - S
      BY <1>1
    <2> QED BY <1>2, <1>3, <2>1, <2>2, <2>3
  <1> QED BY <1>6, <1>7

\* A pfn below max_pfn has its bit within the splitmap `new' reserves.
LEMMA IndexInBounds ==
  ASSUME NEW o \in Orders, NEW p \in Frames
  PROVE  splitmap_index(p, o) \in Nat /\ splitmap_index(p, o) < splitmap_bits(o)
  <1> DEFINE D == Size(o + 1)
  <1>1. D \in Nat \ {0}
    BY SizeFacts
  <1>2. MaxPfn - 1 \in Nat /\ p \in Nat /\ p <= MaxPfn - 1
    BY DEF Frames
  <1> HIDE DEF D
  <1>3. p \div D <= (MaxPfn - 1) \div D
    BY <1>1, <1>2, DivMonotonic
  <1>4. MaxPfn + D - 1 = (MaxPfn - 1) + D
    BY <1>1
  <1>5. (MaxPfn + D - 1) \div D = ((MaxPfn - 1) \div D) + 1
    BY <1>1, <1>2, <1>4, DivAddOne, Zenon
  <1>6. p \div D \in Nat /\ (MaxPfn - 1) \div D \in Nat
    BY <1>1, <1>2
  <1> QED BY <1>3, <1>5, <1>6 DEF splitmap_index, splitmap_bits, D

-----------------------------------------------------------------------------
(***************************************************************************)
(* The inductive invariant, one lemma per action.                          *)
(***************************************************************************)

\* What membership of BlockType gives.
LEMMA BlockFacts ==
  ASSUME NEW p, NEW o, <<p, o>> \in BlockType
  PROVE  /\ p \in Frames /\ p \in Nat /\ o \in Orders
         /\ Size(o) \in Nat \ {0}
         /\ Aligned(p, o)
         /\ p + Size(o) <= MaxPfn
         /\ p \in Block(p, o)
         /\ Block(p, o) \subseteq Frames
  <1>1. p \in Frames /\ o \in Orders /\ Aligned(p, o) /\ p + Size(o) <= MaxPfn
    BY DEF BlockType
  <1>2. Size(o) \in Nat \ {0}
    BY <1>1, SizeFacts
  <1> QED BY <1>1, <1>2 DEF Frames, Block

\* The parts of NoOverlap that the action lemmas use, frame by frame.
LEMMA Apart ==
  ASSUME NoOverlap, NEW f \in Frames
  PROVE  /\ \A o1, o2 \in Orders : \A p1 \in free[o1], p2 \in free[o2] :
              f \in Block(p1, o1) /\ f \in Block(p2, o2) => p1 = p2 /\ o1 = o2
         /\ \A o \in Orders : \A p \in free[o] :
              f \in Block(p, o) => f \notin HeldFrames /\ f \notin OpFrames /\ f \notin RangeFrames
         /\ f \in HeldFrames => f \notin OpFrames /\ f \notin RangeFrames
         /\ f \in OpFrames => f \notin RangeFrames
         /\ f \in OpFrames \/ f \in HeldFrames \/ f \in RangeFrames =>
              \A o \in Orders : \A p \in free[o] : f \notin Block(p, o)
  BY DEF NoOverlap, FreeFrames

\* deallocate's merging step.
LEMMA MergeBuddyStep ==
  ASSUME IInv, MergeBuddy
  PROVE  IInv' /\ buddy_of(op.pfn, op.order) \in free[op.order]
  <1> DEFINE p == op.pfn
             o == op.order
             q == buddy_of(p, o)
             r == parent_of(p, o)
  <1>1. /\ <<p, o>> \in BlockType /\ o < LastOrder /\ is_parent_split(p, o)
        /\ o \in Orders /\ o + 1 \in Orders /\ op \in OpType /\ op.kind = "free"
    <2>1. o \in Orders /\ op \in OpType
      BY DEF IInv, TypeOK, OpType
    <2> QED BY <2>1, SMTT(30) DEF IInv, TypeOK, MergeBuddy, Orders, LastOrder
  <1>2. /\ split' = [split EXCEPT ![o] = Toggle(@, splitmap_index(p, o))]
        /\ free' = [free EXCEPT ![o] = @ \ {q}]
        /\ free_blocks' = [free_blocks EXCEPT ![o] = @ - 1]
        /\ op' = [op EXCEPT !.pfn = r, !.order = o + 1]
        /\ UNCHANGED <<total_pages, range, added, held>>
    BY DEF MergeBuddy, toggle_parent_split, remove_free
  <1>3. /\ p \in Frames /\ p \in Nat /\ Size(o) \in Nat \ {0} /\ Aligned(p, o)
        /\ p + Size(o) <= MaxPfn /\ p \in Block(p, o) /\ Block(p, o) \subseteq Frames
    BY <1>1, BlockFacts
  <1>4. /\ q \in Nat /\ r \in Nat /\ Aligned(q, o) /\ Aligned(r, o + 1)
        /\ buddy_of(q, o) = p /\ splitmap_index(q, o) = splitmap_index(p, o)
        /\ \/ q = p + Size(o) /\ r = p
           \/ q = p - Size(o) /\ r = p - Size(o)
    BY <1>1, <1>3, BuddyGeometry
  <1>5. Size(o + 1) = 2 * Size(o)
    BY <1>1, SizeFacts
  <1> HIDE DEF p, o, q, r
  <1>6. OpFrames = Block(p, o)
    BY <1>1, <1>3 DEF OpFrames, p, o
  <1>7. p \notin free[o]
    BY <1>1, <1>3, <1>6, Apart DEF IInv
  <1>8. q \in free[o] /\ <<q, o>> \in BlockType
    BY <1>1, <1>3, <1>7, Zenon DEF IInv, SplitmapExact, TypeOK, q
  <1>9. <<r, o + 1>> \in BlockType
    <2>1. q \in Frames /\ q + Size(o) <= MaxPfn
      BY <1>8, BlockFacts
    <2>2. r \in Frames /\ r + Size(o + 1) <= MaxPfn
      BY <2>1, <1>3, <1>4, <1>5 DEF Frames
    <2> QED BY <2>2, <1>1, <1>4 DEF BlockType
  <1>10. op' \in OpType /\ op'.kind = "free" /\ op'.pfn = r /\ op'.order = o + 1
    BY <1>1, <1>2, <1>9, Zenon DEF OpType, BlockType
  <1>11. Block(r, o + 1) = Block(p, o) \union Block(q, o) /\ Block(q, o) \subseteq Frames
    BY <1>3, <1>4, <1>5, <1>8, BlockFacts DEF Block
  <1>12. OpFrames' = Block(p, o) \union Block(q, o)
    BY <1>3, <1>10, <1>11 DEF OpFrames
  <1>13. TypeOK'
    <2>1. free' \in [Orders -> SUBSET Frames] /\ free_blocks' \in [Orders -> Int]
      BY <1>1, <1>2 DEF IInv, TypeOK
    <2>2. \A o1 \in Orders : \A p1 \in free'[o1] : <<p1, o1>> \in BlockType
      BY <1>1, <1>2 DEF IInv, TypeOK
    <2>3. splitmap_index(p, o) \in Nat /\ splitmap_index(p, o) < splitmap_bits(o)
      BY <1>1, <1>3, IndexInBounds
    <2>4. split' \in [Orders -> SUBSET Nat]
          /\ \A o1 \in Orders : \A i \in split'[o1] : i < splitmap_bits(o1)
      BY <1>1, <1>2, <2>3 DEF IInv, TypeOK, Toggle
    <2> QED BY <1>2, <1>9, <1>10, <2>1, <2>2, <2>4 DEF IInv, TypeOK
  <1>14. /\ \A o1 \in Orders : \A p1 \in free'[o1] :
             p1 \in free[o1] /\ ~(p1 = q /\ o1 = o)
         /\ \A o1 \in Orders : \A p1 \in free[o1] :
             p1 \in free'[o1] \/ (p1 = q /\ o1 = o)
    BY <1>1, <1>2 DEF IInv, TypeOK
  <1>15. FreeFrames' = FreeFrames \ Block(q, o)
    BY <1>1, <1>8, <1>14, Apart DEF IInv, FreeFrames
  <1>16. HeldFrames' = HeldFrames /\ RangeFrames' = RangeFrames
    BY <1>2 DEF HeldFrames, RangeFrames
  <1>17. Block(q, o) \subseteq FreeFrames
    BY <1>1, <1>8, <1>11 DEF FreeFrames
  <1>18. NoOverlap'
    <2>1. \A o1, o2 \in Orders : \A p1 \in free'[o1], p2 \in free'[o2] : \A f \in Frames :
            f \in Block(p1, o1) /\ f \in Block(p2, o2) => p1 = p2 /\ o1 = o2
      BY <1>14 DEF IInv, NoOverlap
    <2> QED BY <2>1, <1>2, <1>6, <1>12, <1>15, <1>16, <1>17 DEF IInv, NoOverlap
  <1>19. NoLeak'
    BY <1>2, <1>6, <1>12, <1>15, <1>16, <1>17 DEF IInv, NoLeak
  <1>20. SplitmapExact'
    <2> SUFFICES ASSUME NEW o1 \in Orders, o1 < LastOrder, NEW p1 \in Frames, Aligned(p1, o1)
                 PROVE  /\ (splitmap_index(p1, o1) \in split'[o1])
                             <=> (p1 \in free'[o1] \/ buddy_of(p1, o1) \in free'[o1])
                        /\ ~(p1 \in free'[o1] /\ buddy_of(p1, o1) \in free'[o1])
      BY DEF SplitmapExact, is_parent_split
    <2>1. /\ (splitmap_index(p1, o1) \in split[o1])
               <=> (p1 \in free[o1] \/ buddy_of(p1, o1) \in free[o1])
          /\ ~(p1 \in free[o1] /\ buddy_of(p1, o1) \in free[o1])
      BY DEF IInv, SplitmapExact, is_parent_split
    <2>2. CASE o1 # o
      BY <1>2, <2>1, <2>2 DEF IInv, TypeOK
    <2>3. CASE o1 = o /\ splitmap_index(p1, o1) = splitmap_index(p, o)
      <3>1. p1 \in Nat
        BY DEF Frames
      <3>2. p1 = p \/ p1 = q
        BY <1>1, <1>3, <2>3, <3>1, SameIndex DEF q
      <3>3. {p1, buddy_of(p1, o)} = {p, q}
        BY <1>4, <3>2 DEF q
      <3> QED BY <1>1, <1>2, <1>7, <2>3, <3>3, Zenon DEF IInv, TypeOK, is_parent_split, Toggle
    <2>4. CASE o1 = o /\ splitmap_index(p1, o1) # splitmap_index(p, o)
      <3>1. p1 \in Nat
        BY DEF Frames
      <3>2. p1 # q /\ buddy_of(p1, o) # q
        BY <1>1, <1>4, <2>4, <3>1, BuddyGeometry
      <3> QED BY <1>1, <1>2, <2>1, <2>4, <3>2 DEF IInv, TypeOK, Toggle
    <2> QED BY <2>2, <2>3, <2>4
  <1> QED BY <1>2, <1>8, <1>10, <1>13, <1>18, <1>19, <1>20 DEF IInv, p, o, q

\* Putting p on an empty pair of level o and setting the pair's bit, or taking
\* one block off and clearing it, keeps the meaning of the split bits.
LEMMA TogglePair ==
  ASSUME IInv, NEW o \in Orders, o < LastOrder, NEW p \in Frames, Aligned(p, o),
         split' = [split EXCEPT ![o] = Toggle(@, splitmap_index(p, o))],
         \/ /\ p \notin free[o] /\ buddy_of(p, o) \notin free[o]
            /\ free' = [free EXCEPT ![o] = @ \union {p}]
         \/ /\ p \in free[o]
            /\ free' = [free EXCEPT ![o] = @ \ {p}]
  PROVE  SplitmapExact'
  <1>1. p \in Nat
    BY DEF Frames
  <1> DEFINE q == buddy_of(p, o)
  <1>2. q \in Nat /\ Aligned(q, o) /\ buddy_of(q, o) = p /\ p # q
        /\ splitmap_index(q, o) = splitmap_index(p, o)
    BY <1>1, BuddyGeometry, SizeFacts
  <1>3. /\ (splitmap_index(p, o) \in split[o]) <=> (p \in free[o] \/ q \in free[o])
        /\ ~(p \in free[o] /\ q \in free[o])
    BY DEF IInv, SplitmapExact, is_parent_split
  <1> HIDE DEF q
  <1> SUFFICES ASSUME NEW o1 \in Orders, o1 < LastOrder, NEW p1 \in Frames, Aligned(p1, o1)
               PROVE  /\ (splitmap_index(p1, o1) \in split'[o1])
                           <=> (p1 \in free'[o1] \/ buddy_of(p1, o1) \in free'[o1])
                      /\ ~(p1 \in free'[o1] /\ buddy_of(p1, o1) \in free'[o1])
    BY DEF SplitmapExact, is_parent_split
  <1>4. /\ (splitmap_index(p1, o1) \in split[o1])
             <=> (p1 \in free[o1] \/ buddy_of(p1, o1) \in free[o1])
        /\ ~(p1 \in free[o1] /\ buddy_of(p1, o1) \in free[o1])
    BY DEF IInv, SplitmapExact, is_parent_split
  <1>5. p1 \in Nat
    BY DEF Frames
  <1>6. CASE o1 # o
    BY <1>4, <1>6 DEF IInv, TypeOK
  <1>7. CASE o1 = o /\ splitmap_index(p1, o1) = splitmap_index(p, o)
    <2>1. p1 = p \/ p1 = q
      BY <1>1, <1>5, <1>7, SameIndex DEF q
    <2>2. (p1 = p /\ buddy_of(p1, o) = q) \/ (p1 = q /\ buddy_of(p1, o) = p)
      BY <1>2, <2>1 DEF q
    <2> QED BY <1>2, <1>3, <1>7, <2>2 DEF IInv, TypeOK, Toggle, q
  <1>8. CASE o1 = o /\ splitmap_index(p1, o1) # splitmap_index(p, o)
    <2>1. p1 # p /\ buddy_of(p1, o) # p
      BY <1>1, <1>5, <1>8, BuddyGeometry
    <2> QED BY <1>4, <1>8, <2>1 DEF IInv, TypeOK, Toggle
  <1> QED BY <1>6, <1>7, <1>8

\* The split bits of the largest order are never consulted.
LEMMA LastOrderFree ==
  ASSUME IInv, NEW p,
         \/ split' = split
         \/ split' = [split EXCEPT ![LastOrder] = Toggle(@, splitmap_index(p, LastOrder))],
         \/ free' = [free EXCEPT ![LastOrder] = @ \union {p}]
         \/ free' = [free EXCEPT ![LastOrder] = @ \ {p}]
  PROVE  SplitmapExact'
  <1>1. ASSUME NEW o1 \in Orders, o1 < LastOrder
        PROVE  split'[o1] = split[o1] /\ free'[o1] = free[o1]
    <2>1. o1 # LastOrder
      BY <1>1 DEF Orders, LastOrder
    <2> QED BY <2>1 DEF IInv, TypeOK
  <1> QED BY <1>1 DEF IInv, SplitmapExact, is_parent_split

\* Adding a block to, or removing it from, one level keeps the types.
LEMMA LevelTypes ==
  ASSUME IInv, NEW p, NEW o, <<p, o>> \in BlockType,
         \/ split' = split
         \/ split' = [split EXCEPT ![o] = Toggle(@, splitmap_index(p, o))],
         \/ /\ free' = [free EXCEPT ![o] = @ \union {p}]
            /\ free_blocks' = [free_blocks EXCEPT ![o] = @ + 1]
         \/ /\ free' = [free EXCEPT ![o] = @ \ {p}]
            /\ free_blocks' = [free_blocks EXCEPT ![o] = @ - 1]
  PROVE  /\ free' \in [Orders -> SUBSET Frames]
         /\ \A o1 \in Orders : \A p1 \in free'[o1] : <<p1, o1>> \in BlockType
         /\ free_blocks' \in [Orders -> Int]
         /\ split' \in [Orders -> SUBSET Nat]
         /\ \A o1 \in Orders : \A i \in split'[o1] : i < splitmap_bits(o1)
  <1>1. p \in Frames /\ o \in Orders
    BY BlockFacts
  <1>2. splitmap_index(p, o) \in Nat /\ splitmap_index(p, o) < splitmap_bits(o)
    BY <1>1, IndexInBounds
  <1>3. free' \in [Orders -> SUBSET Frames] /\ free_blocks' \in [Orders -> Int]
    BY <1>1 DEF IInv, TypeOK
  <1>4. ASSUME NEW o1 \in Orders, NEW p1 \in free'[o1]
        PROVE  <<p1, o1>> \in BlockType
    <2>1. p1 \in free[o1] \/ (p1 = p /\ o1 = o)
      BY <1>1 DEF IInv, TypeOK
    <2> QED BY <2>1 DEF IInv, TypeOK
  <1>5. split' \in [Orders -> SUBSET Nat]
        /\ \A o1 \in Orders : \A i \in split'[o1] : i < splitmap_bits(o1)
    BY <1>1, <1>2 DEF IInv, TypeOK, Toggle
  <1> QED BY <1>3, <1>4, <1>5

\* A block whose frames are on no list can be pushed: no frame becomes shared.
LEMMA PushApart ==
  ASSUME IInv, NEW p, NEW o, <<p, o>> \in BlockType,
         Block(p, o) \intersect FreeFrames = {},
         free' = [free EXCEPT ![o] = @ \union {p}]
  PROVE  /\ FreeFrames' = FreeFrames \union Block(p, o)
         /\ \A o1, o2 \in Orders : \A p1 \in free'[o1], p2 \in free'[o2] : \A f \in Frames :
              f \in Block(p1, o1) /\ f \in Block(p2, o2) => p1 = p2 /\ o1 = o2
  <1>1. o \in Orders /\ Block(p, o) \subseteq Frames
    BY BlockFacts
  <1>2. /\ \A o1 \in Orders : \A p1 \in free'[o1] : p1 \in free[o1] \/ (p1 = p /\ o1 = o)
        /\ \A o1 \in Orders : \A p1 \in free[o1] : p1 \in free'[o1]
        /\ p \in free'[o]
    BY <1>1 DEF IInv, TypeOK
  <1>3. \A o1 \in Orders : \A p1 \in free[o1] : \A f \in Frames :
          f \in Block(p1, o1) => f \notin Block(p, o)
    BY DEF FreeFrames
  <1>4. FreeFrames' = FreeFrames \union Block(p, o)
    BY <1>1, <1>2 DEF FreeFrames
  <1>5. \A o1, o2 \in Orders : \A p1 \in free'[o1], p2 \in free'[o2] : \A f \in Frames :
          f \in Block(p1, o1) /\ f \in Block(p2, o2) => p1 = p2 /\ o1 = o2
    BY <1>2, <1>3 DEF IInv, NoOverlap
  <1> QED BY <1>4, <1>5

\* deallocate's last step.
LEMMA FinishFreeStep ==
  ASSUME IInv, FinishFree
  PROVE  IInv' /\ op.pfn \notin free[op.order]
  <1> DEFINE p == op.pfn
             o == op.order
  <1>1. /\ <<p, o>> \in BlockType /\ op.kind = "free"
        /\ \/ /\ o < LastOrder /\ splitmap_index(p, o) \notin split[o]
              /\ split' = [split EXCEPT ![o] = Toggle(@, splitmap_index(p, o))]
           \/ o = LastOrder /\ split' = split
        /\ free' = [free EXCEPT ![o] = @ \union {p}]
        /\ free_blocks' = [free_blocks EXCEPT ![o] = @ + 1]
        /\ op' = Idle
        /\ UNCHANGED <<total_pages, range, added, held>>
    BY DEF IInv, TypeOK, FinishFree, push_free, toggle_parent_split, is_parent_split
  <1>2. p \in Frames /\ o \in Orders /\ Aligned(p, o) /\ p \in Block(p, o) /\ Block(p, o) \subseteq Frames
    BY <1>1, BlockFacts
  <1>3. OpFrames = Block(p, o) /\ OpFrames' = {}
    BY <1>1, <1>2 DEF OpFrames, Idle
  <1> HIDE DEF p, o
  <1>4. Block(p, o) \intersect FreeFrames = {}
    BY <1>3 DEF IInv, NoOverlap
  <1>5. FreeFrames' = FreeFrames \union Block(p, o)
        /\ \A o1, o2 \in Orders : \A p1 \in free'[o1], p2 \in free'[o2] : \A f \in Frames :
             f \in Block(p1, o1) /\ f \in Block(p2, o2) => p1 = p2 /\ o1 = o2
    BY <1>1, <1>4, PushApart, Zenon
  <1>6. HeldFrames' = HeldFrames /\ RangeFrames' = RangeFrames
    BY <1>1 DEF HeldFrames, RangeFrames
  <1>7. NoOverlap'
    BY <1>1, <1>3, <1>5, <1>6, Zenon DEF IInv, NoOverlap
  <1>8. NoLeak'
    BY <1>1, <1>3, <1>5, <1>6 DEF IInv, NoLeak
  <1>9. TypeOK'
    <2>1. /\ free' \in [Orders -> SUBSET Frames]
          /\ \A o1 \in Orders : \A p1 \in free'[o1] : <<p1, o1>> \in BlockType
          /\ free_blocks' \in [Orders -> Int]
          /\ split' \in [Orders -> SUBSET Nat]
          /\ \A o1 \in Orders : \A i \in split'[o1] : i < splitmap_bits(o1)
      BY <1>1, LevelTypes, Zenon
    <2>2. Idle \in OpType /\ Idle.kind = "idle"
      BY DEF Idle, OpType, Orders
    <2> QED BY <1>1, <2>1, <2>2, Zenon DEF IInv, TypeOK
  <1>10. SplitmapExact'
    <2>1. CASE o < LastOrder
      <3>1. splitmap_index(p, o) \notin split[o]
        BY <1>1, <2>1 DEF LastOrder, Orders
      <3>2. p \notin free[o] /\ buddy_of(p, o) \notin free[o]
        BY <1>2, <2>1, <3>1 DEF IInv, SplitmapExact, is_parent_split
      <3>3. split' = [split EXCEPT ![o] = Toggle(@, splitmap_index(p, o))]
        BY <1>1, <2>1 DEF LastOrder, Orders
      <3> QED BY <1>1, <1>2, <2>1, <3>2, <3>3, TogglePair, Zenon
    <2>2. CASE o = LastOrder
      <3>1. split' = split
        BY <1>1, <2>2 DEF LastOrder, Orders
      <3> QED BY <1>1, <2>2, <3>1, LastOrderFree, Zenon
    <2> QED BY <1>1, <2>1, <2>2
  <1>11. p \notin free[o]
    BY <1>2, <1>4 DEF FreeFrames
  <1> QED BY <1>1, <1>7, <1>8, <1>9, <1>10, <1>11, Zenon DEF IInv, Idle, p, o

\* allocate's first step: a block leaves its list.
LEMMA AllocateStep ==
  ASSUME IInv, NEW order \in Orders, NEW found \in Orders, NEW pfn \in Frames,
         Allocate(order, found, pfn)
  PROVE  IInv'
  <1>1. /\ op = Idle /\ order <= found /\ pfn \in free[found]
        /\ free' = [free EXCEPT ![found] = @ \ {pfn}]
        /\ free_blocks' = [free_blocks EXCEPT ![found] = @ - 1]
        /\ split' = [split EXCEPT ![found] = Toggle(@, splitmap_index(pfn, found))]
        /\ op' = [kind |-> "alloc", pfn |-> pfn, order |-> order, cur |-> order, found |-> found]
        /\ UNCHANGED <<total_pages, range, added, held>>
    BY DEF Allocate, Unlocked, remove_free, toggle_parent_split
  <1>2. <<pfn, found>> \in BlockType
    BY <1>1 DEF IInv, TypeOK
  <1>3. /\ pfn \in Nat /\ Aligned(pfn, found) /\ Block(pfn, found) \subseteq Frames
        /\ pfn + Size(found) <= MaxPfn /\ Size(found) \in Nat
    BY <1>2, BlockFacts
  <1>4. Size(order) \in Nat /\ Size(order) <= Size(found)
    BY <1>1, SizeMultiple DEF Orders
  <1>5. OpFrames = {} /\ OpFrames' = Block(pfn, found)
    <2>1. OpFrames = {}
      BY <1>1 DEF OpFrames, Idle
    <2>2. OpFrames' = {f \in Frames : f \in Block(pfn, order)
                          \/ (pfn + Size(order) <= f /\ f < pfn + Size(found))}
      BY <1>1 DEF OpFrames
    <2>3. OpFrames' = Block(pfn, found)
      BY <1>3, <1>4, <2>2 DEF Block, Frames
    <2> QED BY <2>1, <2>3
  <1>6. /\ \A o1 \in Orders : \A p1 \in free'[o1] :
             p1 \in free[o1] /\ ~(p1 = pfn /\ o1 = found)
        /\ \A o1 \in Orders : \A p1 \in free[o1] :
             p1 \in free'[o1] \/ (p1 = pfn /\ o1 = found)
    BY <1>1 DEF IInv, TypeOK
  <1>7. FreeFrames' = FreeFrames \ Block(pfn, found) /\ Block(pfn, found) \subseteq FreeFrames
    BY <1>1, <1>3, <1>6, Apart, Zenon DEF IInv, FreeFrames
  <1>8. HeldFrames' = HeldFrames /\ RangeFrames' = RangeFrames
    BY <1>1 DEF HeldFrames, RangeFrames
  <1>9. NoOverlap'
    <2>1. \A o1, o2 \in Orders : \A p1 \in free'[o1], p2 \in free'[o2] : \A f \in Frames :
            f \in Block(p1, o1) /\ f \in Block(p2, o2) => p1 = p2 /\ o1 = o2
      BY <1>6, Zenon DEF IInv, NoOverlap
    <2> QED BY <2>1, <1>1, <1>5, <1>7, <1>8, Zenon DEF IInv, NoOverlap
  <1>10. NoLeak'
    BY <1>1, <1>5, <1>7, <1>8, Zenon DEF IInv, NoLeak
  <1>11. TypeOK'
    <2>1. /\ free' \in [Orders -> SUBSET Frames]
          /\ \A o1 \in Orders : \A p1 \in free'[o1] : <<p1, o1>> \in BlockType
          /\ free_blocks' \in [Orders -> Int]
          /\ split' \in [Orders -> SUBSET Nat]
          /\ \A o1 \in Orders : \A i \in split'[o1] : i < splitmap_bits(o1)
      BY <1>1, <1>2, LevelTypes, Zenon
    <2>2. op' \in OpType /\ op'.kind = "alloc" /\ op'.pfn = pfn /\ op'.found = found
          /\ op'.order <= op'.cur /\ op'.cur <= op'.found
      BY <1>1 DEF OpType, Orders
    <2> QED BY <1>1, <1>2, <2>1, <2>2, Zenon DEF IInv, TypeOK
  <1>12. SplitmapExact'
    <2>1. CASE found < LastOrder
      BY <1>1, <1>3, <2>1, TogglePair, Zenon
    <2>2. CASE found = LastOrder
      BY <1>1, <2>2, LastOrderFree, Zenon
    <2> QED BY <2>1, <2>2 DEF Orders, LastOrder
  <1> QED BY <1>1, <1>9, <1>10, <1>11, <1>12, Zenon DEF IInv

\* One iteration of allocate's splitting loop.  The upper half is the buddy
\* because the block being split is aligned to a larger order.
LEMMA SplitBlockStep ==
  ASSUME IInv, SplitBlock
  PROVE  /\ IInv' /\ ~is_parent_split(op.pfn, op.cur)
         /\ buddy_of(op.pfn, op.cur) \notin free[op.cur]
  <1> DEFINE p == op.pfn
             c == op.cur
             o == op.order
             fo == op.found
             q == buddy_of(p, c)
  <1>1. /\ op \in OpType /\ op.kind = "alloc" /\ <<p, fo>> \in BlockType
        /\ o \in Orders /\ c \in Orders /\ fo \in Orders /\ o <= c /\ c < fo /\ c + 1 \in Orders
    <2>1. op \in OpType /\ o \in Orders /\ c \in Orders /\ fo \in Orders
      BY DEF IInv, TypeOK, OpType
    <2>2. op.kind = "alloc" /\ <<p, fo>> \in BlockType /\ o <= c /\ c < fo
      BY DEF IInv, TypeOK, SplitBlock
    <2> QED BY <2>1, <2>2 DEF Orders
  <1>2. /\ split' = [split EXCEPT ![c] = Toggle(@, splitmap_index(p, c))]
        /\ free' = [free EXCEPT ![c] = @ \union {q}]
        /\ free_blocks' = [free_blocks EXCEPT ![c] = @ + 1]
        /\ op' = [op EXCEPT !.cur = c + 1]
        /\ UNCHANGED <<total_pages, range, added, held>>
    BY DEF SplitBlock, push_free, toggle_parent_split
  <1>3. /\ p \in Frames /\ p \in Nat /\ Aligned(p, fo) /\ p + Size(fo) <= MaxPfn
        /\ Size(fo) \in Nat /\ Block(p, fo) \subseteq Frames
    BY <1>1, BlockFacts
  <1>4. /\ Size(c) \in Nat \ {0} /\ Size(c + 1) = 2 * Size(c)
        /\ Size(c + 1) <= Size(fo) /\ Size(o) \in Nat \ {0} /\ Size(o) <= Size(c)
    <2>1. Size(c) \in Nat \ {0} /\ Size(c + 1) = 2 * Size(c) /\ Size(o) \in Nat \ {0}
      BY <1>1, SizeFacts
    <2>2. fo \in 0 .. OrderCount /\ c + 1 \in 0 .. fo /\ c \in 0 .. OrderCount /\ o \in 0 .. c
      BY <1>1 DEF Orders
    <2> HIDE DEF fo, c, o
    <2>3. Size(o) <= Size(c)
      BY <2>2, SizeMultiple
    <2>4. ASSUME NEW j \in 0 .. fo PROVE Size(j) <= Size(fo)
      BY <2>2, SizeMultiple
    <2> QED BY <2>1, <2>2, <2>3, <2>4
  <1>5. Aligned(p, c) /\ Aligned(p, c + 1)
    <2>1. fo \in 0 .. OrderCount /\ c + 1 \in 0 .. fo /\ c \in 0 .. fo
      BY <1>1 DEF Orders
    <2> HIDE DEF fo, c
    <2>2. ASSUME NEW j \in 0 .. fo PROVE Aligned(p, j)
      BY <1>3, <2>1, AlignedWeaken
    <2> QED BY <2>1, <2>2
  <1>6. q = p + Size(c) /\ q \in Nat /\ Aligned(q, c) /\ buddy_of(q, c) = p
        /\ splitmap_index(q, c) = splitmap_index(p, c)
    <2>1. parent_of(p, c) = p \/ parent_of(p, c) = p - Size(c)
      BY <1>1, <1>3, <1>5, BuddyGeometry
    <2>2. ~Bit(p, c)
      <3> DEFINE D == Size(c + 1)
      <3>a. D \in Nat \ {0} /\ p % D = 0
        BY <1>4, <1>5 DEF Aligned
      <3> HIDE DEF D
      <3>b. PICK k \in Nat : p = k * D
        BY <1>3, <3>a, DivMultiple, Zenon
      <3>1. p = k * Size(c + 1)
        BY <3>b DEF D
      <3> DEFINE S == Size(c)
      <3>2. S \in Nat \ {0} /\ p = (2 * k) * S /\ 2 * k \in Nat
        BY <1>4, <3>1
      <3> HIDE DEF S
      <3>3. ((2 * k) * S) \div S = 2 * k
        BY <3>2, MultipleDiv
      <3>4. (2 * k) % 2 = 0
        OBVIOUS
      <3> QED BY <3>2, <3>3, <3>4 DEF Bit, S
    <2> QED BY <1>1, <1>3, <1>5, <2>2, BuddyGeometry, Zenon
  <1> HIDE DEF p, c, o, fo, q
  <1>7. <<q, c>> \in BlockType
    BY <1>1, <1>3, <1>4, <1>6 DEF BlockType, Frames
  <1>8. /\ OpFrames = {f \in Frames : f \in Block(p, o)
                          \/ (p + Size(c) <= f /\ f < p + Size(fo))}
        /\ op' \in OpType /\ op'.kind = "alloc" /\ op'.pfn = p /\ op'.found = fo
        /\ op'.order = o /\ op'.cur = c + 1
        /\ OpFrames' = {f \in Frames : f \in Block(p, o)
                          \/ (p + Size(c + 1) <= f /\ f < p + Size(fo))}
    <2>1. OpFrames = {f \in Frames : f \in Block(p, o)
                          \/ (p + Size(c) <= f /\ f < p + Size(fo))}
      BY <1>1 DEF OpFrames, p, c, o, fo
    <2>2. op' \in OpType /\ op'.kind = "alloc" /\ op'.pfn = p /\ op'.found = fo
          /\ op'.order = o /\ op'.cur = c + 1
      BY <1>1, <1>2 DEF OpType, p, c, o, fo
    <2> QED BY <2>1, <2>2 DEF OpFrames
  <1>9. Block(q, c) \subseteq OpFrames /\ OpFrames' = OpFrames \ Block(q, c) /\ p \in OpFrames
        /\ q \in OpFrames /\ q \in Block(q, c)
    <2>1. Block(q, c) \subseteq Frames
      BY <1>7, BlockFacts
    <2>2. \A f \in Frames :
            /\ f \in Int
            /\ f \in Block(q, c) <=> p + Size(c) <= f /\ f < p + Size(c + 1)
            /\ f \in Block(p, o) <=> p <= f /\ f < p + Size(o)
      BY <1>3, <1>4, <1>6 DEF Block, Frames
    <2>a. \A f : /\ f \in OpFrames <=> f \in Frames /\
                      (f \in Block(p, o) \/ (p + Size(c) <= f /\ f < p + Size(fo)))
                 /\ f \in OpFrames' <=> f \in Frames /\
                      (f \in Block(p, o) \/ (p + Size(c + 1) <= f /\ f < p + Size(fo)))
      BY <1>8
    <2>b. /\ p + Size(o) <= p + Size(c) /\ p + Size(c) <= p + Size(c + 1)
          /\ p + Size(c + 1) <= p + Size(fo) /\ p + Size(o) \in Int /\ p + Size(c) \in Int
          /\ p + Size(c + 1) \in Int /\ p + Size(fo) \in Int
      BY <1>3, <1>4
    <2>3. Block(q, c) \subseteq OpFrames
      BY <2>1, <2>2, <2>a, <2>b
    <2>4. OpFrames' = OpFrames \ Block(q, c)
      <3>1. ASSUME NEW f \in Frames
            PROVE  f \in OpFrames' <=> f \in OpFrames /\ f \notin Block(q, c)
        BY <2>2, <2>a, <2>b
      <3> QED BY <3>1, <2>a
    <2>5. p \in OpFrames /\ q \in Block(q, c)
      BY <1>3, <1>4, <1>6, <1>8, <2>2 DEF Block
    <2> QED BY <2>3, <2>4, <2>5
  <1>10. Block(q, c) \intersect FreeFrames = {}
    BY <1>9, Zenon DEF IInv, NoOverlap
  <1>11. /\ FreeFrames' = FreeFrames \union Block(q, c)
         /\ \A o1, o2 \in Orders : \A p1 \in free'[o1], p2 \in free'[o2] : \A f \in Frames :
              f \in Block(p1, o1) /\ f \in Block(p2, o2) => p1 = p2 /\ o1 = o2
    BY <1>2, <1>7, <1>10, PushApart, Zenon
  <1>12. HeldFrames' = HeldFrames /\ RangeFrames' = RangeFrames
    BY <1>2 DEF HeldFrames, RangeFrames
  <1>13. NoOverlap'
    BY <1>2, <1>9, <1>11, <1>12, Zenon DEF IInv, NoOverlap
  <1>14. NoLeak'
    BY <1>2, <1>9, <1>11, <1>12 DEF IInv, NoLeak
  <1>15. c < LastOrder /\ q \in Frames
    BY <1>1, <1>7 DEF Orders, LastOrder, BlockType
  <1>16. p \notin free[c] /\ q \notin free[c]
    <2>1. ASSUME NEW x \in Frames, x \in OpFrames PROVE x \notin free[c]
      <3>1. x \notin FreeFrames
        BY <2>1 DEF IInv, NoOverlap
      <3>2. x \in Nat /\ x \in Block(x, c)
        BY <1>4 DEF Block, Frames
      <3> QED BY <1>1, <3>1, <3>2 DEF FreeFrames
    <2> QED BY <1>3, <1>9, <1>15, <2>1
  <1>17. SplitmapExact'
    BY <1>1, <1>2, <1>6, <1>15, <1>16, TogglePair, Zenon
  <1>18. ~is_parent_split(p, c)
    BY <1>1, <1>3, <1>5, <1>15, <1>16, Zenon DEF IInv, SplitmapExact, q
  <1>19. TypeOK'
    <2>1. /\ free' \in [Orders -> SUBSET Frames]
          /\ \A o1 \in Orders : \A p1 \in free'[o1] : <<p1, o1>> \in BlockType
          /\ free_blocks' \in [Orders -> Int]
          /\ split' \in [Orders -> SUBSET Nat]
          /\ \A o1 \in Orders : \A i \in split'[o1] : i < splitmap_bits(o1)
      BY <1>2, <1>6, <1>7, LevelTypes, Zenon
    <2>2. o <= c + 1 /\ c + 1 <= fo
      BY <1>1 DEF Orders
    <2> QED BY <1>1, <1>2, <1>8, <2>1, <2>2, Zenon DEF IInv, TypeOK
  <1> QED BY <1>2, <1>8, <1>13, <1>14, <1>16, <1>17, <1>18, <1>19, Zenon DEF IInv, p, c, q

\* allocate returns: its block becomes the caller's.
LEMMA ReturnBlockStep ==
  ASSUME IInv, ReturnBlock
  PROVE  /\ IInv' /\ HeldFrames' = HeldFrames \union Block(op.pfn, op.order)
         /\ <<op.pfn, op.order>> \in BlockType
         /\ Block(op.pfn, op.order) \intersect HeldFrames = {}
         /\ Block(op.pfn, op.order) \subseteq added
  <1> DEFINE p == op.pfn
             o == op.order
             b == <<p, o>>
  <1>1. /\ <<p, op.found>> \in BlockType /\ o \in Orders /\ op.found \in Orders
        /\ o <= op.found /\ op.cur = op.found /\ op.kind = "alloc"
        /\ op' = Idle /\ held' = held \union {b}
        /\ UNCHANGED <<free, free_blocks, split, total_pages, range, added>>
    <2>1. o \in Orders /\ op.found \in Orders
      BY DEF IInv, TypeOK, OpType
    <2> QED BY <2>1 DEF IInv, TypeOK, ReturnBlock
  <1>2. p \in Frames /\ p \in Nat /\ Aligned(p, op.found) /\ p + Size(op.found) <= MaxPfn
        /\ Size(op.found) \in Nat
    BY <1>1, BlockFacts
  <1>3. b \in BlockType
    <2>1. op.found \in 0 .. OrderCount /\ o \in 0 .. op.found
      BY <1>1 DEF Orders
    <2>2. Aligned(p, o) /\ Size(o) <= Size(op.found) /\ Size(o) \in Nat
      BY <1>2, <2>1, AlignedWeaken, SizeMultiple, Zenon
    <2>3. p + Size(o) <= MaxPfn
      BY <1>2, <2>2
    <2> QED BY <1>1, <1>2, <2>2, <2>3 DEF BlockType
  <1>4. p \in Block(p, o) /\ Block(p, o) \subseteq Frames
    BY <1>3, BlockFacts
  <1>5. OpFrames = Block(p, o) /\ OpFrames' = {}
    <2>1. \A f \in Frames : ~(p + Size(op.found) <= f /\ f < p + Size(op.found))
      BY <1>2 DEF Frames
    <2>2. OpFrames = {f \in Frames : f \in Block(p, o)
                        \/ (p + Size(op.found) <= f /\ f < p + Size(op.found))}
      BY <1>1 DEF OpFrames
    <2>3. OpFrames' = {}
      BY <1>1 DEF OpFrames, Idle
    <2> QED BY <1>4, <2>1, <2>2, <2>3
  <1>6. FreeFrames' = FreeFrames /\ RangeFrames' = RangeFrames
    BY <1>1 DEF FreeFrames, RangeFrames
  <1>7. HeldFrames' = HeldFrames \union Block(p, o)
    <2>1. b[1] = p /\ b[2] = o
      OBVIOUS
    <2> HIDE DEF b, p, o
    <2> QED BY <1>1, <1>4, <2>1 DEF HeldFrames
  <1>8. NoOverlap'
    <2>1. \A c \in held : \A f \in Frames : f \in Block(c[1], c[2]) => f \notin Block(p, o)
      BY <1>5, Zenon DEF IInv, NoOverlap, HeldFrames
    <2>2. b[1] = p /\ b[2] = o
      OBVIOUS
    <2> HIDE DEF b, p, o
    <2>3. \A c, d \in held' : \A f \in Frames :
            f \in Block(c[1], c[2]) /\ f \in Block(d[1], d[2]) => c = d
      BY <1>1, <2>1, <2>2, SMTT(30) DEF IInv, NoOverlap
    <2> QED BY <1>1, <1>5, <1>6, <1>7, <2>3, Zenon DEF IInv, NoOverlap
  <1>9. NoLeak'
    BY <1>1, <1>5, <1>6, <1>7 DEF IInv, NoLeak
  <1>10. TypeOK'
    <2>1. Idle \in OpType /\ Idle.kind = "idle"
      BY DEF Idle, OpType, Orders
    <2>2. held' \subseteq BlockType
      BY <1>1, <1>3 DEF IInv, TypeOK
    <2> QED BY <1>1, <2>1, <2>2, Zenon DEF IInv, TypeOK
  <1>11. SplitmapExact'
    BY <1>1, Zenon DEF IInv, SplitmapExact, is_parent_split
  <1>12. Block(p, o) \intersect HeldFrames = {} /\ Block(p, o) \subseteq added
    BY <1>5, Zenon DEF IInv, NoOverlap, NoLeak
  <1> QED BY <1>1, <1>3, <1>7, <1>8, <1>9, <1>10, <1>11, <1>12, Zenon DEF IInv

\* deallocate starts: the caller's block is in its hands.
LEMMA DeallocateStep ==
  ASSUME IInv, NEW pfn \in Frames, NEW order \in Orders, Deallocate(pfn, order)
  PROVE  /\ IInv' /\ HeldFrames' = HeldFrames \ Block(pfn, order)
         /\ Block(pfn, order) \subseteq HeldFrames
  <1> DEFINE b == <<pfn, order>>
  <1>1. /\ op = Idle /\ b \in held /\ held' = held \ {b}
        /\ op' = Freeing(pfn, order)
        /\ UNCHANGED <<free, free_blocks, split, total_pages, range, added>>
    BY DEF Deallocate, Unlocked
  <1>2. b \in BlockType /\ b[1] = pfn /\ b[2] = order
    BY <1>1, Zenon DEF IInv, TypeOK
  <1>3. pfn \in Block(pfn, order) /\ Block(pfn, order) \subseteq Frames
    BY <1>2, BlockFacts
  <1>4. op' \in OpType /\ op'.kind = "free" /\ op'.pfn = pfn /\ op'.order = order
    BY <1>1 DEF Freeing, OpType, Orders
  <1>5. OpFrames = {} /\ OpFrames' = Block(pfn, order)
    <2>1. OpFrames = {}
      BY <1>1 DEF OpFrames, Idle
    <2>2. OpFrames' = {f \in Frames : f \in Block(pfn, order)}
      BY <1>4 DEF OpFrames
    <2> QED BY <1>3, <2>1, <2>2
  <1>6. FreeFrames' = FreeFrames /\ RangeFrames' = RangeFrames
    BY <1>1 DEF FreeFrames, RangeFrames
  <1> HIDE DEF b
  <1>7. \A c \in held : c # b => \A f \in Frames : f \in Block(c[1], c[2]) => f \notin Block(pfn, order)
    BY <1>1, <1>2, Zenon DEF IInv, NoOverlap
  <1>8. HeldFrames' = HeldFrames \ Block(pfn, order) /\ Block(pfn, order) \subseteq HeldFrames
    BY <1>1, <1>2, <1>3, <1>7 DEF HeldFrames
  <1>9. NoOverlap'
    BY <1>1, <1>5, <1>6, <1>8, Zenon DEF IInv, NoOverlap
  <1>10. NoLeak'
    BY <1>1, <1>5, <1>6, <1>8, Zenon DEF IInv, NoLeak
  <1>11. TypeOK'
    BY <1>1, <1>2, <1>4, Zenon DEF IInv, TypeOK, b
  <1>12. SplitmapExact'
    BY <1>1, Zenon DEF IInv, SplitmapExact, is_parent_split
  <1> QED BY <1>1, <1>4, <1>8, <1>9, <1>10, <1>11, <1>12, Zenon DEF IInv

\* add_free_range starts.
LEMMA AddFreeRangeStep ==
  ASSUME IInv, NEW start \in 0 .. MaxPfn, NEW end \in 0 .. MaxPfn, start <= end,
         AddFreeRange(start, end)
  PROVE  IInv'
  <1>1. /\ op = Idle /\ ~range.active /\ start .. end - 1 \intersect added = {}
        /\ range' = [active |-> TRUE, start |-> start, end |-> end, size |-> end - start]
        /\ added' = added \union start .. end - 1
        /\ UNCHANGED <<free, free_blocks, split, total_pages, op, held>>
    BY DEF AddFreeRange, Unlocked
  <1>2. RangeFrames = {} /\ RangeFrames' = start .. end - 1
    BY <1>1 DEF IInv, RangeFrames, NoRange
  <1>3. FreeFrames' = FreeFrames /\ HeldFrames' = HeldFrames /\ OpFrames' = OpFrames
    BY <1>1 DEF FreeFrames, HeldFrames, OpFrames
  <1>4. NoOverlap'
    BY <1>1, <1>2, <1>3, Zenon DEF IInv, NoOverlap, NoLeak
  <1>5. NoLeak'
    BY <1>1, <1>2, <1>3 DEF IInv, NoLeak
  <1>6. TypeOK'
    <2>1. start .. end - 1 \subseteq Frames
      BY DEF Frames
    <2>2. range' \in [active : BOOLEAN, start : 0 .. MaxPfn, end : 0 .. MaxPfn, size : 0 .. MaxPfn]
          /\ range'.start <= range'.end
      BY <1>1
    <2> QED BY <1>1, <2>1, <2>2, Zenon DEF IInv, TypeOK
  <1>7. SplitmapExact'
    BY <1>1, Zenon DEF IInv, SplitmapExact, is_parent_split
  <1> QED BY <1>1, <1>4, <1>5, <1>6, <1>7 DEF IInv

\* add_free_range hands one aligned block to deallocate.
LEMMA FreeRangeBlockStep ==
  ASSUME IInv, NEW order \in Orders, FreeRangeBlock(order)
  PROVE  IInv'
  <1> DEFINE s == range.start
             e == range.end
  <1>1. /\ op = Idle /\ range.active /\ s < e
        /\ Aligned(s, order) /\ Size(order) <= e - s
        /\ op' = Freeing(s, order)
        /\ range' = [range EXCEPT !.start = s + Size(order)]
        /\ UNCHANGED <<free, free_blocks, split, total_pages, added, held>>
    BY DEF FreeRangeBlock, BlockFits
  <1>2. /\ range \in [active : BOOLEAN, start : 0 .. MaxPfn, end : 0 .. MaxPfn, size : 0 .. MaxPfn]
        /\ s \in 0 .. MaxPfn /\ e \in 0 .. MaxPfn /\ Size(order) \in Nat \ {0}
    BY SizeFacts, Zenon DEF IInv, TypeOK
  <1>3. /\ range' \in [active : BOOLEAN, start : 0 .. MaxPfn, end : 0 .. MaxPfn, size : 0 .. MaxPfn]
        /\ range'.start = s + Size(order) /\ range'.end = e /\ range'.start <= e /\ range'.active
    BY <1>1, <1>2
  <1>4. <<s, order>> \in BlockType
    BY <1>1, <1>2 DEF BlockType, Frames
  <1>5. op' \in OpType /\ op'.kind = "free" /\ op'.pfn = s /\ op'.order = order
    BY <1>1, <1>2 DEF Freeing, OpType, Orders, Frames
  <1>6. Block(s, order) \subseteq Frames
    BY <1>4, BlockFacts
  <1> HIDE DEF s, e
  <1>7. OpFrames = {} /\ OpFrames' = Block(s, order)
    <2>1. OpFrames = {}
      BY <1>1 DEF OpFrames, Idle
    <2>2. OpFrames' = {f \in Frames : f \in Block(s, order)}
      BY <1>5 DEF OpFrames
    <2> QED BY <1>6, <2>1, <2>2
  <1>8. RangeFrames' = RangeFrames \ Block(s, order) /\ Block(s, order) \subseteq RangeFrames
    <2>1. RangeFrames = s .. e - 1 /\ RangeFrames' = s + Size(order) .. e - 1
      BY <1>3 DEF RangeFrames, s, e
    <2> QED BY <1>1, <1>2, <2>1, SMTT(30) DEF Block
  <1>9. FreeFrames' = FreeFrames /\ HeldFrames' = HeldFrames
    BY <1>1 DEF FreeFrames, HeldFrames
  <1>10. NoOverlap'
    BY <1>1, <1>7, <1>8, <1>9, Zenon DEF IInv, NoOverlap
  <1>11. NoLeak'
    BY <1>1, <1>7, <1>8, <1>9 DEF IInv, NoLeak
  <1>12. TypeOK'
    BY <1>1, <1>3, <1>4, <1>5, Zenon DEF IInv, TypeOK
  <1>13. SplitmapExact'
    BY <1>1 DEF IInv, SplitmapExact, is_parent_split
  <1> QED BY <1>3, <1>5, <1>10, <1>11, <1>12, <1>13, Zenon DEF IInv

\* add_free_range ends.
LEMMA FinishRangeStep ==
  ASSUME IInv, FinishRange
  PROVE  IInv'
  <1>1. /\ op = Idle /\ range.start >= range.end
        /\ total_pages' = total_pages + range.size /\ range' = NoRange
        /\ UNCHANGED <<free, free_blocks, split, op, added, held>>
    BY DEF FinishRange
  <1>2. RangeFrames = {} /\ RangeFrames' = {}
    BY <1>1 DEF IInv, TypeOK, RangeFrames, NoRange
  <1>3. FreeFrames' = FreeFrames /\ HeldFrames' = HeldFrames /\ OpFrames' = OpFrames
    BY <1>1, Zenon DEF FreeFrames, HeldFrames, OpFrames
  <1>4. NoOverlap'
    BY <1>1, <1>2, <1>3, Zenon DEF IInv, NoOverlap
  <1>5. NoLeak'
    BY <1>1, <1>2, <1>3 DEF IInv, NoLeak
  <1>6. TypeOK'
    BY <1>1 DEF IInv, TypeOK, NoRange
  <1>7. SplitmapExact'
    BY <1>1, Zenon DEF IInv, SplitmapExact, is_parent_split
  <1> QED BY <1>1, <1>4, <1>5, <1>6, <1>7 DEF IInv

-----------------------------------------------------------------------------
(***************************************************************************)
(* The theorems.                                                           *)
(***************************************************************************)

\* An empty allocator satisfies the invariant.
LEMMA InitInv == Init => IInv
  <1> SUFFICES ASSUME Init PROVE IInv
    OBVIOUS
  <1>1. FreeFrames = {} /\ HeldFrames = {} /\ OpFrames = {} /\ RangeFrames = {}
    BY DEF Init, FreeFrames, HeldFrames, OpFrames, RangeFrames, Idle, NoRange
  <1>2. TypeOK
    BY DEF Init, TypeOK, Idle, NoRange, OpType, Orders
  <1>3. NoOverlap /\ NoLeak
    BY <1>1 DEF Init, NoOverlap, NoLeak
  <1>4. SplitmapExact
    BY DEF Init, SplitmapExact, is_parent_split
  <1> QED BY <1>2, <1>3, <1>4 DEF IInv, Init, NoRange

\* Every step of the allocator preserves the invariant.
LEMMA NextInv == IInv /\ [Next]_vars => IInv'
  <1> SUFFICES ASSUME IInv, [Next]_vars PROVE IInv'
    OBVIOUS
  <1>1. CASE \E order, found \in Orders : \E pfn \in Frames : Allocate(order, found, pfn)
    BY <1>1, AllocateStep
  <1>2. CASE \E pfn \in Frames, order \in Orders : Deallocate(pfn, order)
    BY <1>2, DeallocateStep
  <1>3. CASE \E start, end \in 0 .. MaxPfn : start <= end /\ AddFreeRange(start, end)
    BY <1>3, AddFreeRangeStep
  <1>4. CASE SplitBlock
    BY <1>4, SplitBlockStep
  <1>5. CASE ReturnBlock
    BY <1>5, ReturnBlockStep
  <1>6. CASE MergeBuddy
    BY <1>6, MergeBuddyStep
  <1>7. CASE FinishFree
    BY <1>7, FinishFreeStep
  <1>8. CASE \E order \in Orders : FreeRangeBlock(order)
    BY <1>8, FreeRangeBlockStep
  <1>9. CASE FinishRange
    BY <1>9, FinishRangeStep
  <1>10. CASE UNCHANGED vars
    BY <1>10, Zenon DEF vars, IInv, TypeOK, NoOverlap, NoLeak, SplitmapExact, is_parent_split,
                 FreeFrames, HeldFrames, OpFrames, RangeFrames
  <1> QED BY <1>1, <1>2, <1>3, <1>4, <1>5, <1>6, <1>7, <1>8, <1>9, <1>10, Zenon DEF Next, Continue

\* The inductive invariant holds in every state of mm::pmm.
THEOREM Invariance == Spec => []IInv
  BY InitInv, NextInv, PTL DEF Spec

\* Blocks are aligned and below max_pfn, and no splitmap access is out of bounds.
THEOREM TypeCorrect == Spec => []TypeOK
  <1>1. IInv => TypeOK
    BY DEF IInv
  <1> QED BY <1>1, Invariance, PTL

\* No frame is ever given out twice, or given out while it is on a free list.
THEOREM FramesExclusive == Spec => []NoOverlap
  <1>1. IInv => NoOverlap
    BY DEF IInv
  <1> QED BY <1>1, Invariance, PTL

\* No frame added to the allocator is ever lost.
THEOREM FramesConserved == Spec => []NoLeak
  <1>1. IInv => NoLeak
    BY DEF IInv
  <1> QED BY <1>1, Invariance, PTL

\* A splitmap bit says that exactly one buddy of the pair is on the level's list.
THEOREM SplitmapMeaning == Spec => []SplitmapExact
  <1>1. IInv => SplitmapExact
    BY DEF IInv
  <1> QED BY <1>1, Invariance, PTL

\* The unlinking deallocate does without looking is always of a linked block.
THEOREM MergeIsSafe == Spec => []MergedBuddyIsFree
  <1>1. ASSUME IInv, op.kind = "free", op.order < LastOrder, is_parent_split(op.pfn, op.order)
        PROVE  buddy_of(op.pfn, op.order) \in free[op.order]
    <2> DEFINE p == op.pfn
               o == op.order
    <2>1. <<p, o>> \in BlockType
      BY <1>1, Zenon DEF IInv, TypeOK
    <2>2. p \in Frames /\ o \in Orders /\ Aligned(p, o) /\ p \in Block(p, o)
      BY <2>1, BlockFacts
    <2>3. p \in OpFrames
      BY <1>1, <2>2 DEF OpFrames
    <2>4. p \notin free[o]
      BY <1>1, <2>2, <2>3, Apart, Zenon DEF IInv
    <2> QED BY <1>1, <2>2, <2>4, Zenon DEF IInv, SplitmapExact
  <1>2. IInv => MergedBuddyIsFree
    BY <1>1 DEF MergedBuddyIsFree
  <1> QED BY <1>2, Invariance, PTL

\* Adding one block to a level's list, or taking one off, moves its counter by one.
LEMMA CountStep ==
  ASSUME IInv, CountersExact, NEW p, NEW o \in Orders,
         \/ /\ p \notin free[o]
            /\ free' = [free EXCEPT ![o] = @ \union {p}]
            /\ free_blocks' = [free_blocks EXCEPT ![o] = @ + 1]
         \/ /\ p \in free[o]
            /\ free' = [free EXCEPT ![o] = @ \ {p}]
            /\ free_blocks' = [free_blocks EXCEPT ![o] = @ - 1]
  PROVE  CountersExact'
  <1>1. IsFiniteSet(Frames)
    BY FS_Interval DEF Frames
  <1>2. free[o] \in SUBSET Frames
    BY Zenon DEF IInv, TypeOK
  <1>3. IsFiniteSet(free[o])
    BY <1>1, <1>2, FS_Subset
  <1>4. p \notin free[o] => Cardinality(free[o] \union {p}) = Cardinality(free[o]) + 1
    BY <1>3, FS_AddElement, Zenon
  <1>5. p \in free[o] => Cardinality(free[o] \ {p}) = Cardinality(free[o]) - 1
    BY <1>3, FS_RemoveElement, Zenon
  <1>6. ASSUME NEW o1 \in Orders PROVE free_blocks'[o1] = Cardinality(free'[o1])
    <2>1. CASE o1 = o
      BY <1>4, <1>5, <2>1, Zenon DEF IInv, TypeOK, CountersExact
    <2>2. CASE o1 # o
      BY <2>2, Zenon DEF IInv, TypeOK, CountersExact
    <2> QED BY <2>1, <2>2
  <1> QED BY <1>6 DEF CountersExact

\* free_blocks is the length of its list in every state.
THEOREM CountersCorrect == Spec => []CountersExact
  <1>1. Init => CountersExact
    BY FS_EmptySet DEF Init, CountersExact
  <1>2. IInv /\ CountersExact /\ [Next]_vars => CountersExact'
    <2> SUFFICES ASSUME IInv, CountersExact, [Next]_vars PROVE CountersExact'
      OBVIOUS
    <2>1. op.order \in Orders /\ op.cur \in Orders
      BY DEF IInv, TypeOK, OpType
    <2>2. ASSUME NEW order \in Orders, NEW found \in Orders, NEW pfn \in Frames,
                 Allocate(order, found, pfn)
          PROVE  CountersExact'
      BY <2>2, CountStep, Zenon DEF Allocate, remove_free
    <2>3. CASE SplitBlock
      BY <2>1, <2>3, SplitBlockStep, CountStep, Zenon DEF SplitBlock, push_free
    <2>4. CASE MergeBuddy
      BY <2>1, <2>4, MergeBuddyStep, CountStep, Zenon DEF MergeBuddy, remove_free
    <2>5. CASE FinishFree
      BY <2>1, <2>5, FinishFreeStep, CountStep, Zenon DEF FinishFree, push_free
    <2>6. CASE UNCHANGED <<free, free_blocks>>
      BY <2>6 DEF CountersExact
    <2> QED
      BY <2>2, <2>3, <2>4, <2>5, <2>6, Zenon
      DEF Next, Continue, vars, Deallocate, AddFreeRange, ReturnBlock, FreeRangeBlock, FinishRange
  <1> QED BY <1>1, <1>2, Invariance, PTL DEF Spec

\* mm::pmm implements FrameAllocator.  allocate takes effect when it returns,
\* deallocate and add_free_range when they are called; every other step of the
\* loops changes nothing a caller sees.
THEOREM Refinement == Spec => ImplementsFrameAllocator
  <1>1. Init => FA!Init
    BY DEF Init, FA!Init, HeldFrames
  <1>2. IInv /\ [Next]_vars => [FA!Next]_FA!vars
    <2> SUFFICES ASSUME IInv, [Next]_vars PROVE [FA!Next]_FA!vars
      OBVIOUS
    <2>1. ASSUME NEW pfn \in Frames, NEW order \in Orders, Deallocate(pfn, order)
          PROVE  FA!Next
      <3>1. HeldFrames' = HeldFrames \ Block(pfn, order) /\ Block(pfn, order) \subseteq HeldFrames
        BY <2>1, DeallocateStep
      <3>2. HeldFrames \subseteq added
        BY DEF IInv, NoLeak
      <3>3. FA!deallocate(pfn, order)
        BY <2>1, <3>1, <3>2 DEF FA!deallocate, FA!Block, Deallocate, Block, Size
      <3> QED BY <3>3 DEF FA!Next, FA!Frames, FA!Orders, Frames, Orders
    <2>2. CASE ReturnBlock
      <3>1. /\ HeldFrames' = HeldFrames \union Block(op.pfn, op.order)
            /\ <<op.pfn, op.order>> \in BlockType
            /\ Block(op.pfn, op.order) \intersect HeldFrames = {}
            /\ Block(op.pfn, op.order) \subseteq added
        BY <2>2, ReturnBlockStep
      <3>2. op.pfn \in Frames /\ op.order \in Orders /\ Aligned(op.pfn, op.order)
        BY <3>1, BlockFacts
      <3>3. FA!allocate(op.pfn, op.order)
        BY <2>2, <3>1, <3>2, Zenon DEF FA!allocate, FA!Block, ReturnBlock, Block, Size, Aligned
      <3> QED BY <3>2, <3>3 DEF FA!Next, FA!Frames, FA!Orders, Frames, Orders
    <2>3. ASSUME NEW start \in 0 .. MaxPfn, NEW end \in 0 .. MaxPfn, start <= end,
                 AddFreeRange(start, end)
          PROVE  FA!Next
      <3>1. HeldFrames' = HeldFrames
        BY <2>3, Zenon DEF AddFreeRange, HeldFrames
      <3>2. HeldFrames \subseteq added
        BY DEF IInv, NoLeak
      <3>3. FA!HeldFrames = HeldFrames
        BY DEF FA!HeldFrames, FA!Frames, FA!Block, HeldFrames, Frames, Block, Size
      <3>4. FA!add_free_range(start, end)
        BY <2>3, <3>1, <3>2, <3>3, Zenon DEF FA!add_free_range, AddFreeRange
      <3> QED BY <3>4 DEF FA!Next
    <2>4. CASE UNCHANGED <<added, held>>
      BY <2>4 DEF FA!vars, HeldFrames
    <2> QED
      BY <2>1, <2>2, <2>3, <2>4
      DEF Next, Continue, vars, Allocate, SplitBlock, MergeBuddy, FinishFree, FreeRangeBlock,
          FinishRange
  <1> QED BY <1>1, <1>2, Invariance, PTL DEF Spec, ImplementsFrameAllocator, FA!Spec

\* Every non-empty set of naturals has a least element.
LEMMA NatMin ==
  ASSUME NEW T, T \subseteq Nat, T # {}
  PROVE  \E x \in T : \A y \in T : x <= y
  <1> DEFINE R == OpToRel(<, Nat)
  <1>1. IsWellFoundedOn(R, Nat)
    BY NatLessThanWellFounded
  <1>2. \A x, y \in Nat : y < x => <<y, x>> \in R
    BY DEF OpToRel
  <1> HIDE DEF R
  <1>3. PICK x \in T : \A y \in T : ~ (<<y, x>> \in R)
    BY <1>1, WFMin, Zenon
  <1>4. ASSUME NEW y \in T PROVE x <= y
    <2>1. x \in Nat /\ y \in Nat
      OBVIOUS
    <2>2. ~(y < x)
      BY <1>2, <1>3, <2>1, Zenon
    <2> QED BY <2>1, <2>2
  <1> QED BY <1>4

\* Multiplication by a positive number keeps and reflects the order.
LEMMA MulOrder ==
  ASSUME NEW S \in Nat \ {0}, NEW x \in Nat, NEW y \in Nat
  PROVE  /\ x * S < y * S => x + 1 <= y
         /\ x <= y => x * S <= y * S
  OBVIOUS

\* Two aligned blocks that share a frame are nested.
LEMMA Nested ==
  ASSUME NEW i \in 0 .. OrderCount, NEW j \in 0 .. i, NEW p \in Nat, NEW q \in Nat,
         Aligned(p, i), Aligned(q, j), NEW f, f \in Block(p, i), f \in Block(q, j)
  PROVE  p <= q /\ q + Size(j) <= p + Size(i)
  <1>1. Size(i) \in Nat \ {0} /\ Size(j) \in Nat \ {0}
    BY PowersAssumption DEF Size
  <1> DEFINE S == Size(j)
  <1>2. PICK k \in Nat \ {0} : Size(i) = k * S
    BY SizeMultiple
  <1>3. PICK a \in Nat : p = a * Size(i)
    BY <1>1, DivMultiple, Zenon DEF Aligned
  <1>4. PICK c \in Nat : q = c * S
    BY <1>1, DivMultiple, Zenon DEF Aligned
  <1>5. f \in Int /\ p <= f /\ f < p + Size(i) /\ q <= f /\ f < q + S
    BY <1>1 DEF Block
  <1> HIDE DEF S
  <1>6. S \in Nat \ {0}
    BY <1>1 DEF S
  <1> DEFINE ak == a * k
  <1>7. p = ak * S /\ ak \in Nat /\ p + Size(i) = (ak + k) * S /\ q + S = (c + 1) * S
    BY <1>2, <1>3, <1>4, <1>6
  <1> HIDE DEF ak
  <1>8. c * S < (ak + k) * S /\ ak * S < (c + 1) * S
    BY <1>1, <1>4, <1>5, <1>6, <1>7
  <1>9. c + 1 <= ak + k
    BY <1>6, <1>7, <1>8, MulOrder
  <1>10. ak + 1 <= c + 1
    BY <1>6, <1>7, <1>8, MulOrder
  <1>11. (c + 1) * S <= (ak + k) * S
    BY <1>6, <1>7, <1>9, MulOrder
  <1>12. ak * S <= c * S
    BY <1>6, <1>7, <1>10, MulOrder
  <1> QED BY <1>4, <1>7, <1>11, <1>12, Zenon DEF S

\* allocate gives up only when no aligned run of the size exists: in a run that
\* is wholly free, the smallest free block inside it has a free buddy or overlaps
\* a larger free block, and the allocator allows neither.
THEOREM AllocateComplete == Spec => []NoSpuriousFailure
  <1>1. ASSUME IInv, NEW B, NEW n, <<B, n>> \in BlockType, Block(B, n) \subseteq FreeFrames,
               \A o \in n .. LastOrder : free[o] = {}
        PROVE  FALSE
    <2>1. /\ B \in Nat /\ n \in Orders /\ Aligned(B, n) /\ B \in Block(B, n)
          /\ Block(B, n) \subseteq Frames /\ Size(n) \in Nat
      BY <1>1, BlockFacts, Zenon
    <2>2. ASSUME NEW f \in Block(B, n)
          PROVE  \E o \in Orders : \E p \in free[o] : f \in Block(p, o) /\ o < n /\ p \in Block(B, n)
      <3>1. PICK o \in Orders : \E p \in free[o] : f \in Block(p, o)
        BY <1>1, <2>2, Zenon DEF FreeFrames
      <3>2. PICK p \in free[o] : f \in Block(p, o)
        BY <3>1
      <3>3. o < n
        BY <1>1, <2>1, <3>2 DEF Orders, LastOrder
      <3>4. <<p, o>> \in BlockType
        BY <1>1, Zenon DEF IInv, TypeOK
      <3>5. p \in Nat /\ Aligned(p, o) /\ Size(o) \in Nat \ {0}
        BY <3>4, BlockFacts, Zenon
      <3>6. n \in 0 .. OrderCount /\ o \in 0 .. n
        BY <2>1, <3>3 DEF Orders
      <3>7. B <= p /\ p + Size(o) <= B + Size(n)
        BY <2>1, <3>2, <3>5, <3>6, Nested, Zenon
      <3>8. p \in Block(B, n)
        BY <2>1, <3>5, <3>7 DEF Block
      <3> QED BY <3>2, <3>3, <3>8, Zenon
    <2> DEFINE T == {o \in Orders : o < n /\ \E p \in free[o] : p \in Block(B, n)}
    <2>3. T \subseteq Nat /\ T # {}
      BY <2>1, <2>2 DEF Orders
    <2>4. PICK m \in T : \A y \in T : m <= y
      BY <2>3, NatMin, Zenon
    <2>5. PICK p \in free[m] : p \in Block(B, n)
      BY <2>4, Zenon
    <2>6. m \in Orders /\ m < n /\ m < LastOrder /\ m + 1 \in 0 .. n /\ n \in 0 .. OrderCount
      BY <2>1, <2>4 DEF Orders, LastOrder
    <2>7. <<p, m>> \in BlockType
      BY <1>1, <2>6, Zenon DEF IInv, TypeOK
    <2>8. p \in Frames /\ p \in Nat /\ Aligned(p, m) /\ p \in Block(p, m)
          /\ Size(m) \in Nat \ {0} /\ Size(m + 1) = 2 * Size(m)
      BY <2>6, <2>7, BlockFacts, SizeFacts, Zenon
    <2> DEFINE q == buddy_of(p, m)
               r == parent_of(p, m)
    <2>9. /\ q \in Nat /\ r \in Nat /\ Aligned(q, m) /\ Aligned(r, m + 1)
          /\ (q = p + Size(m) /\ r = p) \/ (q = p - Size(m) /\ r = p - Size(m))
      BY <2>6, <2>8, BuddyGeometry, Zenon
    <2> HIDE DEF q, r, T
    <2>10. p \in Block(r, m + 1) /\ q \in Block(r, m + 1) /\ q \in Block(q, m)
      BY <2>8, <2>9 DEF Block
    <2>11. B <= r /\ r + Size(m + 1) <= B + Size(n)
      <3>1. ASSUME NEW j \in 0 .. n, j = m + 1 PROVE B <= r /\ r + Size(j) <= B + Size(n)
        BY <2>1, <2>5, <2>6, <2>9, <2>10, <3>1, Nested, Zenon
      <3> QED BY <2>6, <3>1
    <2>12. q \in Block(B, n)
      BY <2>1, <2>8, <2>9, <2>11 DEF Block
    <2>13. PICK o2 \in Orders : \E p2 \in free[o2] :
              q \in Block(p2, o2) /\ o2 < n /\ p2 \in Block(B, n)
      BY <2>2, <2>12
    <2>14. PICK p2 \in free[o2] : q \in Block(p2, o2) /\ o2 < n /\ p2 \in Block(B, n)
      BY <2>13, Zenon
    <2>15. m <= o2
      BY <2>4, <2>14, Zenon DEF T
    <2>16. <<p2, o2>> \in BlockType
      BY <1>1, Zenon DEF IInv, TypeOK
    <2>17. p2 \in Nat /\ Aligned(p2, o2) /\ Size(o2) \in Nat
      BY <2>16, BlockFacts, Zenon
    <2>18. CASE o2 = m
      <3>1. m \in 0 .. OrderCount /\ m \in 0 .. m
        BY <2>6 DEF Orders
      <3>2. p2 <= q /\ q + Size(m) <= p2 + Size(m)
        BY <2>9, <2>10, <2>14, <2>17, <2>18, <3>1, Nested, Zenon
      <3>3. p2 = q
        BY <2>8, <2>9, <2>17, <3>2
      <3> QED BY <1>1, <2>6, <2>8, <2>14, <2>18, <3>3, Zenon DEF IInv, SplitmapExact, q
    <2>19. CASE o2 # m
      <3>1. ASSUME NEW j \in 0 .. o2, j = m + 1 PROVE p2 <= r /\ r + Size(j) <= p2 + Size(o2)
        <4>1. o2 \in 0 .. OrderCount
          BY DEF Orders
        <4> QED BY <2>9, <2>10, <2>14, <2>17, <3>1, <4>1, Nested, Zenon
      <3>2. m + 1 \in 0 .. o2
        BY <2>6, <2>15, <2>19 DEF Orders
      <3>3. p2 <= r /\ r + Size(m + 1) <= p2 + Size(o2)
        BY <3>1, <3>2
      <3>4. p \in Block(p2, o2)
        BY <2>8, <2>9, <2>17, <3>3, SMTT(30) DEF Block
      <3> QED BY <1>1, <2>6, <2>8, <2>19, <3>4, Zenon DEF IInv, NoOverlap
    <2> QED BY <2>18, <2>19
  <1>2. IInv => NoSpuriousFailure
    <2> SUFFICES ASSUME IInv, NEW b \in BlockType, Block(b[1], b[2]) \subseteq FreeFrames
                 PROVE  \E o \in b[2] .. LastOrder : free[o] # {}
      BY DEF NoSpuriousFailure
    <2>1. b = <<b[1], b[2]>>
      BY DEF BlockType
    <2> QED BY <1>1, <2>1
  <1> QED BY <1>2, Invariance, PTL
=============================================================================

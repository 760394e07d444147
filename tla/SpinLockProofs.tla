--------------------------- MODULE SpinLockProofs ---------------------------
(***************************************************************************)
(* SpinLock::with for any number of processors and locks and any way of    *)
(* nesting them: mutual exclusion, interrupts off inside, and exact        *)
(* restoration of the interrupt state and of the resched disable count.    *)
(***************************************************************************)
EXTENDS SpinLock, FiniteSetTheorems, TLAPS

\* Call i of processor c holds l.
Holds(c, i, l) ==
  i \in DOMAIN frames[c] /\ frames[c][i].lock = l /\ frames[c][i].pc = "held"

Counting(c) == {i \in DOMAIN frames[c] : frames[c][i].pc \in {"spin", "held", "stored"}}

\* MutualExclusion without the sets of holders.
Exclusive ==
  \A l \in Locks :
    /\ \A c, d \in Cpus : \A i, j \in Nat : Holds(c, i, l) /\ Holds(d, j, l) => c = d /\ i = j
    /\ locked[l] = TRUE <=> \E c \in Cpus : \E i \in Nat : Holds(c, i, l)

\* A handler is the outermost call of its processor, and each call remembers the
\* interrupt state that it found: the base one if it is outermost, and off if not.
\* S are the processors that have not stopped for ever, with interrupts off.
FramesOK(S) ==
  \A c \in Cpus : \A i \in DOMAIN frames[c] :
    /\ frames[c][i].pc # "handler" => frames[c][i].lock \in Locks
    /\ frames[c][i].pc = "handler" => i = 1 /\ frames[c][i].prev = TRUE
    /\ c \in S => (frames[c][i].prev = TRUE <=> i = 1 /\ base[c] = TRUE)

IrqOK ==
  \A c \in Cpus : irq[c] = TRUE <=> frames[c] = <<>> /\ base[c] = TRUE

CountOK ==
  \A c \in Cpus : disable_count[c] = Cardinality(Counting(c))

LockInv(S) == TypeOK /\ FramesOK(S) /\ Exclusive /\ IrqOK /\ CountOK
-----------------------------------------------------------------------------
\* The calls of one processor are finitely many.
LEMMA CountingFinite ==
  ASSUME NEW F \in Seq(FrameType), NEW S \in SUBSET DOMAIN F
  PROVE  IsFiniteSet(S) /\ Cardinality(S) \in Nat
  <1>1. DOMAIN F = 1 .. Len(F) /\ Len(F) \in Nat
    OBVIOUS
  <1>2. IsFiniteSet(DOMAIN F)
    BY <1>1, FS_Interval
  <1> QED BY <1>2, FS_Subset, FS_CardinalityType

\* The sequence without elements is the empty one.
LEMMA NoFrames ==
  ASSUME NEW G \in Seq(FrameType)
  PROVE  G = <<>> <=> Len(G) = 0
  OBVIOUS

\* What Goto does to the calls in progress: the innermost one moves on.
LEMMA GotoEffect ==
  ASSUME TypeOK, NEW c \in Cpus, Busy(c), NEW p \in Pcs, Goto(c, p)
  PROVE  /\ frames' \in [Cpus -> Seq(FrameType)]
         /\ \A d \in Cpus \ {c} : frames'[d] = frames[d]
         /\ DOMAIN frames'[c] = DOMAIN frames[c]
         /\ Len(frames'[c]) = Len(frames[c])
         /\ Len(frames[c]) \in DOMAIN frames[c]
         /\ \A i \in DOMAIN frames[c] :
              /\ frames'[c][i].lock = frames[c][i].lock
              /\ frames'[c][i].prev = frames[c][i].prev
              /\ frames'[c][i].pc = IF i = Len(frames[c]) THEN p ELSE frames[c][i].pc
  <1> DEFINE F == frames[c]
             n == Len(F)
             top == [F[n] EXCEPT !.pc = p]
             G == [F EXCEPT ![n] = top]
  <1>1. F \in Seq(FrameType) /\ n \in Nat /\ n # 0 /\ n \in DOMAIN F /\ DOMAIN F = 1 .. n
    BY DEF TypeOK, Busy
  <1>2. F[n] \in FrameType
    BY <1>1
  <1>3. top \in FrameType /\ top.pc = p /\ top.lock = F[n].lock /\ top.prev = F[n].prev
    BY <1>2 DEF FrameType
  <1>4. frames' = [frames EXCEPT ![c] = G]
    BY DEF Goto
  <1>5. G \in Seq(FrameType) /\ Len(G) = n /\ DOMAIN G = DOMAIN F
    BY <1>1, <1>3
  <1>6. frames'[c] = G /\ \A d \in Cpus \ {c} : frames'[d] = frames[d]
    BY <1>4 DEF TypeOK
  <1>7. frames' \in [Cpus -> Seq(FrameType)]
    BY <1>4, <1>5 DEF TypeOK
  <1>8. \A i \in DOMAIN F : G[i] = IF i = n THEN top ELSE F[i]
    BY <1>1
  <1> QED BY <1>1, <1>3, <1>5, <1>6, <1>7, <1>8

\* What Pop does: the innermost call ends.
LEMMA PopEffect ==
  ASSUME TypeOK, NEW c \in Cpus, Busy(c), Pop(c)
  PROVE  /\ frames' \in [Cpus -> Seq(FrameType)]
         /\ \A d \in Cpus \ {c} : frames'[d] = frames[d]
         /\ Len(frames[c]) \in Nat \ {0}
         /\ DOMAIN frames[c] = 1 .. Len(frames[c])
         /\ DOMAIN frames'[c] = 1 .. Len(frames[c]) - 1
         /\ \A i \in DOMAIN frames'[c] : frames'[c][i] = frames[c][i]
         /\ frames'[c] = <<>> <=> Len(frames[c]) = 1
  <1> DEFINE F == frames[c]
             n == Len(F)
             G == SubSeq(F, 1, n - 1)
  <1>1. F \in Seq(FrameType) /\ n \in Nat \ {0} /\ DOMAIN F = 1 .. n
    BY DEF TypeOK, Busy
  <1>2. G \in Seq(FrameType) /\ Len(G) = n - 1 /\ DOMAIN G = 1 .. n - 1
    BY <1>1
  <1>3. \A i \in 1 .. n - 1 : G[i] = F[i]
    BY <1>1
  <1>4. frames' = [frames EXCEPT ![c] = G]
    BY DEF Pop
  <1>5. frames'[c] = G /\ \A d \in Cpus \ {c} : frames'[d] = frames[d]
    BY <1>4 DEF TypeOK
  <1>6. frames' \in [Cpus -> Seq(FrameType)]
    BY <1>2, <1>4 DEF TypeOK
  <1>7. G = <<>> <=> n = 1
    <2>1. G = <<>> <=> Len(G) = 0
      BY <1>2, NoFrames, Zenon
    <2> HIDE DEF G, F
    <2>2. n \in Nat /\ Len(G) = n - 1
      BY <1>1, <1>2
    <2>3. Len(G) = 0 <=> n = 1
      BY <2>2
    <2> QED BY <2>1, <2>3, Zenon
  <1> QED BY <1>1, <1>2, <1>3, <1>5, <1>6, <1>7

\* What a call does: f becomes the innermost.
LEMMA PushEffect ==
  ASSUME TypeOK, NEW c \in Cpus, NEW f \in FrameType,
         frames' = [frames EXCEPT ![c] = Append(@, f)]
  PROVE  /\ frames' \in [Cpus -> Seq(FrameType)]
         /\ \A d \in Cpus \ {c} : frames'[d] = frames[d]
         /\ Len(frames[c]) \in Nat
         /\ DOMAIN frames[c] = 1 .. Len(frames[c])
         /\ DOMAIN frames'[c] = 1 .. Len(frames[c]) + 1
         /\ \A i \in DOMAIN frames[c] : frames'[c][i] = frames[c][i]
         /\ frames'[c][Len(frames[c]) + 1] = f
         /\ frames'[c] # <<>>
  BY DEF TypeOK
-----------------------------------------------------------------------------
\* A step that takes no lock and gives none back keeps mutual exclusion.
LEMMA QuietExclusive ==
  ASSUME Exclusive, UNCHANGED locked,
         \A d \in Cpus : \A i \in Nat : \A l \in Locks : Holds(d, i, l)' <=> Holds(d, i, l)
  PROVE  Exclusive'
  BY DEF Exclusive

\* A call that moves on within `with' finds its frame and its interrupts as they were.
LEMMA GotoKeeps ==
  ASSUME NEW S, LockInv(S), NEW c \in Cpus, Busy(c), Top(c).pc # "handler",
         NEW p \in Pcs \ {"handler"}, Goto(c, p), UNCHANGED <<irq, base>>
  PROVE  FramesOK(S)' /\ IrqOK' /\ frames' \in [Cpus -> Seq(FrameType)]
  <1>1. TypeOK /\ FramesOK(S) /\ IrqOK
    BY DEF LockInv
  <1>2. FramesOK(S)'
    <2> SUFFICES ASSUME NEW d \in Cpus, NEW i \in DOMAIN frames'[d]
                 PROVE  /\ frames'[d][i].pc # "handler" => frames'[d][i].lock \in Locks
                        /\ frames'[d][i].pc = "handler" => i = 1 /\ frames'[d][i].prev = TRUE
                        /\ d \in S => (frames'[d][i].prev = TRUE <=> i = 1 /\ base'[d] = TRUE)
      BY Zenon DEF FramesOK
    <2>1. CASE d # c
      BY <1>1, <2>1, GotoEffect DEF FramesOK
    <2>2. CASE d = c
      BY <1>1, <2>2, GotoEffect DEF FramesOK, Top
    <2> QED BY <2>1, <2>2, Zenon
  <1>3. frames'[c] # <<>> /\ frames[c] # <<>>
    BY <1>1, GotoEffect DEF Busy
  <1>4. \A d \in Cpus : frames'[d] = <<>> <=> frames[d] = <<>>
    BY <1>1, <1>3, GotoEffect
  <1>5. IrqOK'
    BY <1>1, <1>4 DEF IrqOK
  <1> QED BY <1>1, <1>2, <1>5, GotoEffect

\* Locks and interrupts while a call moves on without taking or giving back a lock.
LEMMA GotoQuiet ==
  ASSUME NEW S, LockInv(S), NEW c \in Cpus, Busy(c), Top(c).pc # "held",
         NEW p \in Pcs \ {"held"}, Goto(c, p), UNCHANGED locked
  PROVE  Exclusive'
  <1>1. TypeOK /\ Exclusive
    BY DEF LockInv
  <1>2. \A d \in Cpus : \A i \in Nat : \A l \in Locks : Holds(d, i, l)' <=> Holds(d, i, l)
    BY <1>1, GotoEffect DEF Holds, Top
  <1> QED BY <1>1, <1>2, QuietExclusive

\* A new innermost call, interrupts off from now on, holds no lock and is not counted.
LEMMA PushKeeps ==
  ASSUME NEW S, LockInv(S), NEW c \in Cpus, NEW f \in FrameType,
         frames' = [frames EXCEPT ![c] = Append(@, f)],
         irq' = [irq EXCEPT ![c] = FALSE], UNCHANGED <<locked, disable_count, base>>,
         f.pc \in {"off", "handler"},
         f.pc = "off" => f.lock \in Locks,
         f.pc = "handler" => frames[c] = <<>> /\ f.prev = TRUE,
         f.prev = irq[c]
  PROVE  LockInv(S)'
  <1> USE DEF LockInv
  <1>1. TypeOK'
    BY PushEffect DEF TypeOK
  <1>2. \A d \in Cpus : \A i \in Nat : \A l \in Locks : Holds(d, i, l)' <=> Holds(d, i, l)
    BY PushEffect DEF Holds
  <1>3. \A d \in Cpus : Counting(d)' = Counting(d)
    BY PushEffect DEF Counting
  <1>4. FramesOK(S)'
    <2>1. f.prev = TRUE <=> frames[c] = <<>> /\ base[c] = TRUE
      BY DEF IrqOK
    <2>2. frames[c] = <<>> <=> Len(frames[c]) = 0
      BY NoFrames DEF TypeOK
    <2>7. frames'[c][Len(frames[c]) + 1] = f /\ Len(frames[c]) \in Nat
      BY PushEffect, Zenon
    <2> SUFFICES ASSUME NEW d \in Cpus, NEW i \in DOMAIN frames'[d]
                 PROVE  /\ frames'[d][i].pc # "handler" => frames'[d][i].lock \in Locks
                        /\ frames'[d][i].pc = "handler" => i = 1 /\ frames'[d][i].prev = TRUE
                        /\ d \in S => (frames'[d][i].prev = TRUE <=> i = 1 /\ base'[d] = TRUE)
      BY Zenon DEF FramesOK
    <2>3. CASE d # c
      BY <2>3, PushEffect DEF FramesOK
    <2>4. CASE d = c /\ i \in DOMAIN frames[c]
      BY <2>4, PushEffect DEF FramesOK
    <2>5. CASE d = c /\ i = Len(frames[c]) + 1
      <3>1. frames'[d][i] = f /\ Len(frames[c]) \in Nat
        BY <2>5, <2>7, Zenon
      <3>2. i = 1 <=> frames[c] = <<>>
        BY <2>2, <2>5, <3>1
      <3> QED BY <2>1, <2>5, <3>1, <3>2, Zenon
    <2>6. d = c => i \in DOMAIN frames[c] \/ i = Len(frames[c]) + 1
      BY PushEffect
    <2> QED BY <2>3, <2>4, <2>5, <2>6, Zenon
  <1>5. IrqOK'
    <2>1. irq'[c] = FALSE /\ \A d \in Cpus \ {c} : irq'[d] = irq[d]
      BY DEF TypeOK
    <2>2. frames'[c] # <<>> /\ \A d \in Cpus \ {c} : frames'[d] = frames[d]
      BY PushEffect, Zenon
    <2> SUFFICES ASSUME NEW d \in Cpus
                 PROVE  irq'[d] = TRUE <=> frames'[d] = <<>> /\ base'[d] = TRUE
      BY Zenon DEF IrqOK
    <2>3. CASE d = c
      BY <2>1, <2>2, <2>3, Zenon
    <2>4. CASE d # c
      BY <2>1, <2>2, <2>4 DEF IrqOK
    <2> QED BY <2>3, <2>4, Zenon
  <1>6. CountOK'
    BY <1>3 DEF CountOK
  <1> QED BY <1>1, <1>2, <1>4, <1>5, <1>6, QuietExclusive

\* The end of the innermost call, which has no lock any more, with interrupts back to
\* what it found.
LEMMA PopKeeps ==
  ASSUME NEW S, LockInv(S), NEW c \in Cpus, c \in S, Busy(c), Pop(c), Top(c).pc \in {"unlocked", "handler"},
         irq' \in [Cpus -> BOOLEAN], \A d \in Cpus \ {c} : irq'[d] = irq[d],
         irq'[c] = TRUE <=> Top(c).prev = TRUE,
         UNCHANGED <<locked, disable_count, base>>
  PROVE  LockInv(S)'
  <1> USE DEF LockInv
  <1>1. TypeOK'
    BY PopEffect DEF TypeOK
  <1>2. \A d \in Cpus : \A i \in Nat : \A l \in Locks : Holds(d, i, l)' <=> Holds(d, i, l)
    <2> SUFFICES ASSUME NEW d \in Cpus, NEW i \in Nat, NEW l \in Locks
                 PROVE  Holds(d, i, l)' <=> Holds(d, i, l)
      OBVIOUS
    <2>1. CASE d # c
      BY <2>1, PopEffect, Zenon DEF Holds
    <2>2. CASE d = c /\ i = Len(frames[c])
      <3>1. i \notin DOMAIN frames'[c]
        BY <2>2, PopEffect
      <3> QED BY <2>2, <3>1, Zenon DEF Holds, Top
    <2>3. CASE d = c /\ i # Len(frames[c])
      <3>1. i \in DOMAIN frames'[c] <=> i \in DOMAIN frames[c]
        BY <2>3, PopEffect
      <3> QED BY <2>3, <3>1, PopEffect, Zenon DEF Holds
    <2> QED BY <2>1, <2>2, <2>3, Zenon
  <1>3. \A d \in Cpus : Counting(d)' = Counting(d)
    BY PopEffect DEF Counting, Top
  <1>4. FramesOK(S)'
    <2> SUFFICES ASSUME NEW d \in Cpus, NEW i \in DOMAIN frames'[d]
                 PROVE  /\ frames'[d][i].pc # "handler" => frames'[d][i].lock \in Locks
                        /\ frames'[d][i].pc = "handler" => i = 1 /\ frames'[d][i].prev = TRUE
                        /\ d \in S => (frames'[d][i].prev = TRUE <=> i = 1 /\ base'[d] = TRUE)
      BY Zenon DEF FramesOK
    <2>1. i \in DOMAIN frames[d] /\ frames'[d][i] = frames[d][i]
      BY PopEffect
    <2> QED BY <2>1 DEF FramesOK
  <1>5. IrqOK'
    <2>1. Top(c).prev = TRUE <=> Len(frames[c]) = 1 /\ base[c] = TRUE
      BY PopEffect DEF FramesOK, Top
    <2>2. irq'[c] = TRUE <=> frames'[c] = <<>> /\ base'[c] = TRUE
      BY <2>1, PopEffect
    <2> QED BY <2>2, PopEffect DEF IrqOK
  <1>6. CountOK'
    BY <1>3 DEF CountOK
  <1> QED BY <1>1, <1>2, <1>4, <1>5, <1>6, QuietExclusive
-----------------------------------------------------------------------------
\* Nothing is locked at first.
LEMMA InitLock ==
  ASSUME NEW S, Init
  PROVE  LockInv(S)
  <1>1. locked \in [Locks -> BOOLEAN] /\ \A l \in Locks : locked[l] = FALSE
    BY Zenon DEF Init
  <1>2. frames \in [Cpus -> Seq(FrameType)] /\ \A c \in Cpus : frames[c] = <<>>
    BY DEF Init
  <1>3. TypeOK
    BY <1>1, <1>2 DEF Init, TypeOK
  <1>4. \A c \in Cpus : DOMAIN frames[c] = {}
    BY <1>2
  <1>5. FramesOK(S)
    BY <1>4 DEF FramesOK
  <1>6. Exclusive
    BY <1>1, <1>4, Zenon DEF Exclusive, Holds
  <1>7. IrqOK
    BY <1>2 DEF Init, IrqOK
  <1>8. \A c \in Cpus : Counting(c) = {}
    BY <1>4 DEF Counting
  <1>9. CountOK
    BY <1>8, FS_EmptySet, Zenon DEF Init, CountOK
  <1> QED BY <1>3, <1>5, <1>6, <1>7, <1>9 DEF LockInv

\* A step of a processor that has not stopped keeps LockInv.
LEMMA LockStepInv ==
  ASSUME NEW S, LockInv(S),
         \/ \E c \in Cpus : c \in S /\ (Step(c) \/ Interrupt(c) \/ \E l \in Locks : DisableIrq(c, l))
         \/ UNCHANGED vars
  PROVE  LockInv(S)'
  <1> USE DEF LockInv
  <1>1. ASSUME NEW c \in Cpus, NEW l \in Locks, DisableIrq(c, l)
        PROVE  LockInv(S)'
    <2>1. With(l, irq[c], "off") \in FrameType
      BY DEF With, FrameType, Pcs, TypeOK
    <2> QED BY <1>1, <2>1, PushKeeps, Zenon DEF DisableIrq, irq_disable, With
  <1>2. ASSUME NEW c \in Cpus, DisableResched(c)
        PROVE  LockInv(S)'
    <2> DEFINE n == Len(frames[c])
    <2>1. Busy(c) /\ Top(c).pc = "off" /\ "spin" \in Pcs /\ Goto(c, "spin")
      BY <1>2 DEF DisableResched, At, Pcs
    <2>2. FramesOK(S)' /\ IrqOK' /\ frames' \in [Cpus -> Seq(FrameType)]
      BY <1>2, <2>1, GotoKeeps DEF DisableResched
    <2>3. Exclusive'
      BY <1>2, <2>1, GotoQuiet DEF DisableResched
    <2>4. Counting(c)' = Counting(c) \union {n} /\ n \notin Counting(c)
      BY <2>1, GotoEffect DEF Counting, Top
    <2>5. \A d \in Cpus \ {c} : Counting(d)' = Counting(d)
      BY <2>1, GotoEffect DEF Counting
    <2>6. IsFiniteSet(Counting(c)) /\ Cardinality(Counting(c)) \in Nat
      BY CountingFinite DEF TypeOK, Counting
    <2>7. Cardinality(Counting(c)') = Cardinality(Counting(c)) + 1
      BY <2>4, <2>6, FS_AddElement, Zenon
    <2>8. disable_count' = [disable_count EXCEPT ![c] = Cardinality(Counting(c)')]
      BY <1>2, <2>7, Zenon DEF DisableResched, CountOK
    <2>9. CountOK'
      BY <2>5, <2>8 DEF CountOK, TypeOK
    <2>10. TypeOK'
      <3>1. disable_count' \in [Cpus -> Nat]
        BY <1>2 DEF DisableResched, TypeOK
      <3> QED BY <1>2, <2>2, <3>1 DEF DisableResched, TypeOK
    <2> QED BY <2>2, <2>3, <2>9, <2>10
  <1>3. ASSUME NEW c \in Cpus, Swap(c)
        PROVE  LockInv(S)'
    <2> DEFINE n == Len(frames[c])
               k == Top(c).lock
    <2>1. Busy(c) /\ Top(c).pc = "spin" /\ "held" \in Pcs /\ Goto(c, "held")
      BY <1>3 DEF Swap, At, Pcs
    <2>2. FramesOK(S)' /\ IrqOK' /\ frames' \in [Cpus -> Seq(FrameType)]
      BY <1>3, <2>1, GotoKeeps DEF Swap
    <2>3. n \in Nat /\ k \in Locks
      BY <2>1, GotoEffect DEF FramesOK, Top, TypeOK
    <2>4. \A d \in Cpus : \A i \in Nat : \A l \in Locks :
            Holds(d, i, l)' <=> Holds(d, i, l) \/ (d = c /\ i = n /\ l = k)
      BY <2>1, GotoEffect DEF Holds, Top
    <2>5. locked[k] = FALSE
      BY <1>3, <2>3 DEF Swap, swap_free, TypeOK
    <2>6. \A d \in Cpus : \A i \in Nat : ~Holds(d, i, k)
      BY <2>3, <2>5 DEF Exclusive
    <2>7. locked'[k] = TRUE /\ \A l \in Locks \ {k} : locked'[l] = locked[l]
      BY <1>3, <2>3, Zenon DEF Swap, TypeOK
    <2>8. Exclusive'
      BY <2>3, <2>4, <2>6, <2>7 DEF Exclusive
    <2>9. \A d \in Cpus : Counting(d)' = Counting(d)
      BY <2>1, GotoEffect DEF Counting, Top
    <2>10. CountOK' /\ TypeOK'
      BY <1>3, <2>2, <2>3, <2>9 DEF Swap, CountOK, TypeOK
    <2> QED BY <2>2, <2>8, <2>10
  <1>4. ASSUME NEW c \in Cpus, Store(c)
        PROVE  LockInv(S)'
    <2> DEFINE n == Len(frames[c])
               k == Top(c).lock
    <2>1. Busy(c) /\ Top(c).pc = "held" /\ "stored" \in Pcs /\ Goto(c, "stored")
      BY <1>4 DEF Store, At, Pcs
    <2>2. FramesOK(S)' /\ IrqOK' /\ frames' \in [Cpus -> Seq(FrameType)]
      BY <1>4, <2>1, GotoKeeps DEF Store
    <2>3. n \in Nat /\ k \in Locks /\ Holds(c, n, k)
      BY <2>1, GotoEffect DEF FramesOK, Top, TypeOK, Holds
    <2>4. \A d \in Cpus : \A i \in Nat : \A l \in Locks :
            Holds(d, i, l)' <=> Holds(d, i, l) /\ ~(d = c /\ i = n /\ l = k)
      BY <2>1, GotoEffect DEF Holds, Top
    <2>5. \A d \in Cpus : \A i \in Nat : Holds(d, i, k) => d = c /\ i = n
      BY <2>3 DEF Exclusive
    <2>6. locked'[k] = FALSE /\ \A l \in Locks \ {k} : locked'[l] = locked[l]
      BY <1>4, <2>3, Zenon DEF Store, TypeOK
    <2>7. Exclusive'
      BY <2>3, <2>4, <2>5, <2>6 DEF Exclusive
    <2>8. \A d \in Cpus : Counting(d)' = Counting(d)
      BY <2>1, GotoEffect DEF Counting, Top
    <2>9. CountOK' /\ TypeOK'
      BY <1>4, <2>2, <2>3, <2>8 DEF Store, CountOK, TypeOK
    <2> QED BY <2>2, <2>7, <2>9
  <1>5. ASSUME NEW c \in Cpus, EnableNoResched(c)
        PROVE  LockInv(S)'
    <2> DEFINE n == Len(frames[c])
    <2>1. Busy(c) /\ Top(c).pc = "stored" /\ "unlocked" \in Pcs /\ Goto(c, "unlocked")
      BY <1>5 DEF EnableNoResched, At, Pcs
    <2>2. FramesOK(S)' /\ IrqOK' /\ frames' \in [Cpus -> Seq(FrameType)]
      BY <1>5, <2>1, GotoKeeps DEF EnableNoResched
    <2>3. Exclusive'
      BY <1>5, <2>1, GotoQuiet DEF EnableNoResched
    <2>4. Counting(c)' = Counting(c) \ {n} /\ n \in Counting(c)
      BY <2>1, GotoEffect DEF Counting, Top
    <2>5. \A d \in Cpus \ {c} : Counting(d)' = Counting(d)
      BY <2>1, GotoEffect DEF Counting
    <2>6. IsFiniteSet(Counting(c)) /\ Cardinality(Counting(c)) \in Nat
      BY CountingFinite DEF TypeOK, Counting
    <2>7. Cardinality(Counting(c)') = Cardinality(Counting(c)) - 1 /\ Cardinality(Counting(c)') \in Nat
      BY <2>4, <2>6, FS_RemoveElement, FS_CardinalityType, Zenon
    <2>8. CountOK' /\ TypeOK'
      BY <1>5, <2>2, <2>5, <2>6, <2>7, Zenon DEF EnableNoResched, enable_no_resched, CountOK, TypeOK
    <2> QED BY <2>2, <2>3, <2>8
  <1>6. ASSUME NEW c \in Cpus, c \in S, RestoreIrq(c)
        PROVE  LockInv(S)'
    <2> DEFINE p == Top(c).prev
    <2>1. Busy(c) /\ Pop(c) /\ Top(c).pc = "unlocked" /\ irq_restore(c, p)
      BY <1>6 DEF RestoreIrq, At
    <2>2. irq[c] \in BOOLEAN /\ p \in BOOLEAN
      <3>1. Top(c) \in FrameType
        BY <2>1, PopEffect DEF TypeOK, Top
      <3> QED BY <3>1, Zenon DEF TypeOK, FrameType
    <2>3. irq[c] = FALSE
      BY <2>1, <2>2 DEF IrqOK, Busy
    <2>4. (irq[c] \/ p) \in BOOLEAN /\ ((irq[c] \/ p) = TRUE <=> p = TRUE)
      BY <2>2, <2>3, Zenon
    <2>5. irq' = [irq EXCEPT ![c] = irq[c] \/ p]
      BY <2>1 DEF irq_restore
    <2>6. irq' \in [Cpus -> BOOLEAN] /\ irq'[c] = (irq[c] \/ p) /\ \A d \in Cpus \ {c} : irq'[d] = irq[d]
      <3> HIDE DEF p
      <3> DEFINE v == irq[c] \/ p
      <3>1. v \in BOOLEAN /\ irq' = [irq EXCEPT ![c] = v]
        BY <2>4, <2>5
      <3> HIDE DEF v
      <3>2. irq' \in [Cpus -> BOOLEAN] /\ irq'[c] = v /\ \A d \in Cpus \ {c} : irq'[d] = irq[d]
        BY <3>1, Zenon DEF TypeOK
      <3> QED BY <3>2 DEF v
    <2>7. irq'[c] = TRUE <=> p = TRUE
      BY <2>4, <2>6, Zenon
    <2> QED BY <1>6, <2>1, <2>6, <2>7, PopKeeps, Zenon DEF RestoreIrq
  <1>7. ASSUME NEW c \in Cpus, Interrupt(c)
        PROVE  LockInv(S)'
    <2>1. irq[c] = TRUE /\ frames[c] = <<>>
      BY <1>7 DEF Interrupt, TypeOK, IrqOK
    <2>2. Handler \in FrameType
      BY DEF Handler, FrameType, Pcs
    <2> QED BY <1>7, <2>1, <2>2, PushKeeps, Zenon DEF Interrupt, Handler
  <1>8. ASSUME NEW c \in Cpus, c \in S, Return(c)
        PROVE  LockInv(S)'
    <2>1. Busy(c) /\ Pop(c) /\ Top(c).pc = "handler"
      BY <1>8 DEF Return, At
    <2>2. irq' \in [Cpus -> BOOLEAN] /\ irq'[c] = TRUE /\ \A d \in Cpus \ {c} : irq'[d] = irq[d]
      BY <1>8 DEF Return, TypeOK
    <2>3. Top(c).prev = TRUE
      BY <2>1, PopEffect DEF FramesOK, Top
    <2> QED BY <1>8, <2>1, <2>2, <2>3, PopKeeps, Zenon DEF Return
  <1>9. CASE UNCHANGED vars
    <2>1. TypeOK' /\ FramesOK(S)' /\ IrqOK'
      BY <1>9 DEF vars, TypeOK, FramesOK, IrqOK
    <2>2. Exclusive'
      BY <1>9 DEF vars, Exclusive, Holds
    <2>3. CountOK'
      BY <1>9 DEF vars, CountOK, Counting
    <2> QED BY <2>1, <2>2, <2>3
  <1> QED BY <1>1, <1>2, <1>3, <1>4, <1>5, <1>6, <1>7, <1>8, <1>9 DEF Step

\* LockInv is inductive.
LEMMA LockInvariance == Spec => []LockInv(Cpus)
  <1>1. Init => LockInv(Cpus)
    BY InitLock
  <1>2. LockInv(Cpus) /\ [Next]_vars => LockInv(Cpus)'
    BY LockStepInv DEF Next
  <1> QED BY <1>1, <1>2, PTL DEF Spec

\* What LockInv says of the code that a lock protects.
LEMMA LockInvExcludes ==
  ASSUME NEW S, LockInv(S)
  PROVE  MutualExclusion
  <1> USE DEF LockInv
  <1>1. \A l : Holders(l) = {h \in Cpus \X Nat : Holds(h[1], h[2], l)}
    BY DEF Holders, Holds, TypeOK
  <1>2. ASSUME NEW l \in Locks
        PROVE  \A h, g \in Holders(l) : h = g
    BY <1>1, <1>2 DEF Exclusive
  <1>3. ASSUME NEW l \in Locks
        PROVE  locked[l] <=> Holders(l) # {}
    <2>1. Holders(l) # {} <=> \E c \in Cpus : \E i \in Nat : Holds(c, i, l)
      <3>1. ASSUME NEW c \in Cpus, NEW i \in Nat, Holds(c, i, l)
            PROVE  Holders(l) # {}
        <4>1. <<c, i>> \in Holders(l)
          BY <1>1, <3>1
        <4> QED BY <4>1
      <3>2. ASSUME NEW h \in Holders(l)
            PROVE  \E c \in Cpus : \E i \in Nat : Holds(c, i, l)
        BY <1>1, <3>2
      <3> QED BY <3>1, <3>2
    <2>2. locked[l] \in BOOLEAN
      BY DEF TypeOK
    <2>3. locked[l] = TRUE <=> Holders(l) # {}
      BY <2>1 DEF Exclusive
    <2> QED BY <2>2, <2>3, Zenon
  <1> QED BY <1>2, <1>3 DEF MutualExclusion

\* What LockInv says of interrupts and counts.
LEMMA LockInvGuards ==
  ASSUME NEW S, LockInv(S)
  PROVE  GuardsExact
  <1> USE DEF LockInv
  <1>1. \A c \in Cpus : irq[c] \in BOOLEAN /\ base[c] \in BOOLEAN
    BY DEF TypeOK
  <1>2. IrqOffInside
    BY <1>1, Zenon DEF IrqOffInside, IrqOK, Busy
  <1>3. \A c \in Cpus : ~Busy(c) => irq[c] = base[c]
    BY <1>1, Zenon DEF IrqOK, Busy
  <1>4. CountExact
    BY <1>3 DEF CountExact, CountOK, Counting
  <1> QED BY <1>2, <1>4 DEF GuardsExact

\* SpinLock::with gives its closure the data alone: one call at a time is inside, on all
\* processors and counting interrupt handlers, and the flag says whether one is.
THEOREM SpinLockExcludes == Spec => []MutualExclusion
  <1>1. LockInv(Cpus) => MutualExclusion
    BY LockInvExcludes
  <1> QED BY <1>1, LockInvariance, PTL

\* Inside `with' interrupts are off, its end restores exactly the interrupt state found,
\* and the resched disable count is the number of locks the processor holds or is after.
THEOREM SpinLockGuards == Spec => []GuardsExact
  <1>1. LockInv(Cpus) => GuardsExact
    BY LockInvGuards
  <1> QED BY <1>1, LockInvariance, PTL
=============================================================================

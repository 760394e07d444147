--------------------------- MODULE ConsoleProofs ---------------------------
(***************************************************************************)
(* The console and the panic handler over the spinlocks, for any number of *)
(* processors and locks, any nesting in one order, and panics anywhere:    *)
(* what `with' promises holds with them too, no byte is lost, and nobody   *)
(* waits in a circle but a println! that panics.                           *)
(***************************************************************************)
EXTENDS Console, SpinLockProofs

\* The order of the locks, outer ones first.
Rank ==
  CHOOSE rank \in [Locks -> 0 .. Cardinality(Locks)] :
    /\ \A e \in Nests : rank[e[2]] < rank[e[1]]
    /\ \A l \in Locks \ {CONSOLE} : rank[CONSOLE] < rank[l]

ConsoleTypeOK ==
  /\ left \in [Cpus -> Nat]
  /\ depth \in [Cpus -> Int]
  /\ polled \in [Cpus -> BOOLEAN]
  /\ thr \in BOOLEAN
  /\ halted \subseteq Cpus

\* Calls in progress have taken their locks in that order.  The report of a panic takes
\* CONSOLE inside everything, itself included.
InOrder ==
  \A c \in Cpus : \A i, j \in DOMAIN frames[c] :
    i < j /\ frames[c][i].pc # "handler" =>
      \/ Rank[frames[c][j].lock] < Rank[frames[c][i].lock]
      \/ frames[c][i].lock = CONSOLE /\ frames[c][j].lock = CONSOLE /\ i <= depth[c]

\* What is called inside println! can only be println! again, and gets no further than
\* to wait.
Innermost ==
  \A c \in Cpus : \A i, j \in DOMAIN frames[c] :
    i < j /\ Holds(c, i, CONSOLE) => frames[c][j].pc \in {"off", "spin"}

\* A processor that has seen the register empty holds CONSOLE, has a byte to write, and
\* will find the register empty; and bytes are left only inside println!.
Lines ==
  /\ lost = FALSE
  /\ \A c \in Cpus :
       /\ polled[c] = TRUE => thr = FALSE /\ left[c] > 0 /\ \E i \in Nat : Holds(c, i, CONSOLE)
       /\ left[c] > 0 => Printing(c) \/ depth[c] >= 0

ConsoleInv == LockInv(Cpus \ halted) /\ ConsoleTypeOK /\ InOrder /\ Innermost /\ Lines
-----------------------------------------------------------------------------
\* The order puts CONSOLE last, so that nothing is nested in it.
LEMMA RankFacts ==
  /\ Rank \in [Locks -> Nat]
  /\ \A e \in Nests : Rank[e[2]] < Rank[e[1]]
  /\ \A l \in Locks \ {CONSOLE} : Rank[CONSOLE] < Rank[l]
  /\ \A l \in Locks : <<CONSOLE, l>> \notin Nests
  <1> DEFINE Orders(rank) == /\ \A e \in Nests : rank[e[2]] < rank[e[1]]
                             /\ \A l \in Locks \ {CONSOLE} : rank[CONSOLE] < rank[l]
  <1>1. \E rank \in [Locks -> 0 .. Cardinality(Locks)] : Orders(rank)
    BY OrderAssumption
  <1>2. Rank = CHOOSE rank \in [Locks -> 0 .. Cardinality(Locks)] : Orders(rank)
    BY DEF Rank
  <1>3. Rank \in [Locks -> 0 .. Cardinality(Locks)] /\ Orders(Rank)
    <2> HIDE DEF Orders
    <2> QED BY <1>1, <1>2, Zenon
  <1>4. Cardinality(Locks) \in Nat
    BY OrderAssumption, FS_CardinalityType
  <1>5. Rank \in [Locks -> Nat]
    BY <1>3, <1>4
  <1>6. ASSUME NEW l \in Locks, <<CONSOLE, l>> \in Nests
        PROVE  FALSE
    <2>1. Rank[l] < Rank[CONSOLE]
      BY <1>3, <1>6
    <2>2. l = CONSOLE \/ Rank[CONSOLE] < Rank[l]
      BY <1>3
    <2> QED BY <1>5, <2>1, <2>2, ConsoleAssumption
  <1> QED BY <1>3, <1>5, <1>6

\* The order of the locks is no part of the state.
LEMMA RankConstant == Rank' = Rank
  BY Zenon DEF Rank

\* A step that leaves the calls in progress alone.
LEMMA FramesKept ==
  ASSUME InOrder, Innermost, UNCHANGED <<frames, depth>>
  PROVE  InOrder' /\ Innermost'
  <1>1. InOrder'
    BY RankConstant, Zenon DEF InOrder
  <1>2. Innermost'
    BY Zenon DEF Innermost, Holds
  <1> QED BY <1>1, <1>2

\* A call that moves on keeps its lock and with it the order.
LEMMA GotoOrder ==
  ASSUME TypeOK, InOrder, NEW c \in Cpus, Busy(c), Top(c).pc # "handler",
         NEW p \in Pcs, Goto(c, p), UNCHANGED depth
  PROVE  InOrder'
  <1> SUFFICES ASSUME NEW d \in Cpus, NEW i \in DOMAIN frames'[d], NEW j \in DOMAIN frames'[d],
                      i < j, frames'[d][i].pc # "handler"
               PROVE  \/ Rank[frames'[d][j].lock] < Rank[frames'[d][i].lock]
                      \/ frames'[d][i].lock = CONSOLE /\ frames'[d][j].lock = CONSOLE /\ i <= depth'[d]
    BY RankConstant, Zenon DEF InOrder
  <1>1. /\ i \in DOMAIN frames[d] /\ j \in DOMAIN frames[d] /\ frames[d][i].pc # "handler"
        /\ frames'[d][i].lock = frames[d][i].lock /\ frames'[d][j].lock = frames[d][j].lock
    BY GotoEffect DEF Top
  <1> QED BY <1>1, SMTT(30) DEF InOrder

\* A call that ends leaves the others as they were.
LEMMA PopOrder ==
  ASSUME TypeOK, InOrder, Innermost, NEW c \in Cpus, Busy(c), Pop(c), UNCHANGED depth
  PROVE  InOrder' /\ Innermost'
  <1>1. \A d \in Cpus : \A i \in DOMAIN frames'[d] : i \in DOMAIN frames[d] /\ frames'[d][i] = frames[d][i]
    BY PopEffect, SMTT(30)
  <1>2. InOrder'
    BY <1>1, RankConstant DEF InOrder
  <1>3. Innermost'
    BY <1>1 DEF Innermost, Holds
  <1> QED BY <1>2, <1>3

\* A new call comes last in the order.
LEMMA PushOrder ==
  ASSUME TypeOK, ConsoleTypeOK, InOrder, Innermost, NEW c \in Cpus, NEW f \in FrameType,
         frames' = [frames EXCEPT ![c] = Append(@, f)], UNCHANGED depth,
         f.pc \in {"off", "handler"},
         f.pc = "handler" => frames[c] = <<>>,
         \A i \in DOMAIN frames[c] : frames[c][i].pc # "handler" =>
           \/ Rank[f.lock] < Rank[frames[c][i].lock]
           \/ frames[c][i].lock = CONSOLE /\ f.lock = CONSOLE /\ i <= depth[c]
  PROVE  InOrder' /\ Innermost'
  <1>1. \A d \in Cpus : \A i \in DOMAIN frames'[d] :
          \/ i \in DOMAIN frames[d] /\ frames'[d][i] = frames[d][i]
          \/ d = c /\ i = Len(frames[c]) + 1 /\ frames'[d][i] = f
    BY PushEffect
  <1>2. \A d \in Cpus : \A i \in DOMAIN frames[d] : i \in Nat /\ i <= Len(frames[d]) /\ Len(frames[d]) \in Nat
    BY DEF TypeOK
  <1>3. \A i \in DOMAIN frames[c] : frames[c] # <<>>
    BY SMTT(30) DEF TypeOK
  <1>4. InOrder'
    <2> SUFFICES ASSUME NEW d \in Cpus, NEW i \in DOMAIN frames'[d], NEW j \in DOMAIN frames'[d],
                        i < j, frames'[d][i].pc # "handler"
                 PROVE  \/ Rank[frames'[d][j].lock] < Rank[frames'[d][i].lock]
                        \/ frames'[d][i].lock = CONSOLE /\ frames'[d][j].lock = CONSOLE /\ i <= depth'[d]
      BY RankConstant, Zenon DEF InOrder
    <2>1. i \in DOMAIN frames[d] /\ frames'[d][i] = frames[d][i]
      BY <1>1, <1>2
    <2>2. CASE j \in DOMAIN frames[d] /\ frames'[d][j] = frames[d][j]
      BY <2>1, <2>2 DEF InOrder
    <2>3. CASE d = c /\ frames'[d][j] = f
      BY <2>1, <2>3
    <2> QED BY <1>1, <2>2, <2>3, Zenon
  <1>5. Innermost'
    <2> SUFFICES ASSUME NEW d \in Cpus, NEW i \in DOMAIN frames'[d], NEW j \in DOMAIN frames'[d],
                        i < j, frames'[d][i].lock = CONSOLE, frames'[d][i].pc = "held"
                 PROVE  frames'[d][j].pc \in {"off", "spin"}
      BY DEF Innermost, Holds
    <2>1. i \in DOMAIN frames[d] /\ frames'[d][i] = frames[d][i]
      BY <1>1, <1>2
    <2>2. CASE j \in DOMAIN frames[d] /\ frames'[d][j] = frames[d][j]
      BY <2>1, <2>2 DEF Innermost, Holds
    <2>3. CASE d = c /\ frames'[d][j] = f
      BY <1>3, <2>1, <2>3
    <2> QED BY <1>1, <2>2, <2>3, SMTT(30)
  <1> QED BY <1>4, <1>5, SMTT(30)

\* The innermost call.
LEMMA TopPlace ==
  ASSUME TypeOK, NEW c \in Cpus, Busy(c)
  PROVE  /\ Len(frames[c]) \in Nat /\ Len(frames[c]) \in DOMAIN frames[c]
         /\ \A i \in DOMAIN frames[c] : i \in Nat /\ i <= Len(frames[c])
         /\ Top(c) = frames[c][Len(frames[c])] /\ Top(c) \in FrameType
  BY DEF TypeOK, Busy, Top

\* Inside println! there is only another println!, which waits for the first.
LEMMA InsideConsole ==
  ASSUME ConsoleInv, NEW c \in Cpus, NEW i \in Nat, Holds(c, i, CONSOLE), i # Len(frames[c])
  PROVE  Busy(c) /\ Top(c).pc \in {"off", "spin"} /\ Top(c).lock = CONSOLE /\ locked[CONSOLE] = TRUE
  <1> DEFINE n == Len(frames[c])
  <1>1. TypeOK /\ FramesOK(Cpus \ halted) /\ Exclusive
    BY DEF ConsoleInv, LockInv
  <1>2. i \in DOMAIN frames[c] /\ frames[c][i].lock = CONSOLE /\ frames[c][i].pc = "held"
    BY DEF Holds
  <1>3. Busy(c)
    BY <1>1, <1>2 DEF TypeOK, Busy
  <1>4. n \in DOMAIN frames[c] /\ i < n /\ Top(c) = frames[c][n]
    BY <1>1, <1>2, <1>3, TopPlace
  <1> HIDE DEF n
  <1>5. Top(c).pc \in {"off", "spin"}
    BY <1>2, <1>4 DEF ConsoleInv, Innermost
  <1>6. Top(c).lock \in Locks
    BY <1>1, <1>4, <1>5 DEF FramesOK
  <1>7. Rank[Top(c).lock] < Rank[CONSOLE] \/ Top(c).lock = CONSOLE
    BY <1>2, <1>4 DEF ConsoleInv, InOrder
  <1>8. Top(c).lock = CONSOLE
    BY <1>6, <1>7, RankFacts, ConsoleAssumption
  <1>9. locked[CONSOLE] = TRUE
    BY <1>1, ConsoleAssumption DEF Exclusive
  <1> QED BY <1>3, <1>5, <1>8, <1>9

\* The order after a step of `with'.
LEMMA StepOrder ==
  ASSUME ConsoleInv, NEW c \in Cpus, Step(c), UNCHANGED depth
  PROVE  InOrder' /\ Innermost'
  <1>1. TypeOK /\ InOrder /\ Innermost /\ locked \in [Locks -> BOOLEAN]
    BY DEF ConsoleInv, LockInv, TypeOK
  <1>2. CASE RestoreIrq(c) \/ Return(c)
    BY <1>1, <1>2, PopOrder DEF RestoreIrq, Return, At
  <1>3. CASE DisableResched(c) \/ Swap(c) \/ Store(c) \/ EnableNoResched(c)
    <2>1. PICK p \in Pcs \ {"handler"} :
            /\ Busy(c) /\ Top(c).pc # "handler" /\ Goto(c, p)
            /\ p = "spin" \/ (p = "held" /\ Top(c).pc = "spin" /\ ~locked[Top(c).lock])
               \/ Top(c).pc \in {"held", "stored"}
      BY <1>3 DEF DisableResched, Swap, Store, EnableNoResched, At, Pcs, swap_free
    <2>2. InOrder'
      BY <1>1, <2>1, GotoOrder
    <2>3. Innermost'
      <3> SUFFICES ASSUME NEW d \in Cpus, NEW i \in DOMAIN frames'[d], NEW j \in DOMAIN frames'[d],
                          i < j, frames'[d][i].lock = CONSOLE, frames'[d][i].pc = "held"
                   PROVE  frames'[d][j].pc \in {"off", "spin"}
        BY DEF Innermost, Holds
      <3>1. CASE d # c
        <4>1. frames'[d] = frames[d]
          BY <1>1, <2>1, <3>1, GotoEffect, SMTT(30)
        <4> QED BY <1>1, <4>1 DEF Innermost, Holds
      <3>2. CASE d = c
        <4>1. /\ i \in DOMAIN frames[c] /\ j \in DOMAIN frames[c]
              /\ frames'[c][i].lock = frames[c][i].lock
              /\ frames'[c][i].pc = IF i = Len(frames[c]) THEN p ELSE frames[c][i].pc
              /\ frames'[c][j].pc = IF j = Len(frames[c]) THEN p ELSE frames[c][j].pc
          BY <1>1, <2>1, <3>2, GotoEffect, SMTT(30)
        <4>2. i \in Nat /\ j \in Nat /\ j <= Len(frames[c]) /\ Len(frames[c]) \in Nat
          BY <1>1, <2>1, <4>1, TopPlace, Zenon
        <4>3. Holds(c, i, CONSOLE) /\ i # Len(frames[c])
          BY <3>2, <4>1, <4>2 DEF Holds
        <4>4. Top(c).pc \in {"off", "spin"} /\ Top(c).lock = CONSOLE /\ locked[CONSOLE] = TRUE
          BY <4>2, <4>3, InsideConsole, Zenon
        <4>5. p = "spin"
          BY <2>1, <4>4
        <4> QED BY <1>1, <3>2, <4>1, <4>3, <4>5, Zenon DEF Innermost
      <3> QED BY <3>1, <3>2
    <2> QED BY <2>2, <2>3
  <1> QED BY <1>2, <1>3 DEF Step

\* Which locks are held after a step of `with'.
LEMMA StepHolds ==
  ASSUME ConsoleInv, NEW c \in Cpus, Step(c)
  PROVE  /\ \A d \in Cpus \ {c} : frames'[d] = frames[d]
         /\ \A i \in Nat : Holds(c, i, CONSOLE) /\ ~Printing(c) => Holds(c, i, CONSOLE)'
         /\ \A i \in Nat : Holds(c, i, CONSOLE) /\ ~Printing(c) => ~Printing(c)'
  <1>1. TypeOK
    BY DEF ConsoleInv, LockInv
  <1>2. CASE RestoreIrq(c) \/ Return(c)
    <2>1. Busy(c) /\ Pop(c) /\ Top(c).pc \in {"unlocked", "handler"}
      BY <1>2 DEF RestoreIrq, Return, At
    <2>2. \A i \in Nat : ~Holds(c, i, CONSOLE)
      <3> SUFFICES ASSUME NEW i \in Nat, Holds(c, i, CONSOLE) PROVE FALSE
        OBVIOUS
      <3>1. i = Len(frames[c])
        BY <2>1, InsideConsole, Zenon
      <3> QED BY <2>1, <3>1 DEF Holds, Top
    <2> QED BY <1>1, <2>1, <2>2, PopEffect, Zenon
  <1>3. CASE DisableResched(c) \/ Swap(c) \/ Store(c) \/ EnableNoResched(c)
    <2>1. PICK p \in Pcs :
            /\ Busy(c) /\ Goto(c, p)
            /\ p = "held" => Top(c).pc = "spin" /\ ~locked[Top(c).lock]
      BY <1>3 DEF DisableResched, Swap, Store, EnableNoResched, At, Pcs, swap_free
    <2>2. /\ \A d \in Cpus \ {c} : frames'[d] = frames[d]
          /\ DOMAIN frames'[c] = DOMAIN frames[c] /\ Len(frames'[c]) = Len(frames[c])
          /\ Len(frames[c]) \in DOMAIN frames[c]
          /\ \A i \in DOMAIN frames[c] :
               /\ frames'[c][i].lock = frames[c][i].lock
               /\ frames'[c][i].pc = IF i = Len(frames[c]) THEN p ELSE frames[c][i].pc
      BY <1>1, <2>1, GotoEffect, Zenon
    <2>3. ASSUME NEW i \in Nat, Holds(c, i, CONSOLE), ~Printing(c)
          PROVE  Holds(c, i, CONSOLE)' /\ ~Printing(c)'
      <3>1. i # Len(frames[c])
        BY <2>1, <2>3 DEF Printing, Holds, At, Top
      <3>2. Top(c).lock = CONSOLE /\ locked[CONSOLE] = TRUE
        BY <2>3, <3>1, InsideConsole, Zenon
      <3>3. p # "held"
        BY <2>1, <3>2
      <3>4. Holds(c, i, CONSOLE)'
        BY <2>2, <2>3, <3>1, Zenon DEF Holds
      <3>5. frames'[c][Len(frames'[c])].pc = p
        BY <2>2
      <3>6. ~Printing(c)'
        BY <3>3, <3>5 DEF Printing, At, Top
      <3> QED BY <3>4, <3>6
    <2> QED BY <2>2, <2>3
  <1> QED BY <1>2, <1>3, Zenon DEF Step

\* What is to be written after a step of `with'.
LEMMA LockStepLines ==
  ASSUME ConsoleInv, NEW c \in Cpus, LockStep(c)
  PROVE  Lines' /\ ConsoleTypeOK'
  <1>1. TypeOK /\ Lines /\ ConsoleTypeOK
    BY DEF ConsoleInv, LockInv
  <1>2. /\ Step(c) /\ (Printing(c) => left[c] = 0)
        /\ left' = IF ~Printing(c) /\ Printing(c)' /\ present THEN [left EXCEPT ![c] = LineBytes] ELSE left
        /\ UNCHANGED <<thr, lost, polled, depth, halted>>
    BY Zenon DEF LockStep
  <1>3. ConsoleTypeOK'
    <2>1. left' \in [Cpus -> Nat]
      BY <1>1, <1>2, ConsoleAssumption DEF ConsoleTypeOK
    <2> QED BY <1>1, <1>2, <2>1 DEF ConsoleTypeOK
  <1>4. \A d \in Cpus \ {c} : left'[d] = left[d] /\ frames'[d] = frames[d]
    BY <1>1, <1>2, StepHolds, Zenon DEF ConsoleTypeOK
  <1>5. ASSUME NEW d \in Cpus \ {c}
        PROVE  /\ polled'[d] = TRUE => thr' = FALSE /\ left'[d] > 0 /\ \E i \in Nat : Holds(d, i, CONSOLE)'
               /\ left'[d] > 0 => Printing(d)' \/ depth'[d] >= 0
    <2>1. Printing(d)' = Printing(d) /\ \A i \in Nat : Holds(d, i, CONSOLE)' = Holds(d, i, CONSOLE)
      BY <1>4 DEF Printing, Holds, At, Top, Busy
    <2> QED BY <1>1, <1>2, <1>4, <2>1, Zenon DEF Lines
  <1>6. polled[c] = TRUE => thr = FALSE /\ left'[c] > 0 /\ \E i \in Nat : Holds(c, i, CONSOLE)'
    <2> SUFFICES ASSUME polled[c] = TRUE
                 PROVE  thr = FALSE /\ left'[c] > 0 /\ \E i \in Nat : Holds(c, i, CONSOLE)'
      BY Zenon
    <2>1. PICK i \in Nat : Holds(c, i, CONSOLE)
      BY <1>1 DEF Lines
    <2>2. left[c] > 0 /\ ~Printing(c)
      BY <1>1, <1>2 DEF Lines
    <2>3. Holds(c, i, CONSOLE)' /\ ~Printing(c)'
      BY <1>2, <2>1, <2>2, StepHolds, Zenon
    <2>4. left' = left
      BY <1>2, <2>3
    <2> QED BY <1>1, <2>2, <2>3, <2>4, Zenon DEF Lines
  <1>7. left'[c] > 0 => Printing(c)' \/ depth[c] >= 0
    <2>1. CASE left' = left
      BY <1>1, <1>2, <2>1 DEF Lines, ConsoleTypeOK
    <2>2. CASE left' # left
      BY <1>2, <2>2
    <2> QED BY <2>1, <2>2
  <1>8. Lines'
    BY <1>1, <1>2, <1>5, <1>6, <1>7, Zenon DEF Lines
  <1> QED BY <1>3, <1>8
-----------------------------------------------------------------------------
\* A processor that stops, with interrupts off, keeps its locks and its count.
LEMMA Stops ==
  ASSUME NEW S, LockInv(S), NEW c \in Cpus,
         irq' = [irq EXCEPT ![c] = FALSE], base' = [base EXCEPT ![c] = FALSE],
         UNCHANGED <<locked, disable_count, frames>>
  PROVE  LockInv(S \ {c})'
  <1> USE DEF LockInv
  <1>1. irq'[c] = FALSE /\ base'[c] = FALSE /\ \A d \in Cpus \ {c} : irq'[d] = irq[d] /\ base'[d] = base[d]
    BY DEF TypeOK
  <1>2. TypeOK'
    BY DEF TypeOK
  <1>3. FramesOK(S \ {c})'
    BY <1>1 DEF FramesOK
  <1>4. IrqOK'
    BY <1>1 DEF IrqOK
  <1>5. Exclusive' /\ CountOK'
    BY DEF Exclusive, CountOK, Holds, Counting
  <1> QED BY <1>2, <1>3, <1>4, <1>5

\* `with' is called: its lock comes after those of the calls in progress.
LEMMA CallOrder ==
  ASSUME ConsoleInv, NEW c \in Cpus, NEW l \in Locks, MayCall(c, l)
  PROVE  \A i \in DOMAIN frames[c] : frames[c][i].pc # "handler" => Rank[l] < Rank[frames[c][i].lock]
  <1> DEFINE n == Len(frames[c])
  <1>1. TypeOK /\ FramesOK(Cpus \ halted) /\ InOrder
    BY DEF ConsoleInv, LockInv
  <1> SUFFICES ASSUME NEW i \in DOMAIN frames[c], frames[c][i].pc # "handler"
               PROVE  Rank[l] < Rank[frames[c][i].lock]
    OBVIOUS
  <1>2. Busy(c)
    BY <1>1 DEF TypeOK, Busy
  <1>3. n \in DOMAIN frames[c] /\ i \in Nat /\ n \in Nat /\ i <= n /\ Top(c) = frames[c][n]
    BY <1>1, <1>2, TopPlace, Zenon
  <1>4. At(c, "held") /\ <<Top(c).lock, l>> \in Nests
    <2>1. ~At(c, "handler")
      BY <1>1, <1>3, SMTT(30) DEF At, FramesOK
    <2> QED BY <1>2, <2>1, SMTT(30) DEF MayCall
  <1>5. Top(c).lock # CONSOLE /\ Top(c).lock \in Locks
    BY <1>1, <1>3, <1>4, RankFacts, SMTT(30) DEF At, FramesOK
  <1>6. Rank[l] < Rank[Top(c).lock]
    BY <1>4, RankFacts
  <1>7. frames[c][i].lock \in Locks
    BY <1>1, Zenon DEF FramesOK
  <1>8. i = n \/ Rank[Top(c).lock] < Rank[frames[c][i].lock]
    BY <1>1, <1>3, <1>5 DEF InOrder
  <1> QED BY <1>3, <1>5, <1>6, <1>7, <1>8, RankFacts

\* A new call, outside println! or from a panic in it, leaves what is to be written.
LEMMA PushLines ==
  ASSUME ConsoleInv, NEW c \in Cpus, NEW f \in FrameType,
         frames' = [frames EXCEPT ![c] = Append(@, f)],
         ~Printing(c) \/ depth[c] >= 0,
         UNCHANGED <<thr, lost, left, polled, depth, halted>>
  PROVE  Lines' /\ ConsoleTypeOK'
  <1>1. TypeOK /\ Lines /\ ConsoleTypeOK
    BY DEF ConsoleInv, LockInv
  <1>2. ConsoleTypeOK'
    BY <1>1, SMTT(30) DEF ConsoleTypeOK
  <1>3. \A d \in Cpus : \A i \in Nat : Holds(d, i, CONSOLE) => Holds(d, i, CONSOLE)'
    BY <1>1, PushEffect, SMTT(30) DEF Holds
  <1>4. \A d \in Cpus \ {c} : Printing(d)' = Printing(d)
    BY <1>1, PushEffect, Zenon DEF Printing, At, Top, Busy
  <1>5. Lines'
    BY <1>1, <1>3, <1>4, Zenon DEF Lines
  <1> QED BY <1>2, <1>5

\* Every step keeps ConsoleInv.
LEMMA ConsoleStepInv ==
  ASSUME ConsoleInv, [ConsoleNext]_consoleVars
  PROVE  ConsoleInv'
  <1>1. PICK S : S = Cpus \ halted
    BY Zenon
  <1>2. LockInv(S) /\ TypeOK /\ ConsoleTypeOK /\ InOrder /\ Innermost /\ Lines
    BY <1>1 DEF ConsoleInv, LockInv
  <1>3. ASSUME NEW c \in Cpus, LockStep(c)
        PROVE  ConsoleInv'
    <2>1. c \in S /\ Step(c) /\ UNCHANGED <<depth, halted>>
      BY <1>1, <1>3 DEF LockStep, Running
    <2>2. LockInv(S)'
      BY <1>2, <2>1, LockStepInv, SMTT(30)
    <2> QED BY <1>1, <1>3, <2>1, <2>2, StepOrder, LockStepLines, Zenon DEF ConsoleInv
  <1>4. ASSUME NEW c \in Cpus, NEW l \in Locks, CallWith(c, l)
        PROVE  ConsoleInv'
    <2>1. /\ c \in S /\ DisableIrq(c, l) /\ MayCall(c, l)
          /\ UNCHANGED <<thr, lost, left, polled, depth, halted>>
          /\ frames' = [frames EXCEPT ![c] = Append(@, With(l, irq[c], "off"))]
      BY <1>1, <1>4 DEF CallWith, Running, Counted, uart, DisableIrq
    <2>2. LockInv(S)'
      BY <1>2, <2>1, LockStepInv, Zenon
    <2>3. With(l, irq[c], "off") \in FrameType /\ With(l, irq[c], "off").pc = "off" /\ With(l, irq[c], "off").lock = l
      BY <1>2 DEF With, FrameType, Pcs, TypeOK
    <2>4. InOrder' /\ Innermost'
      BY <1>2, <2>1, <2>3, CallOrder, PushOrder, Zenon
    <2>5. ~Printing(c)
      BY <2>1, RankFacts DEF Printing, MayCall, At
    <2>6. Lines' /\ ConsoleTypeOK'
      BY <2>1, <2>3, <2>5, PushLines, Zenon
    <2> QED BY <1>1, <2>1, <2>2, <2>4, <2>6, Zenon DEF ConsoleInv
  <1>5. ASSUME NEW c \in Cpus, TakeInterrupt(c)
        PROVE  ConsoleInv'
    <2>1. /\ c \in S /\ Interrupt(c) /\ irq[c]
          /\ UNCHANGED <<thr, lost, left, polled, depth, halted>>
          /\ frames' = [frames EXCEPT ![c] = Append(@, Handler)]
      BY <1>1, <1>5 DEF TakeInterrupt, Counted, uart, Interrupt
    <2>2. LockInv(S)'
      BY <1>2, <2>1, LockStepInv
    <2>3. Handler \in FrameType /\ Handler.pc = "handler"
      BY DEF Handler, FrameType, Pcs
    <2>4. frames[c] = <<>> /\ DOMAIN frames[c] = {}
      BY <1>2, <2>1 DEF LockInv, IrqOK, TypeOK
    <2>5. InOrder' /\ Innermost'
      BY <1>2, <2>1, <2>3, <2>4, PushOrder, Zenon
    <2>6. Lines' /\ ConsoleTypeOK'
      BY <2>1, <2>3, <2>4, PushLines, Zenon DEF Printing, At, Busy
    <2> QED BY <1>1, <2>1, <2>2, <2>5, <2>6, Zenon DEF ConsoleInv
  <1>6. ASSUME UNCHANGED <<vars, depth, halted>>
        PROVE  /\ LockInv(Cpus \ halted)' /\ InOrder' /\ Innermost'
               /\ \A c \in Cpus : Printing(c)' = Printing(c)
               /\ \A c \in Cpus : \A i \in Nat : Holds(c, i, CONSOLE)' = Holds(c, i, CONSOLE)
    <2>1. LockInv(S)'
      BY <1>2, <1>6, LockStepInv
    <2>2. UNCHANGED <<frames, depth, halted>>
      BY <1>6, SMTT(30) DEF vars
    <2>3. InOrder' /\ Innermost'
      BY <1>2, <2>2, FramesKept, Zenon
    <2> QED BY <1>1, <2>1, <2>2, <2>3, Zenon DEF Printing, At, Top, Busy, Holds
  <1>7. ASSUME NEW c \in Cpus, Poll(c)
        PROVE  ConsoleInv'
    <2>1. /\ Printing(c) /\ left[c] > 0 /\ ~thr /\ polled' = [polled EXCEPT ![c] = TRUE]
          /\ UNCHANGED <<vars, thr, lost, left, depth, halted>>
      BY <1>7, SMTT(30) DEF Poll, panics, thr_empty
    <2>2. \E i \in Nat : Holds(c, i, CONSOLE)
      BY <1>2, <2>1, TopPlace, Zenon DEF Printing, At, Holds
    <2>3. ConsoleTypeOK'
      BY <1>2, <2>1 DEF ConsoleTypeOK
    <2>4. Lines'
      BY <1>2, <1>6, <2>1, <2>2, Zenon DEF Lines, ConsoleTypeOK
    <2> QED BY <1>6, <2>1, <2>3, <2>4, Zenon DEF ConsoleInv
  <1>8. ASSUME NEW c \in Cpus, WriteByte(c)
        PROVE  ConsoleInv'
    <2>1. /\ Printing(c) /\ polled[c] /\ lost' = (lost \/ thr) /\ thr' = TRUE
          /\ left' = [left EXCEPT ![c] = left[c] - 1] /\ polled' = [polled EXCEPT ![c] = FALSE]
          /\ UNCHANGED <<vars, depth, halted>>
      BY <1>8 DEF WriteByte, panics
    <2>2. polled[c] = TRUE
      BY <1>2, <2>1 DEF ConsoleTypeOK
    <2>3. thr = FALSE /\ left[c] > 0 /\ left[c] \in Nat
      BY <1>2, <2>2, Zenon DEF Lines, ConsoleTypeOK
    <2>4. Holds(c, Len(frames[c]), CONSOLE) /\ Len(frames[c]) \in Nat
      BY <1>2, <2>1, TopPlace, Zenon DEF Printing, At, Holds
    <2>5. \A d \in Cpus \ {c} : polled[d] = FALSE
      <3> SUFFICES ASSUME NEW d \in Cpus \ {c}, polled[d] = TRUE PROVE FALSE
        BY <1>2, Zenon DEF ConsoleTypeOK
      <3>1. \E i \in Nat : Holds(d, i, CONSOLE)
        BY <1>2 DEF Lines
      <3> QED BY <1>2, <2>4, <3>1, ConsoleAssumption, Zenon DEF LockInv, Exclusive
    <2>6. ConsoleTypeOK'
      BY <1>2, <2>1, <2>3 DEF ConsoleTypeOK
    <2>7. \A d \in Cpus : polled'[d] = FALSE
      BY <1>2, <2>1, <2>5 DEF ConsoleTypeOK
    <2>8. lost' = FALSE
      BY <1>2, <2>1, <2>3, Zenon DEF Lines
    <2>9. \A d \in Cpus : left'[d] > 0 => left[d] > 0
      BY <1>2, <2>1, <2>3, Zenon DEF ConsoleTypeOK
    <2>10. Lines'
      BY <1>2, <1>6, <2>1, <2>7, <2>8, <2>9, Zenon DEF Lines
    <2> QED BY <1>6, <2>1, <2>6, <2>10 DEF ConsoleInv
  <1>9. CASE Send
    <2>1. thr' = FALSE /\ UNCHANGED <<vars, lost, left, polled, depth, halted>>
      BY <1>9 DEF Send, panics
    <2>2. ConsoleTypeOK' /\ Lines'
      BY <1>2, <1>6, <2>1, Zenon DEF Lines, ConsoleTypeOK
    <2> QED BY <1>6, <2>1, <2>2, Zenon DEF ConsoleInv
  <1>10. ASSUME NEW c \in Cpus, Panic(c)
         PROVE  ConsoleInv'
    <2>1. /\ depth' = [depth EXCEPT ![c] = Len(frames[c])]
          /\ UNCHANGED <<locked, disable_count, frames, thr, lost, left, polled>>
          /\ Len(frames[c]) > depth[c]
      BY <1>10 DEF Panic, uart, Running
    <2>2. Len(frames[c]) \in Nat
      BY <1>2 DEF TypeOK
    <2>3. \A d \in Cpus : depth'[d] \in Int /\ depth'[d] >= depth[d]
      BY <1>2, <2>1, <2>2, SMTT(30) DEF ConsoleTypeOK
    <2>4. InOrder'
      <3>1. \A d \in Cpus : \A i \in DOMAIN frames[d] : i \in Nat
        BY <1>2 DEF TypeOK
      <3>2. \A d \in Cpus : \A i \in Nat : i <= depth[d] => i <= depth'[d]
        BY <1>2, <2>3 DEF ConsoleTypeOK
      <3> SUFFICES ASSUME NEW d \in Cpus, NEW i \in DOMAIN frames[d], NEW j \in DOMAIN frames[d],
                          i < j, frames[d][i].pc # "handler"
                   PROVE  \/ Rank[frames[d][j].lock] < Rank[frames[d][i].lock]
                          \/ frames[d][i].lock = CONSOLE /\ frames[d][j].lock = CONSOLE /\ i <= depth'[d]
        BY <2>1, RankConstant, Zenon DEF InOrder
      <3>3. \/ Rank[frames[d][j].lock] < Rank[frames[d][i].lock]
            \/ frames[d][i].lock = CONSOLE /\ frames[d][j].lock = CONSOLE /\ i <= depth[d]
        BY <1>2, Zenon DEF InOrder
      <3> QED BY <3>1, <3>2, <3>3, Zenon
    <2>5. Innermost'
      BY <1>2, <2>1, Zenon DEF Innermost, Holds
    <2>6. LockInv(Cpus \ halted)' /\ halted' \subseteq Cpus
      <3>1. CASE swap_false
        <4>1. UNCHANGED <<vars, halted>>
          BY <1>10, <2>1, <3>1, Zenon DEF Panic, vars
        <4>2. LockInv(S)'
          BY <1>2, <4>1, LockStepInv, Zenon
        <4> QED BY <1>1, <1>2, <4>1, <4>2, Zenon DEF ConsoleTypeOK
      <3>2. CASE ~swap_false
        <4>1. /\ halted' = halted \union {c} /\ irq' = [irq EXCEPT ![c] = FALSE]
              /\ base' = [base EXCEPT ![c] = FALSE]
          BY <1>10, <3>2, Zenon DEF Panic
        <4>2. LockInv(S \ {c})'
          BY <1>2, <2>1, <4>1, Stops, Zenon
        <4>3. S \ {c} = Cpus \ halted'
          BY <1>1, <4>1, Zenon
        <4> QED BY <1>2, <4>1, <4>2, <4>3, Zenon DEF ConsoleTypeOK
      <3> QED BY <3>1, <3>2
    <2>7. ConsoleTypeOK'
      BY <1>2, <2>1, <2>2, <2>6, SMTT(30) DEF ConsoleTypeOK
    <2>8. Lines'
      <3>1. \A d \in Cpus : Printing(d)' = Printing(d) /\ \A i \in Nat : Holds(d, i, CONSOLE)' = Holds(d, i, CONSOLE)
        BY <2>1, Zenon DEF Printing, At, Top, Busy, Holds
      <3>2. \A d \in Cpus : depth[d] >= 0 => depth'[d] >= 0
        BY <1>2, <2>3 DEF ConsoleTypeOK
      <3> QED BY <1>2, <2>1, <3>1, <3>2, Zenon DEF Lines
    <2> QED BY <2>4, <2>5, <2>6, <2>7, <2>8, Zenon DEF ConsoleInv
  <1>11. ASSUME NEW c \in Cpus, ReportLine(c)
         PROVE  ConsoleInv'
    <2> DEFINE f == With(CONSOLE, irq[c], "off")
    <2>1. /\ Len(frames[c]) = depth[c] /\ irq' = [irq EXCEPT ![c] = FALSE]
          /\ frames' = [frames EXCEPT ![c] = Append(@, f)]
          /\ UNCHANGED <<locked, disable_count, base, thr, lost, left, polled, depth, halted>>
      BY <1>11, Zenon DEF ReportLine, Reporting, irq_disable, uart, panics
    <2>2. f \in FrameType /\ f.pc = "off" /\ f.lock = CONSOLE /\ f.prev = irq[c]
      BY <1>2, ConsoleAssumption, Zenon DEF With, FrameType, Pcs, TypeOK
    <2> HIDE DEF f
    <2>3. LockInv(S)'
      BY <1>2, <2>1, <2>2, PushKeeps, ConsoleAssumption, Zenon
    <2>4. \A i \in DOMAIN frames[c] : frames[c][i].pc # "handler" =>
            \/ Rank[f.lock] < Rank[frames[c][i].lock]
            \/ frames[c][i].lock = CONSOLE /\ f.lock = CONSOLE /\ i <= depth[c]
      <3>1. \A i \in DOMAIN frames[c] : i <= depth[c]
        BY <1>2, <2>1 DEF TypeOK
      <3>2. \A i \in DOMAIN frames[c] : frames[c][i].pc # "handler" => frames[c][i].lock \in Locks
        BY <1>2, Zenon DEF LockInv, FramesOK
      <3>3. \A l \in Locks \ {CONSOLE} : Rank[CONSOLE] < Rank[l]
        BY RankFacts
      <3> QED BY <2>2, <3>1, <3>2, <3>3, Zenon
    <2>5. InOrder' /\ Innermost'
      BY <1>2, <2>1, <2>2, <2>4, PushOrder, Zenon
    <2>6. depth[c] >= 0
      BY <1>2, <2>1 DEF TypeOK
    <2>7. Lines' /\ ConsoleTypeOK'
      BY <2>1, <2>2, <2>6, PushLines, Zenon
    <2> QED BY <1>1, <2>1, <2>3, <2>5, <2>7, Zenon DEF ConsoleInv
  <1>12. ASSUME NEW c \in Cpus, Halt(c)
         PROVE  ConsoleInv'
    <2>1. /\ halted' = halted \union {c} /\ irq' = [irq EXCEPT ![c] = FALSE] /\ base' = [base EXCEPT ![c] = FALSE]
          /\ UNCHANGED <<locked, disable_count, frames, thr, lost, left, polled, depth>>
      BY <1>12 DEF Halt, uart
    <2>2. LockInv(S \ {c})'
      BY <1>2, <2>1, Stops, Zenon
    <2>3. S \ {c} = Cpus \ halted'
      BY <1>1, <2>1, SMTT(30)
    <2>4. InOrder' /\ Innermost'
      BY <1>2, <2>1, FramesKept, Zenon
    <2>5. ConsoleTypeOK'
      BY <1>2, <2>1, SMTT(30) DEF ConsoleTypeOK
    <2>6. Lines'
      BY <1>2, <2>1, Zenon DEF Lines, Printing, At, Top, Busy, Holds
    <2> QED BY <2>2, <2>3, <2>4, <2>5, <2>6, Zenon DEF ConsoleInv
  <1>13. CASE UNCHANGED consoleVars
    <2>1. UNCHANGED <<vars, thr, lost, left, polled, depth, halted>>
      BY <1>13, SMTT(30) DEF consoleVars, uart, panics
    <2>2. ConsoleTypeOK' /\ Lines'
      BY <1>2, <1>6, <2>1, Zenon DEF Lines, ConsoleTypeOK
    <2> QED BY <1>6, <2>1, <2>2 DEF ConsoleInv
  <1> QED BY <1>3, <1>4, <1>5, <1>7, <1>8, <1>9, <1>10, <1>11, <1>12, <1>13, Zenon DEF ConsoleNext, Advance

\* ConsoleInv is inductive.
LEMMA ConsoleInvariance == ConsoleSpec => []ConsoleInv
  <1>1. ConsoleInit => ConsoleInv
    <2> SUFFICES ASSUME ConsoleInit PROVE ConsoleInv
      OBVIOUS
    <2>1. LockInv(Cpus \ halted)
      BY InitLock DEF ConsoleInit
    <2>2. \A c \in Cpus : DOMAIN frames[c] = {}
      BY SMTT(30) DEF ConsoleInit, Init
    <2>3. InOrder /\ Innermost
      BY <2>2, Zenon DEF InOrder, Innermost
    <2>4. ConsoleTypeOK
      <3>1. left \in [Cpus -> Nat] /\ depth \in [Cpus -> Int] /\ halted \subseteq Cpus
        BY DEF ConsoleInit
      <3>2. polled \in [Cpus -> BOOLEAN] /\ thr \in BOOLEAN
        BY Zenon DEF ConsoleInit
      <3> QED BY <3>1, <3>2 DEF ConsoleTypeOK
    <2>5. Lines
      BY DEF ConsoleInit, Lines
    <2> QED BY <2>1, <2>3, <2>4, <2>5 DEF ConsoleInv
  <1>2. ConsoleInv /\ [ConsoleNext]_consoleVars => ConsoleInv'
    BY ConsoleStepInv
  <1> QED BY <1>1, <1>2, PTL DEF ConsoleSpec

\* The locks exclude each other and the guards are exact with panics too, which abandon
\* the calls in progress and take CONSOLE on top of them.
THEOREM ConsoleExcludes == ConsoleSpec => [](MutualExclusion /\ GuardsExact)
  <1>1. ConsoleInv => MutualExclusion /\ GuardsExact
    BY LockInvExcludes, LockInvGuards DEF ConsoleInv
  <1> QED BY <1>1, ConsoleInvariance, PTL

\* Serial::write_byte never writes to a full register, whoever else prints or panics
\* between its two accesses.
THEOREM ConsoleNoByteLost == ConsoleSpec => []NoByteLost
  <1>1. ConsoleInv => NoByteLost
    BY DEF ConsoleInv, Lines, NoByteLost
  <1> QED BY <1>1, ConsoleInvariance, PTL

\* Sets of natural numbers have least elements.
LEMMA LeastElement ==
  ASSUME NEW S \in SUBSET Nat, S # {}
  PROVE  \E n \in S : \A m \in S : n <= m
  <1> DEFINE R == OpToRel(<, Nat)
  <1>1. IsWellFoundedOn(R, Nat)
    BY NatLessThanWellFounded
  <1>2. \A x, y \in Nat : y < x => <<y, x>> \in R
    BY DEF OpToRel
  <1> HIDE DEF R
  <1>3. PICK n \in S : \A m \in S : <<m, n>> \notin R
    BY <1>1, WFMin, Zenon
  <1>4. ASSUME NEW m \in S PROVE n <= m
    <2>1. ~(m < n)
      BY <1>2, <1>3, Zenon
    <2> QED BY <2>1
  <1> QED BY <1>4

\* A processor that spins while another holds the lock: the holder, if it spins too, is
\* after a later lock in the order, or it waits for its own println!.
LEMMA WaitsInOrder ==
  ASSUME ConsoleInv, NEW c \in Cpus, NEW d \in Cpus, <<c, d>> \in WaitsFor, At(d, "spin")
  PROVE  /\ Top(c).lock \in Locks /\ Top(d).lock \in Locks
         /\ \/ Rank[Top(d).lock] < Rank[Top(c).lock]
            \/ <<d, d>> \in WaitsFor /\ CONSOLE \in Kept(d)
  <1>1. TypeOK /\ FramesOK(Cpus \ halted) /\ InOrder /\ ConsoleTypeOK
    BY DEF ConsoleInv, LockInv
  <1>2. At(c, "spin") /\ \E h \in Holders(Top(c).lock) : h[1] = d
    BY DEF WaitsFor
  <1>3. \A l : \A h \in Holders(l) : h[1] = d =>
          \E i \in DOMAIN frames[d] : h = <<d, i>> /\ frames[d][i].lock = l /\ frames[d][i].pc = "held"
    BY DEF Holders
  <1>4. PICK i \in DOMAIN frames[d] : frames[d][i].lock = Top(c).lock /\ frames[d][i].pc = "held"
    BY <1>2, <1>3, Zenon
  <1> DEFINE n == Len(frames[d])
  <1>5. n \in DOMAIN frames[d] /\ n \in Nat /\ i \in Nat /\ i <= n /\ Top(d) = frames[d][n] /\ Top(d).pc = "spin"
    BY <1>1, TopPlace, Zenon DEF At
  <1> HIDE DEF n
  <1>6. i < n
    <2>1. i # n
      BY <1>4, <1>5, Zenon
    <2> QED BY <1>5, <2>1
  <1>7. Top(c).lock \in Locks /\ Top(d).lock \in Locks
    <2>1. frames[d][i].lock \in Locks
      BY <1>1, <1>4, Zenon DEF FramesOK
    <2>2. frames[d][n].lock \in Locks
      BY <1>1, <1>5, Zenon DEF FramesOK
    <2> QED BY <1>4, <1>5, <2>1, <2>2, Zenon
  <1>8. \/ Rank[Top(d).lock] < Rank[Top(c).lock]
        \/ Top(c).lock = CONSOLE /\ Top(d).lock = CONSOLE /\ i <= depth[d]
    BY <1>1, <1>4, <1>5, <1>6, Zenon DEF InOrder
  <1>9. ASSUME Top(c).lock = CONSOLE, Top(d).lock = CONSOLE, i <= depth[d]
        PROVE  <<d, d>> \in WaitsFor /\ CONSOLE \in Kept(d)
    <2>1. <<d, i>> \in Holders(CONSOLE)
      <3> DEFINE at == {j \in DOMAIN frames[d] : frames[d][j].lock = CONSOLE /\ frames[d][j].pc = "held"}
      <3>1. i \in at
        BY <1>4, <1>9, Zenon
      <3>2. <<d, i>> \in {<<d, j>> : j \in at}
        BY <3>1, Zenon
      <3> QED BY <3>2, Zenon DEF Holders
    <2>2. <<d, d>> \in WaitsFor
      BY <1>9, <2>1, Zenon DEF WaitsFor
    <2>3. i \in 1 .. depth[d]
      BY <1>1, <1>9, SMTT(30) DEF TypeOK, ConsoleTypeOK
    <2>4. CONSOLE \in Kept(d)
      BY <1>4, <1>9, <2>3, Zenon DEF Kept
    <2> QED BY <2>2, <2>4, SMTT(30)
  <1> QED BY <1>7, <1>8, <1>9, Zenon

\* No processor waits for itself, directly or through others, for any nesting of locks
\* in one order; but for a println! that panics.
THEOREM ConsoleNoWaitCycle == ConsoleSpec => []NoWaitCycle
  <1>1. ConsoleInv => NoWaitCycle
    <2> SUFFICES ASSUME ConsoleInv, NEW S \in SUBSET Cpus, Deadlocked(S),
                        ~\E c \in S : <<c, c>> \in WaitsFor /\ CONSOLE \in Kept(c)
                 PROVE  FALSE
      BY DEF NoWaitCycle
    <2>1. \A c \in S : At(c, "spin") /\ \E d \in S : <<c, d>> \in WaitsFor
      BY Zenon DEF Deadlocked, WaitsFor
    <2>2. \A c, d \in S : <<c, d>> \in WaitsFor =>
            Top(c).lock \in Locks /\ Top(d).lock \in Locks /\ Rank[Top(d).lock] < Rank[Top(c).lock]
      BY <2>1, WaitsInOrder, Zenon
    <2> DEFINE Ranks == {r \in Nat : \E c \in S : Top(c).lock \in Locks /\ r = Rank[Top(c).lock]}
    <2>3. Ranks # {}
      <3>1. PICK c \in S : Top(c).lock \in Locks
        BY <2>1, <2>2, Zenon DEF Deadlocked
      <3> QED BY <3>1, RankFacts
    <2>4. PICK r \in Ranks : \A q \in Ranks : r <= q
      <3> HIDE DEF Ranks
      <3>1. Ranks \subseteq Nat
        BY DEF Ranks
      <3> QED BY <2>3, <3>1, LeastElement, SMTT(30)
    <2>5. PICK c \in S : Top(c).lock \in Locks /\ r = Rank[Top(c).lock]
      BY <2>4, Zenon
    <2>6. PICK d \in S : Top(d).lock \in Locks /\ Rank[Top(d).lock] < r
      BY <2>1, <2>2, <2>5, Zenon
    <2>7. Rank[Top(d).lock] \in Ranks
      BY <2>6, RankFacts, Zenon
    <2> QED BY <2>4, <2>6, <2>7, RankFacts, SMTT(30)
  <1> QED BY <1>1, ConsoleInvariance, PTL
=============================================================================

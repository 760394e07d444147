----------------------------- MODULE RootsProofs -----------------------------
(***************************************************************************)
(* The root tables of low address spaces, for any number of them, of       *)
(* threads and of kernel slots: the kernel's half agrees in all of them,   *)
(* and CR3 holds the root of the running thread's space, which is not      *)
(* freed while it is in use.                                               *)
(***************************************************************************)
EXTENDS Roots, SchedProofs

\* The stages from which on every slot of the kernel's half has a table.
Completed == {"protect_kimage", "flush_kernel_tlb", "done", "ready"}

\* finish_init_kernel_pt has given every slot its table by the time the first root is
\* made, and no table at that level ever goes.
KernelView ==
  /\ pml4 \in [KernelSlots -> Frames \union {BootTable, NoTable}]
  /\ shadow \in [AddrSpaces -> [KernelSlots -> Frames \union {BootTable, NoTable}]]
  /\ avail \subseteq Frames
  /\ stage \in Completed => \A s \in KernelSlots : pml4[s] # NoTable
  /\ stage # "ready" => \A a \in AddrSpaces : root[a] = NoTable
  /\ root \in [AddrSpaces -> Frames \union {NoTable}]
  /\ \A a \in AddrSpaces : root[a] # NoTable => shadow[a] = pml4

\* The tables the processor uses.
Active ==
  /\ stage # "ready" => pc = "boot" /\ held = {}
  /\ stage \notin {"boot_main", "ready"} => cr3 = KernelRoot
  /\ pc # "crashed" => low = IF stack = None THEN None ELSE aspace[stack]
  /\ stage = "ready" /\ pc # "crashed" => cr3 = set_low_root_pt(low)

\* Whoever can use a space keeps its root.
Kept ==
  /\ held \subseteq AddrSpaces
  /\ \A a \in held : root[a] # NoTable
  /\ aspace[Idle] = None
  /\ \A t \in Threads : mem[t] = "live" /\ aspace[t] # None => root[aspace[t]] # NoTable

RootInv == SchedInv /\ KernelView /\ Active /\ Kept
-----------------------------------------------------------------------------
\* A table taken from pmm.
LEMMA TakesFrame ==
  ASSUME avail # {}, avail \subseteq Frames
  PROVE  (CHOOSE f \in avail : TRUE) \in Frames /\ (CHOOSE f \in avail : TRUE) # NoTable
  BY TablesAssumption, SMTT(30)

\* kernel_main up to the first thread: every slot gets its table.
LEMMA BootView ==
  ASSUME KernelView, Active, Boot
  PROVE  KernelView' /\ stage # "ready" /\ (stage # "boot_main" \/ stage' # "ready")
         /\ cr3' = IF stage = "boot_main" /\ stage' # "boot_main" THEN KernelRoot ELSE cr3
  <1> SUFFICES ASSUME MmuNext, UNCHANGED <<vars, rootVars>>
               PROVE  KernelView' /\ stage # "ready" /\ (stage # "boot_main" \/ stage' # "ready")
                      /\ cr3' = IF stage = "boot_main" /\ stage' # "boot_main" THEN KernelRoot ELSE cr3
    BY DEF Boot
  <1> USE DEF KernelView, Completed, rootVars
  <1>1. CASE Cache
    BY <1>1 DEF Cache
  <1>2. CASE BootMain
    BY <1>2, SlotsAssumption DEF BootMain, Goes
  <1>3. CASE HighEntry
    BY <1>3 DEF HighEntry, Goes
  <1>4. CASE InitEarly
    <2>1. stage \notin Completed /\ stage' \notin Completed /\ stage # "boot_main" /\ UNCHANGED <<cr3, pml4, avail>>
      BY <1>4 DEF InitEarly, InitMmuRegs, SetCd, Wbinvd, ReloadCr3, SetTypes, SetPge, Goes
    <2> QED BY <2>1
  <1>5. CASE MapPhysmap
    BY <1>5 DEF MapPhysmap, Goes
  <1>6. ASSUME NEW s \in KernelSlots, FinishSlot(s)
        PROVE  KernelView' /\ stage # "ready" /\ stage # "boot_main" /\ cr3' = cr3
    <2>1. stage = "finish_init_kernel_pt" /\ stage' \in {"finish_init_kernel_pt", "panic"} /\ cr3' = cr3
      BY <1>6 DEF FinishSlot
    <2>2. CASE avail = {}
      BY <1>6, <2>1, <2>2 DEF FinishSlot
    <2>3. CASE avail # {}
      BY <1>6, <2>1, <2>3, TakesFrame DEF FinishSlot
    <2> QED BY <2>1, <2>2, <2>3
  <1>7. CASE FinishInitKernelPt
    BY <1>7 DEF FinishInitKernelPt, Goes, Absent
  <1>8. CASE ProtectKimage
    BY <1>8 DEF ProtectKimage, Goes
  <1>9. CASE FlushKernelTlb
    BY <1>9 DEF FlushKernelTlb
  <1>10. CASE MmuDone
    BY <1>10 DEF MmuDone, Goes
  <1> QED BY <1>1, <1>2, <1>3, <1>4, <1>5, <1>6, <1>7, <1>8, <1>9, <1>10, Zenon DEF MmuNext

\* What frees spaces keeps the roots of those that a caller or a live thread still uses,
\* and makes none.
LEMMA ReleaseKeeps ==
  ASSUME KernelView, NEW keep, Release(keep)
  PROVE  /\ root' \in [AddrSpaces -> Frames \union {NoTable}]
         /\ shadow' \in [AddrSpaces -> [KernelSlots -> Frames \union {BootTable, NoTable}]]
         /\ avail' \subseteq Frames
         /\ \A a \in AddrSpaces : root'[a] # NoTable => root'[a] = root[a] /\ shadow'[a] = shadow[a]
         /\ \A a \in AddrSpaces : a \in keep \/ Users(a)' # {} => root'[a] = root[a]
  <1>1. \A a \in AddrSpaces : root'[a] = IF a \in Dropped(keep) THEN NoTable ELSE root[a]
    BY DEF Release
  <1>2. \A a \in AddrSpaces : a \in Dropped(keep) => a \notin keep /\ Users(a)' = {} /\ root[a] # NoTable
    BY DEF Dropped
  <1>3. root' \in [AddrSpaces -> Frames \union {NoTable}]
    BY DEF Release, KernelView
  <1>4. avail' \subseteq Frames
    BY <1>2 DEF Release, KernelView, Dropped
  <1>5. \A a \in AddrSpaces : root'[a] # NoTable => root'[a] = root[a] /\ shadow'[a] = shadow[a]
    BY <1>1 DEF Release
  <1>6. shadow' \in [AddrSpaces -> [KernelSlots -> Frames \union {BootTable, NoTable}]]
    <2>1. NoTables \in [KernelSlots -> Frames \union {BootTable, NoTable}]
      BY DEF NoTables
    <2> QED BY <2>1 DEF Release, KernelView
  <1> QED BY <1>1, <1>2, <1>3, <1>4, <1>5, <1>6

\* A step of the scheduler makes no thread but the one it spawns, which gets the space
\* that it is spawned in.
LEMMA ThreadsKept ==
  ASSUME SchedInv,
         \/ \E t \in Threads : DropRef(t)
         \/ Start \/ Exit \/ CompleteHandoff \/ EndGuard \/ Resched \/ SetReschedPending \/ IdleLoop
         \/ \E isFault \in BOOLEAN : Current(isFault)
  PROVE  UNCHANGED aspace /\ \A t \in Threads : mem'[t] = "live" => mem[t] = "live"
  <1> USE DEF SchedInv
  <1>1. Threads \subseteq All /\ Idle \notin Threads
    BY ThreadsAssumption DEF All
  <1>2. ASSUME NEW t \in Threads, DropRef(t)
        PROVE  UNCHANGED aspace /\ \A u \in Threads : mem'[u] = "live" => mem[u] = "live"
    BY <1>1, <1>2 DEF DropRef, MemAfter, TypeOK
  <1>3. CASE Start
    BY <1>1, <1>3, Zenon DEF Start, TypeOK
  <1>4. CASE Exit
    BY <1>4, Zenon DEF Exit, threadVars
  <1>5. CASE CompleteHandoff
    BY <1>1, <1>5, Zenon DEF CompleteHandoff, drop_owner, MemAfter
  <1>6. CASE EndGuard
    BY <1>6 DEF EndGuard
  <1>7. CASE Resched
    BY <1>7 DEF Resched
  <1>8. CASE SetReschedPending
    BY <1>8 DEF SetReschedPending, threadVars
  <1>9. CASE IdleLoop
    BY <1>9 DEF IdleLoop, vars
  <1>10. ASSUME NEW isFault \in BOOLEAN, Current(isFault)
         PROVE  UNCHANGED aspace /\ \A u \in Threads : mem'[u] = "live" => mem[u] = "live"
    BY <1>10, Zenon DEF Current
  <1> QED BY <1>2, <1>3, <1>4, <1>5, <1>6, <1>7, <1>8, <1>9, <1>10, Zenon

\* Every switch of threads switches to the low address space of the new one.
LEMMA LowFollows ==
  ASSUME SchedInv, Next,
         pc # "crashed" => low = IF stack = None THEN None ELSE aspace[stack]
  PROVE  pc' # "crashed" => low' = IF stack' = None THEN None ELSE aspace[stack']
  <1> USE DEF SchedInv
  <1>1. CASE Start
    <2>1. Head(run_queue) \in Threads
      BY <1>1, PopFront, SMTT(30) DEF Start, Places, TypeOK
    <2>2. low = None
      BY <1>1, Zenon DEF Start, Control
    <2> QED BY <1>1, <2>1, <2>2, ThreadsAssumption, Zenon DEF Start
  <1>2. CASE Exit
    <2> SUFFICES ASSUME disable_count = 0 /\ irq
                 PROVE  low' = IF stack' = None THEN None ELSE aspace[stack']
      BY <1>2, Zenon DEF Exit
    <2>1. current = stack /\ stack # None /\ pc # "crashed"
      <3>1. InBody
        BY <1>2 DEF Exit
      <3>2. current = stack /\ stack \in Threads
        BY <3>1, Bodies
      <3>3. pc # "crashed"
        BY <3>1 DEF InBody
      <3> QED BY <3>2, <3>3, ThreadsAssumption
    <2> DEFINE new == take_ready_thread(run_queue)
    <2>2. new \in All
      <3>1. InBody
        BY <1>2 DEF Exit
      <3>2. idle_thread = Idle /\ mem[Idle] = "live" /\ state[Idle] = "ready"
        BY <3>1, Bodies, Zenon
      <3> QED BY <3>2, TakeReady, Zenon DEF Places, InQueue, TypeOK
    <2>3. stack' = new /\ low' = IF aspace[stack] = aspace[new] THEN low ELSE aspace[new]
      BY <1>2, <2>1, Zenon DEF Exit, SwitchTo, old_space
    <2> QED BY <2>1, <2>2, <2>3, ThreadsAssumption, SMTT(30) DEF All
  <1>3. CASE Resched
    <2>1. current = stack /\ stack # None /\ pc # "crashed"
      BY <1>3, Zenon DEF Resched, Control
    <2> DEFINE new == take_ready_thread(push_ready(current))
    <2>2. stack' = new /\ low' = IF aspace[stack] = aspace[new] THEN low ELSE aspace[new]
      BY <1>3, <2>1, Zenon DEF Resched, SwitchTo, old_space
    <2>3. SchedInv' /\ pc' # "boot"
      BY <1>3, ReschedInv, Zenon DEF Resched, SwitchTo
    <2>4. stack' # None
      BY <2>3, Zenon DEF Control
    <2> QED BY <2>1, <2>2, <2>4, SMTT(30)
  <1>4. CASE UNCHANGED <<stack, low>> /\ (pc' # "crashed" => pc # "crashed")
    BY <1>4
  <1>5. ASSUME ~Start, ~Exit, ~Resched
        PROVE  UNCHANGED <<stack, low>> /\ (pc' # "crashed" => pc # "crashed")
    BY <1>5, Zenon DEF Next, Spawn, DropRef, CompleteHandoff, Current, EndGuard, SetReschedPending,
                IdleLoop, cpuVars, vars, InBody
  <1> QED BY <1>1, <1>2, <1>3, <1>4, <1>5

\* The parts of RootInv that hold after a step of the scheduler in which every live thread
\* has a space that it had before, or one that a caller holds.
LEMMA SchedStepInv ==
  ASSUME RootInv, WithRoots(Next),
         aspace'[Idle] = aspace[Idle],
         stack' # None => aspace'[stack'] = aspace[stack'],
         \A t \in Threads : mem'[t] = "live" /\ aspace'[t] # None =>
           aspace'[t] \in held \/ (mem[t] = "live" /\ aspace'[t] = aspace[t])
  PROVE  RootInv'
  <1> USE DEF RootInv
  <1>1. /\ stage = "ready" /\ stage' = stage /\ pml4' = pml4 /\ held' = held /\ Release(held)
        /\ cr3' = IF low' = low THEN cr3 ELSE set_low_root_pt(low')
    BY Zenon DEF WithRoots, Release
  <1>1a. Next
    BY Zenon DEF WithRoots
  <1>2. SchedInv'
    BY <1>1a, StepInv, Zenon
  <1>3. /\ root' \in [AddrSpaces -> Frames \union {NoTable}] /\ avail' \subseteq Frames
        /\ shadow' \in [AddrSpaces -> [KernelSlots -> Frames \union {BootTable, NoTable}]]
        /\ \A a \in AddrSpaces : root'[a] # NoTable => root'[a] = root[a] /\ shadow'[a] = shadow[a]
        /\ \A a \in AddrSpaces : a \in held \/ Users(a)' # {} => root'[a] = root[a]
    BY <1>1, ReleaseKeeps, Zenon
  <1>4. KernelView'
    BY <1>1, <1>3, Zenon DEF KernelView, Completed
  <1>5. \A t \in Threads : aspace'[t] \in AddrSpaces \union {None}
    BY <1>2, Zenon DEF SchedInv, TypeOK, All
  <1>5a. \A a \in AddrSpaces : \A t \in Threads : mem'[t] = "live" /\ aspace'[t] = a => Users(a)' # {}
    BY Zenon DEF Users
  <1>6. \A t \in Threads : mem'[t] = "live" /\ aspace'[t] # None =>
          root'[aspace'[t]] = root[aspace'[t]] /\ root'[aspace'[t]] # NoTable
    <2> SUFFICES ASSUME NEW t \in Threads, mem'[t] = "live", aspace'[t] # None
                 PROVE  root'[aspace'[t]] = root[aspace'[t]] /\ root'[aspace'[t]] # NoTable
      OBVIOUS
    <2> DEFINE a == aspace'[t]
    <2>1. a \in AddrSpaces
      BY <1>5
    <2>2. root'[a] = root[a]
      BY <1>3, <1>5a, <2>1, Zenon
    <2>3. root[a] # NoTable
      BY Zenon DEF Kept
    <2> QED BY <2>2, <2>3
  <1>7. Kept'
    BY <1>1, <1>3, <1>6, Zenon DEF Kept
  <1>8. pc' # "crashed" => low' = IF stack' = None THEN None ELSE aspace'[stack']
    BY <1>1a, LowFollows, Zenon DEF Active
  <1>9. pc' # "crashed" => cr3' = set_low_root_pt(low)'
    <2> SUFFICES ASSUME pc' # "crashed" PROVE cr3' = set_low_root_pt(low)'
      OBVIOUS
    <2>1. pc # "crashed"
      BY <1>1a, Zenon DEF Next, Spawn, DropRef, Start, Exit, CompleteHandoff, LeaveGuard, Current, EndGuard,
             Resched, SetReschedPending, IdleLoop, InBody, vars
    <2>2. cr3' = set_low_root_pt(low')
      BY <1>1, <2>1, Zenon DEF Active
    <2>3. low' # None => root'[low'] = root[low']
      <3> SUFFICES ASSUME low' # None PROVE root'[low'] = root[low']
        OBVIOUS
      <3>1. stack' # None /\ low' = aspace'[stack']
        BY <1>8, SMTT(30)
      <3>2. stack' \in Threads /\ mem'[stack'] = "live"
        BY <1>2, <1>7, <3>1, Zenon DEF SchedInv, TypeOK, Places, Pointers, Kept, All
      <3> QED BY <1>6, <3>1, <3>2, Zenon
    <2> QED BY <2>2, <2>3 DEF set_low_root_pt
  <1>10. Active'
    BY <1>1, <1>8, <1>9, Zenon DEF Active
  <1> QED BY <1>2, <1>4, <1>7, <1>10, Zenon

\* The space of the running thread is one that a live thread keeps.
LEMMA RunningSpace ==
  ASSUME RootInv, pc # "crashed", low # None
  PROVE  /\ low \in AddrSpaces /\ root[low] # NoTable
         /\ stack \in Threads /\ mem[stack] = "live" /\ aspace[stack] = low
  <1> USE DEF RootInv
  <1>1. stack # None /\ low = aspace[stack]
    BY DEF Active
  <1>2. stack \in Threads /\ mem[stack] = "live"
    BY <1>1, Zenon DEF SchedInv, TypeOK, Places, Pointers, Kept, All
  <1>3. low \in AddrSpaces
    BY SMTT(30) DEF SchedInv, TypeOK
  <1> QED BY <1>1, <1>2, <1>3, Zenon DEF Kept

\* Every step of the system keeps RootInv.
LEMMA RootStepInv ==
  ASSUME RootInv, [RootsNext]_allVars
  PROVE  RootInv'
  <1> USE DEF RootInv
  <1>1. ASSUME UNCHANGED vars
        PROVE  SchedInv' /\ UNCHANGED <<mem, aspace, stack, low, pc>>
    BY <1>1, StepInv DEF vars
  <1>2. CASE Boot
    <2>1. SchedInv' /\ UNCHANGED <<mem, aspace, stack, low, pc, root, shadow, held>>
      BY <1>1, <1>2 DEF Boot, rootVars
    <2>2. /\ KernelView' /\ stage # "ready" /\ (stage # "boot_main" \/ stage' # "ready")
          /\ cr3' = IF stage = "boot_main" /\ stage' # "boot_main" THEN KernelRoot ELSE cr3
      BY <1>2, BootView
    <2>3. Kept'
      BY <2>1 DEF Kept
    <2>4. low = None
      BY <2>2 DEF Active, Control, SchedInv
    <2>5. Active'
      BY <2>1, <2>2, <2>4, Zenon DEF Active, set_low_root_pt
    <2> QED BY <2>1, <2>2, <2>3, <2>5
  <1>3. ASSUME NEW a \in AddrSpaces, MakeSpace(a)
        PROVE  RootInv'
    <2> DEFINE frame == CHOOSE f \in avail : TRUE
    <2>1. SchedInv' /\ UNCHANGED <<mem, aspace, stack, low, pc, stage, cr3, pml4>>
      BY <1>1, <1>3 DEF MakeSpace
    <2>2. frame \in Frames /\ frame # NoTable
      BY <1>3, TakesFrame DEF MakeSpace, KernelView
    <2>3. /\ root[a] = NoTable /\ stage = "ready"
          /\ root' = [root EXCEPT ![a] = frame] /\ avail' = avail \ {frame}
          /\ shadow' = [shadow EXCEPT ![a] = pml4] /\ held' = held \union {a}
      BY <1>3 DEF MakeSpace, prepare_low_pt_root
    <2> HIDE DEF frame
    <2>4. KernelView'
      BY <2>1, <2>2, <2>3, Zenon DEF KernelView, Completed
    <2>5. \A b \in AddrSpaces : root[b] # NoTable => root'[b] = root[b]
      BY <2>3, SMTT(30) DEF KernelView
    <2>6. Kept'
      <3>1. root'[a] # NoTable
        BY <2>2, <2>3 DEF KernelView
      <3>2. \A t \in Threads : mem[t] = "live" /\ aspace[t] # None => aspace[t] \in AddrSpaces
        BY SMTT(30) DEF SchedInv, TypeOK, All
      <3> QED BY <2>1, <2>3, <2>5, <3>1, <3>2, Zenon DEF Kept
    <2>7. low # None /\ pc # "crashed" => low \in AddrSpaces /\ root[low] # NoTable
      BY RunningSpace, Zenon DEF Active
    <2>8. Active'
      BY <2>1, <2>3, <2>5, <2>7, Zenon DEF Active, set_low_root_pt
    <2> QED BY <2>1, <2>4, <2>6, <2>8
  <1>4. ASSUME NEW a \in AddrSpaces, DropSpace(a)
        PROVE  RootInv'
    <2>1. /\ SchedInv' /\ UNCHANGED <<mem, aspace, stack, low, pc, stage, cr3, pml4>>
          /\ stage = "ready" /\ held' = held \ {a} /\ Release(held \ {a})
      BY <1>1, <1>4, Zenon DEF DropSpace, Release
    <2>2. /\ root' \in [AddrSpaces -> Frames \union {NoTable}] /\ avail' \subseteq Frames
          /\ shadow' \in [AddrSpaces -> [KernelSlots -> Frames \union {BootTable, NoTable}]]
          /\ \A b \in AddrSpaces : root'[b] # NoTable => root'[b] = root[b] /\ shadow'[b] = shadow[b]
          /\ \A b \in AddrSpaces : b \in held \ {a} \/ Users(b)' # {} => root'[b] = root[b]
      BY <2>1, ReleaseKeeps, Zenon
    <2>3. KernelView'
      BY <2>1, <2>2, Zenon DEF KernelView, Completed
    <2>4. \A t \in Threads : mem[t] = "live" /\ aspace[t] # None =>
            aspace[t] \in AddrSpaces /\ root'[aspace[t]] = root[aspace[t]]
      <3>1. \A t \in Threads : aspace[t] \in AddrSpaces \union {None}
        BY DEF SchedInv, TypeOK, All
      <3>2. \A b \in AddrSpaces : \A t \in Threads : mem[t] = "live" /\ aspace[t] = b => Users(b)' # {}
        BY <2>1, Zenon DEF Users
      <3> QED BY <2>2, <3>1, <3>2, Zenon
    <2>5. Kept'
      BY <2>1, <2>2, <2>4, Zenon DEF Kept
    <2>6. low # None /\ pc # "crashed" => root'[low] = root[low]
      BY <2>4, RunningSpace, Zenon DEF Active
    <2>7. Active'
      BY <2>1, <2>6, Zenon DEF Active, set_low_root_pt
    <2> QED BY <2>1, <2>3, <2>5, <2>7, Zenon
  <1>5. ASSUME NEW t \in Threads, NEW a \in AddrSpaces \union {None}, SpawnIn(t, a)
        PROVE  RootInv'
    <2>1. Spawn(t, a) /\ a \in held \union {None}
      BY <1>5 DEF SpawnIn, WithRoots
    <2>2. WithRoots(Next)
      BY <1>5, <2>1, Zenon DEF SpawnIn, WithRoots, Next
    <2>3. aspace' = [aspace EXCEPT ![t] = a] /\ mem' = [mem EXCEPT ![t] = "live"] /\ mem[t] = "unborn" /\ stack' = stack
      BY <2>1, Zenon DEF Spawn
    <2>4. t # stack /\ t # Idle
      <3>1. stack # None => mem[stack] = "live"
        BY Zenon DEF SchedInv, Places, Pointers
      <3> QED BY <2>3, <3>1, ThreadsAssumption
    <2>5. aspace'[Idle] = aspace[Idle] /\ (stack' # None => aspace'[stack'] = aspace[stack'])
      BY <2>3, <2>4, Zenon DEF SchedInv, TypeOK, All
    <2>6. \A u \in Threads : mem'[u] = "live" /\ aspace'[u] # None =>
            aspace'[u] \in held \/ (mem[u] = "live" /\ aspace'[u] = aspace[u])
      <3>1. aspace \in [All -> AddrSpaces \union {None}] /\ DOMAIN mem = All /\ Threads \subseteq All
        BY Zenon DEF SchedInv, TypeOK, All
      <3>2. \A u \in Threads : u # t => aspace'[u] = aspace[u] /\ mem'[u] = mem[u]
        BY <2>3, <3>1
      <3>3. aspace'[t] = a
        BY <2>3, <3>1
      <3> QED BY <2>1, <3>2, <3>3, Zenon
    <2> QED BY <2>2, <2>5, <2>6, SchedStepInv, Zenon
  <1>6. ASSUME WithRoots(Next), UNCHANGED aspace, \A t \in Threads : mem'[t] = "live" => mem[t] = "live"
        PROVE  RootInv'
    BY <1>6, SchedStepInv, Zenon
  <1>7. ASSUME NEW t \in Threads, WithRoots(DropRef(t))
        PROVE  RootInv'
    <2>1. DropRef(t) /\ WithRoots(Next)
      BY <1>7 DEF WithRoots, Next
    <2> QED BY <1>6, <2>1, ThreadsKept, Zenon
  <1>8. ASSUME NEW isFault \in BOOLEAN, WithRoots(Current(isFault))
        PROVE  RootInv'
    <2>1. Current(isFault) /\ WithRoots(Next)
      BY <1>8, Zenon DEF WithRoots, Next
    <2> QED BY <1>6, <2>1, ThreadsKept, Zenon
  <1>9. CASE WithRoots(Start)
    <2>1. Start /\ WithRoots(Next)
      BY <1>9, SMTT(30) DEF WithRoots, Next
    <2> QED BY <1>6, <2>1, ThreadsKept, Zenon
  <1>10. CASE WithRoots(Exit)
    <2>1. Exit /\ WithRoots(Next)
      BY <1>10, Zenon DEF WithRoots, Next
    <2> QED BY <1>6, <2>1, ThreadsKept, Zenon
  <1>11. CASE WithRoots(CompleteHandoff)
    <2>1. CompleteHandoff /\ WithRoots(Next)
      BY <1>11, SMTT(30) DEF WithRoots, Next
    <2> QED BY <1>6, <2>1, ThreadsKept, Zenon
  <1>12. CASE WithRoots(EndGuard)
    <2>1. EndGuard /\ WithRoots(Next)
      BY <1>12 DEF WithRoots, Next
    <2> QED BY <1>6, <2>1, ThreadsKept, Zenon
  <1>13. CASE WithRoots(Resched)
    <2>1. Resched /\ WithRoots(Next)
      BY <1>13, SMTT(30) DEF WithRoots, Next
    <2> QED BY <1>6, <2>1, ThreadsKept
  <1>14. CASE WithRoots(SetReschedPending)
    <2>1. SetReschedPending /\ WithRoots(Next)
      BY <1>14 DEF WithRoots, Next
    <2> QED BY <1>6, <2>1, ThreadsKept, Zenon
  <1>15. CASE WithRoots(IdleLoop)
    <2>1. IdleLoop /\ WithRoots(Next)
      BY <1>15, SMTT(30) DEF WithRoots, Next
    <2> QED BY <1>6, <2>1, ThreadsKept, Zenon
  <1>16. ASSUME NEW s \in KernelSlots, KernelMap(s) \/ KernelUnmap(s)
         PROVE  RootInv'
    <2>1. SchedInv' /\ UNCHANGED <<mem, aspace, stack, low, pc, stage, cr3, root, shadow, held>> /\ stage = "ready"
      BY <1>1, <1>16, Zenon DEF KernelMap, KernelUnmap
    <2>2. pml4[s] # NoTable
      BY <2>1 DEF KernelView, Completed
    <2>3. UNCHANGED <<pml4, avail>>
      BY <1>16, <2>2, SMTT(30) DEF KernelMap, KernelUnmap, can_cull_kernel_pt
    <2> QED BY <2>1, <2>3, Zenon DEF KernelView, Kept, Active, set_low_root_pt
  <1>17. CASE UNCHANGED allVars
    <2>1. SchedInv' /\ UNCHANGED <<mem, aspace, stack, low, pc, stage, cr3, root, shadow, held, pml4, avail>>
      BY <1>1, <1>17, Zenon DEF allVars, mmuVars, rootVars
    <2> QED BY <2>1, Zenon DEF KernelView, Kept, Active, set_low_root_pt
  <1>18. CASE Halted
    BY <1>17, <1>18 DEF Halted
  <1> QED BY Zenon, <1>2, <1>3, <1>4, <1>5, <1>7, <1>8, <1>9, <1>10, <1>11, <1>12, <1>13, <1>14,
             <1>15, <1>16, <1>17, <1>18 DEF RootsNext

\* RootInv is inductive.
LEMMA RootInvariance == RootsSpec => []RootInv
  <1>1. RootsInit => RootInv
    <2> SUFFICES ASSUME RootsInit PROVE RootInv
      OBVIOUS
    <2>1. SchedInv
      BY InitInv DEF RootsInit
    <2>2. KernelView
      <3>1. NoTables \in [KernelSlots -> Frames \union {BootTable, NoTable}]
        BY DEF NoTables
      <3> QED BY <3>1, Zenon DEF RootsInit, MmuInit, KernelView, Completed
    <2>3. Active
      BY Zenon DEF RootsInit, MmuInit, Init, Active
    <2>4. Kept
      BY DEF RootsInit, Init, Kept, All
    <2> QED BY <2>1, <2>2, <2>3, <2>4 DEF RootInv
  <1>2. RootInv /\ [RootsNext]_allVars => RootInv'
    BY RootStepInv
  <1> QED BY <1>1, <1>2, PTL DEF RootsSpec

\* "Low address spaces will always have a consistent view of the kernel address space":
\* for any number of spaces and of kernel mappings made and removed since.
THEOREM RootsKernelView == RootsSpec => []KernelViewAgrees
  <1>1. RootInv => KernelViewAgrees
    BY SMTT(30) DEF RootInv, KernelView, KernelViewAgrees
  <1> QED BY <1>1, RootInvariance, PTL

\* CR3 holds the root of the running thread's space, however threads are switched, and
\* that root is not freed while it does.
THEOREM RootsActive == RootsSpec => []RootActive
  <1>1. RootInv => RootActive
    BY RunningSpace, Zenon DEF RootInv, Active, RootActive
  <1> QED BY <1>1, RootInvariance, PTL
-----------------------------------------------------------------------------
(***************************************************************************)
(* The processor's caches until the kernel is up.                          *)
(***************************************************************************)

\* The instructions of init_pat up to the one that turns global pages on, and its part
\* that runs with caches off.
InitPat == {"no_fill", "wbinvd1", "flush1", "mtrr_off", "write_pat", "mtrr_on", "wbinvd2", "flush2",
            "normal", "set_pge"}
NoFill == InitPat \ {"no_fill", "set_pge"}

\* The stages before those instructions, and those after them.
BeforePat == {"boot_main", "high_entry", "init_mmu_regs"}
AfterPat == {"physmap", "finish_init_kernel_pt", "protect_kimage", "flush_kernel_tlb", "done"}

\* The memory types in force before each instruction.
TypesAt(at) ==
  [pat  |-> IF at \in AfterPat \union {"mtrr_on", "wbinvd2", "flush2", "normal", "set_pge"}
            THEN "kernel" ELSE "firmware",
   mtrr |-> IF at \in {"write_pat", "mtrr_on"} THEN "off"
            ELSE IF at \in AfterPat \union {"wbinvd2", "flush2", "normal", "set_pge"}
            THEN "kernel" ELSE "firmware"]

\* The registers, by the stage that is reached.
Registers ==
  /\ types = TypesAt(stage)
  /\ cd = IF stage \in NoFill THEN TRUE ELSE FALSE
  /\ pge \in BOOLEAN
  /\ stage \in InitPat => pge = FALSE
  /\ stage \in AfterPat => pge = TRUE
  /\ stage \notin BeforePat => guarded = TRUE
  /\ protected = IF stage \in {"flush_kernel_tlb", "done"} THEN TRUE ELSE FALSE
  /\ cr3 = IF stage = "boot_main" THEN Firmware ELSE KernelRoot
  /\ stage \in BeforePat \union InitPat => \A s \in PhysmapSlots : pml4[s] = NoTable

\* What can be cached.  A translation of the firmware's survives the switch of tables
\* only if it is global, and then until global pages are turned off; one that init_pat's
\* changes of types have made stale survives until the second flush.
Cached ==
  /\ lines \subseteq {types}
  /\ stage \in NoFill \ {"wbinvd1"} => lines = {}
  /\ \A e \in tlb :
       /\ e.global \in BOOLEAN
       /\ e.global => pge
       /\ e.what = Firmware => stage = "boot_main" \/ (stage \in BeforePat /\ e.global)
       /\ e.what = "boot" => stage = "high_entry" /\ ~e.global
       /\ stage \notin {"write_pat", "mtrr_on", "wbinvd2", "flush2"} => e.types = types
       /\ stage = "done" /\ e.what = "image" => e.protected

\* The processor until the first thread, unless the kernel has panicked.
MmuInv ==
  /\ stage \in BeforePat \union InitPat \union AfterPat \union {"ready", "panic"}
  /\ stage \notin {"ready", "panic"} => Registers /\ Cached

\* A translation that the processor caches is one of the tables in use.
LEMMA CachesMapped ==
  ASSUME MmuInv, Cache
  PROVE  MmuInv'
  <1> PICK m \in Mapped : /\ tlb' = tlb \union {Translation(m)}
                          /\ lines' \in {lines, IF cd THEN lines ELSE lines \union {types}}
    BY DEF Cache
  <1>1. /\ stage \notin {"ready", "panic"} /\ Registers /\ Cached
        /\ UNCHANGED <<stage, cr3, pge, cd, guarded, types, protected, pml4>>
    BY Zenon DEF Cache, MmuInv, registers
  <1>2. Registers'
    BY <1>1, Zenon DEF Registers
  <1>3. /\ m.global \in BOOLEAN
        /\ m.global => pge
        /\ m.what = Firmware => stage = "boot_main"
        /\ m.what = "boot" => stage = "high_entry" /\ ~m.global
        /\ m.what = "image" => m.protected = protected
    <2>1. CASE cr3 = Firmware
      <3>1. m \in [what : {Firmware}, protected : {FALSE}, global : {FALSE, pge}]
        BY <2>1, Zenon DEF Mapped
      <3>2. stage = "boot_main"
        BY <1>1, <2>1, RootAssumption, Zenon DEF Registers
      <3> QED BY <1>1, <3>1, <3>2, Zenon DEF Registers, Firmware
    <2>2. CASE cr3 # Firmware
      <3>1. \/ stage = "high_entry" /\ m \in [what : {"boot"}, protected : {FALSE}, global : {FALSE}]
            \/ m \in [what : {"image"}, protected : {protected}, global : {pge /\ protected}]
            \/ m \in [what : {"physmap"}, protected : {FALSE}, global : {pge}]
        BY <2>2, Zenon DEF Mapped
      <3>2. pge \in BOOLEAN /\ protected \in BOOLEAN
        BY <1>1, Zenon DEF Registers
      <3> QED BY <3>1, <3>2, Zenon DEF Firmware
    <2> QED BY <2>1, <2>2, Zenon
  <1>4. /\ Translation(m).what = m.what /\ Translation(m).global = m.global
        /\ Translation(m).protected = m.protected /\ Translation(m).types = types
    BY Zenon DEF Translation
  <1>5. stage = "done" => protected = TRUE
    BY <1>1, Zenon DEF Registers
  <1>6. \A e \in tlb' :
          /\ e.global \in BOOLEAN
          /\ e.global => pge
          /\ e.what = Firmware => stage = "boot_main" \/ (stage \in BeforePat /\ e.global)
          /\ e.what = "boot" => stage = "high_entry" /\ ~e.global
          /\ stage \notin {"write_pat", "mtrr_on", "wbinvd2", "flush2"} => e.types = types
          /\ stage = "done" /\ e.what = "image" => e.protected
    <2> SUFFICES ASSUME NEW e \in tlb'
                 PROVE  /\ e.global \in BOOLEAN
                        /\ e.global => pge
                        /\ e.what = Firmware => stage = "boot_main" \/ (stage \in BeforePat /\ e.global)
                        /\ e.what = "boot" => stage = "high_entry" /\ ~e.global
                        /\ stage \notin {"write_pat", "mtrr_on", "wbinvd2", "flush2"} => e.types = types
                        /\ stage = "done" /\ e.what = "image" => e.protected
      BY Zenon
    <2>1. CASE e \in tlb
      BY <1>1, <2>1, Zenon DEF Cached
    <2>2. CASE e = Translation(m)
      BY <1>3, <1>4, <1>5, <2>2, Zenon
    <2> QED BY <2>1, <2>2, Zenon
  <1>7. lines' \subseteq {types} /\ (stage \in NoFill \ {"wbinvd1"} => lines' = {})
    <2>1. lines \subseteq {types} /\ (stage \in NoFill \ {"wbinvd1"} => lines = {} /\ cd = TRUE)
      BY <1>1, Zenon DEF Registers, Cached
    <2> QED BY <2>1
  <1>8. Cached'
    BY <1>1, <1>6, <1>7, Zenon DEF Cached
  <1> QED BY <1>1, <1>2, <1>8, Zenon DEF MmuInv

\* A flush keeps nothing but global translations.
LEMMA FlushesLow ==
  ASSUME Cached
  PROVE  /\ flush_low_tlb \subseteq tlb
         /\ \A e \in flush_low_tlb : e.global = TRUE /\ pge
  BY DEF flush_low_tlb, Cached

\* The switch to the kernel's tables, and the end of the identity mapping.
LEMMA BootCode ==
  ASSUME MmuInv, KernelView, BootMain \/ HighEntry
  PROVE  MmuInv'
  <1>1. /\ stage \in {"boot_main", "high_entry"} /\ Registers /\ Cached
        /\ stage' = IF stage = "boot_main" THEN "high_entry" ELSE "init_mmu_regs"
        /\ tlb' = flush_low_tlb
        /\ UNCHANGED <<pge, cd, guarded, types, protected, lines>>
    BY Zenon DEF BootMain, HighEntry, Goes, MmuInv, registers
  <1>2. Registers'
    <2>1. \A s \in PhysmapSlots : pml4'[s] = pml4[s]
      BY SlotsAssumption, Zenon DEF BootMain, HighEntry, KernelView
    <2>2. cr3' = KernelRoot
      BY <1>1, Zenon DEF BootMain, HighEntry, Goes, Registers
    <2>3. types' = TypesAt(stage)'
      <3>1. TypesAt(stage') = TypesAt(stage)
        BY <1>1, Zenon DEF TypesAt, AfterPat
      <3> QED BY <1>1, <3>1 DEF Registers
    <2> QED BY <1>1, <2>1, <2>2, <2>3, Zenon DEF Registers, BeforePat, InitPat, AfterPat, NoFill
  <1>3. Cached'
    <2>1. \A e \in tlb' : e \in tlb /\ e.global = TRUE /\ pge
      BY <1>1, FlushesLow, Zenon
    <2> QED BY <1>1, <2>1, Zenon DEF Cached, NoFill, InitPat, BeforePat
  <1> QED BY <1>1, <1>2, <1>3 DEF MmuInv, BeforePat

\* The steps of init_mmu_regs and init_pat: each sets what the next stage needs, and while
\* the types change there are no lines; what is cached with old ones goes with the second
\* flush, since no translation is global then.
LEMMA InitEarlyStep ==
  ASSUME MmuInv, InitEarly
  PROVE  MmuInv'
  <1> DEFINE Mixed == {"write_pat", "mtrr_on", "wbinvd2", "flush2"}
             Sets == /\ stage' \in InitPat \union {"physmap"}
                     /\ types' = TypesAt(stage')
                     /\ cd' = IF stage' \in NoFill THEN TRUE ELSE FALSE
                     /\ pge' = IF stage' = "physmap" THEN TRUE ELSE FALSE
                     /\ guarded' = TRUE
             Keeps == /\ lines' \in {lines, {}}
                      /\ stage' \in NoFill \ {"wbinvd1"} => lines' = {}
                      /\ types' = types \/ lines' = {}
                      /\ tlb' \in {tlb, {}}
                      /\ pge' = pge \/ tlb' = {}
                      /\ stage' = "physmap" => stage \in InitPat
                      /\ stage' \notin Mixed => types' = types /\ (stage \notin Mixed \/ tlb' = {})
  <1>1. /\ stage \in InitPat \union {"init_mmu_regs"} /\ Registers /\ Cached
        /\ UNCHANGED <<cr3, protected, pml4>>
    BY Zenon DEF InitEarly, InitMmuRegs, SetCd, Wbinvd, ReloadCr3, SetTypes, SetPge, Goes, MmuInv, registers, InitPat
  <1>2. /\ pge \in BOOLEAN /\ (stage \in InitPat => pge = FALSE /\ guarded = TRUE)
        /\ types = TypesAt(stage) /\ cd = (IF stage \in NoFill THEN TRUE ELSE FALSE)
        /\ (stage \in NoFill \ {"wbinvd1"} => lines = {})
    BY <1>1, Zenon DEF Registers, Cached, InitPat, BeforePat
  <1>3. stage \in InitPat => flush_low_tlb = {}
    BY <1>1, <1>2, FlushesLow, Zenon
  <1>4. ASSUME Sets, Keeps
        PROVE  MmuInv'
    <2>1. Registers'
      BY <1>1, <1>4, Zenon DEF Registers, InitPat, BeforePat, AfterPat, NoFill
    <2>2. Cached'
      <3>1. lines' \subseteq {types'}
        BY <1>1, <1>4, Zenon DEF Cached
      <3>2. CASE tlb' = {}
        BY <1>4, <3>1, <3>2, Zenon DEF Cached
      <3>3. CASE tlb' = tlb /\ tlb' # {}
        <4>1. pge' = pge /\ stage' # "high_entry"
          BY <1>4, <3>3, Zenon DEF InitPat
        <4>2. stage \notin {"boot_main", "high_entry", "done"} /\ stage' # "done"
          BY <1>1, <1>4, Zenon DEF InitPat
        <4>3. \A e \in tlb : e.what \notin {Firmware, "boot"}
          <5>1. stage \in InitPat \/ pge = FALSE
            BY <1>1, <1>4, <4>1, Zenon
          <5> QED BY <1>1, <4>2, <5>1, Zenon DEF Cached, BeforePat, InitPat
        <4>4. \A e \in tlb : /\ e.global \in BOOLEAN /\ (e.global => pge')
                             /\ stage' \notin Mixed => e.types = types'
          <5>1. stage' \notin Mixed => types' = types /\ stage \notin Mixed
            BY <1>4, <3>3, Zenon
          <5>2. \A e \in tlb : e.global \in BOOLEAN /\ (e.global => pge')
            BY <1>1, <4>1, Zenon DEF Cached
          <5> QED BY <1>1, <5>1, <5>2, Zenon DEF Cached
        <4>5. stage' \in NoFill \ {"wbinvd1"} => lines' = {}
          BY <1>4, Zenon
        <4> QED BY <3>1, <3>3, <4>2, <4>3, <4>4, <4>5, Zenon DEF Cached
      <3> QED BY <1>4, <3>2, <3>3, Zenon
    <2> QED BY <1>4, <2>1, <2>2, Zenon DEF MmuInv, InitPat, AfterPat
  <1>5. CASE InitMmuRegs
    <2>1. stage = "init_mmu_regs" /\ stage' = "no_fill" /\ UNCHANGED <<types, lines>> /\ pge' = FALSE
      BY <1>5 DEF InitMmuRegs, Goes, clear_pge
    <2>2. Sets
      BY <1>2, <1>5, <2>1, Zenon DEF InitMmuRegs, InitPat, NoFill, TypesAt, AfterPat
    <2>3. tlb' \in {tlb, {}} /\ (pge' = pge \/ tlb' = {})
      BY <1>5 DEF InitMmuRegs, flush_all
    <2>4. Keeps
      BY <2>1, <2>3, Zenon DEF NoFill
    <2> QED BY <1>4, <2>2, <2>4, Zenon
  <1>6. ASSUME NEW from, NEW to, NEW value \in BOOLEAN, SetCd(from, to, value), 
               <<from, to, value>> \in {<<"no_fill", "wbinvd1", TRUE>>, <<"normal", "set_pge", FALSE>>}
        PROVE  MmuInv'
    <2>1. stage = from /\ stage' = to /\ cd' = value /\ UNCHANGED <<pge, guarded, types, tlb, lines>>
      BY <1>6 DEF SetCd, Goes
    <2>2. Sets
      BY <1>2, <1>6, <2>1, Zenon DEF InitPat, NoFill, TypesAt, AfterPat
    <2>3. Keeps
      BY <1>6, <2>1, Zenon DEF InitPat, NoFill
    <2> QED BY <1>4, <2>2, <2>3, Zenon
  <1>7. ASSUME NEW from, NEW to, Wbinvd(from, to), <<from, to>> \in {<<"wbinvd1", "flush1">>, <<"wbinvd2", "flush2">>}
        PROVE  MmuInv'
    <2>1. stage = from /\ stage' = to /\ lines' = {} /\ UNCHANGED <<pge, cd, guarded, types, tlb>>
      BY <1>7 DEF Wbinvd, Goes, registers
    <2>2. Sets
      BY <1>2, <1>7, <2>1, Zenon DEF InitPat, NoFill, TypesAt, AfterPat
    <2>3. Keeps
      BY <1>7, <2>1, Zenon DEF InitPat, NoFill
    <2> QED BY <1>4, <2>2, <2>3, Zenon
  <1>8. ASSUME NEW from, NEW to, ReloadCr3(from, to), <<from, to>> \in {<<"flush1", "mtrr_off">>, <<"flush2", "normal">>}
        PROVE  MmuInv'
    <2>1. stage = from /\ stage' = to /\ UNCHANGED <<pge, cd, guarded, types, lines>> /\ tlb' = flush_low_tlb
      BY <1>8 DEF ReloadCr3, Goes, registers
    <2>2. Sets
      BY <1>2, <1>8, <2>1, Zenon DEF InitPat, NoFill, TypesAt, AfterPat
    <2>3. Keeps
      BY <1>2, <1>3, <1>8, <2>1, Zenon DEF InitPat, NoFill
    <2> QED BY <1>4, <2>2, <2>3, Zenon
  <1>9. ASSUME NEW from, NEW to, NEW field, NEW value, SetTypes(from, to, field, value),
               <<from, to, field, value>> \in {<<"mtrr_off", "write_pat", "mtrr", "off">>,
                 <<"write_pat", "mtrr_on", "pat", "kernel">>, <<"mtrr_on", "wbinvd2", "mtrr", "kernel">>}
        PROVE  MmuInv'
    <2>1. stage = from /\ stage' = to /\ UNCHANGED <<pge, cd, guarded, tlb, lines>>
      BY <1>9, Zenon DEF SetTypes, Goes
    <2>2. types' = TypesAt(stage')
      <3>1. types' = [TypesAt(from) EXCEPT ![field] = value]
        BY <1>2, <1>9, <2>1, Zenon DEF SetTypes
      <3> QED BY <1>9, <2>1, <3>1, Zenon DEF TypesAt, AfterPat
    <2>3. Sets
      BY <1>2, <1>9, <2>1, <2>2, Zenon DEF InitPat, NoFill
    <2>4. Keeps
      BY <1>2, <1>9, <2>1, Zenon DEF InitPat, NoFill
    <2> QED BY <1>4, <2>3, <2>4
  <1>10. CASE SetPge
    <2>1. stage = "set_pge" /\ stage' = "physmap" /\ UNCHANGED <<cd, guarded, types, lines>> /\ pge' = TRUE /\ tlb' \in {tlb, {}}
          /\ (pge' = pge \/ tlb' = {})
      BY <1>10, Zenon DEF SetPge, Goes, flush_all
    <2>2. Sets
      BY <1>2, <2>1, Zenon DEF InitPat, NoFill, TypesAt, AfterPat
    <2>3. Keeps
      BY <2>1, Zenon DEF NoFill, InitPat
    <2> QED BY <1>4, <2>2, <2>3
  <1> QED BY <1>5, <1>6, <1>7, <1>8, <1>9, <1>10, Zenon DEF InitEarly

\* The completion of the kernel's tables, and the flush after the image is protected.
LEMMA TablesStep ==
  ASSUME MmuInv,
         \/ MapPhysmap \/ FinishInitKernelPt \/ ProtectKimage \/ FlushKernelTlb \/ MmuDone
         \/ \E s \in KernelSlots : FinishSlot(s)
  PROVE  MmuInv'
  <1>1. stage \in AfterPat /\ stage' \in AfterPat \union {"ready", "panic"}
    BY Zenon DEF MapPhysmap, FinishInitKernelPt, ProtectKimage, FlushKernelTlb, MmuDone, FinishSlot, Goes, AfterPat
  <1> SUFFICES ASSUME stage' \in AfterPat PROVE MmuInv'
    BY <1>1 DEF MmuInv, AfterPat
  <1>2. Registers /\ Cached
    BY <1>1, SMTT(30) DEF MmuInv, AfterPat
  <1>3. UNCHANGED <<cr3, pge, cd, guarded, types, lines>>
    BY Zenon DEF MapPhysmap, FinishInitKernelPt, ProtectKimage, FlushKernelTlb, MmuDone, FinishSlot, Goes, AfterPat, registers
  <1>4. types = TypesAt(stage) /\ TypesAt(stage') = TypesAt(stage)
    BY <1>1, <1>2, Zenon DEF Registers, TypesAt, AfterPat
  <1>5. protected' = IF stage' \in {"flush_kernel_tlb", "done"} THEN TRUE ELSE FALSE
    BY <1>2, Zenon DEF Registers, MapPhysmap, FinishInitKernelPt, ProtectKimage, FlushKernelTlb, MmuDone, FinishSlot, Goes, AfterPat
  <1>6. Registers'
    BY <1>1, <1>2, <1>3, <1>4, <1>5, Zenon DEF Registers, AfterPat, BeforePat, InitPat, NoFill
  <1>7. tlb' = {} \/ (tlb' = tlb /\ stage' # "done")
    BY Zenon DEF MapPhysmap, FinishInitKernelPt, ProtectKimage, FlushKernelTlb, MmuDone, FinishSlot, Goes, AfterPat, flush_all
  <1>8. Cached'
    BY <1>1, <1>2, <1>3, <1>7, Zenon DEF Cached, AfterPat, BeforePat, NoFill, InitPat
  <1> QED BY <1>6, <1>8 DEF MmuInv

\* Every step of the system keeps MmuInv: the ones of threads come after.
LEMMA MmuStepInv ==
  ASSUME MmuInv, RootInv, [RootsNext]_allVars
  PROVE  MmuInv'
  <1>1. CASE Boot
    BY <1>1, CachesMapped, BootCode, InitEarlyStep, TablesStep, Zenon DEF Boot, MmuNext, RootInv
  <1>2. CASE UNCHANGED mmuVars
    BY <1>2, Zenon DEF mmuVars, registers, MmuInv, Registers, Cached
  <1>3. CASE stage = "ready" /\ stage' = "ready"
    BY <1>3 DEF MmuInv
  <1>4. ASSUME ~Boot
        PROVE  UNCHANGED mmuVars \/ (stage = "ready" /\ stage' = "ready")
    BY <1>4, Zenon DEF RootsNext, Halted, allVars, MakeSpace, DropSpace, SpawnIn, WithRoots, KernelMap, KernelUnmap
  <1> QED BY <1>1, <1>2, <1>3, <1>4

\* Whatever the processor caches on the way, and however the firmware has left global
\* pages: no translation and no line outlives what it was made from.
THEOREM RootsNothingStale == RootsSpec => []NothingStale
  <1>1. RootsInit => MmuInv
    <2> SUFFICES ASSUME MmuInit PROVE MmuInv
      BY DEF RootsInit
    <2>1. Registers
      BY SlotsAssumption, Zenon DEF MmuInit, Registers, TypesAt, BeforePat, InitPat, AfterPat, NoFill
    <2>2. Cached
      BY Zenon DEF MmuInit, Cached, NoFill
    <2> QED BY <2>1, <2>2, Zenon DEF MmuInit, MmuInv, BeforePat
  <1>2. MmuInv /\ RootInv /\ [RootsNext]_allVars => MmuInv'
    BY MmuStepInv
  <1>3. MmuInv => NothingStale
    <2> SUFFICES ASSUME MmuInv, stage \in AfterPat PROVE NothingStale
      BY Zenon DEF NothingStale, AfterPat
    <2>1. Registers /\ Cached
      BY DEF MmuInv, AfterPat
    <2>2. types = [pat |-> "kernel", mtrr |-> "kernel"] /\ ~cd /\ guarded
      BY <2>1, Zenon DEF Registers, TypesAt, AfterPat, BeforePat, InitPat, NoFill
    <2>3. \A e \in tlb : e.what \notin {Firmware, "boot"} /\ e.types = types
      BY <2>1 DEF Cached, AfterPat, BeforePat
    <2> QED BY <2>1, <2>2, <2>3, Zenon DEF NothingStale, Cached
  <1> QED BY <1>1, <1>2, <1>3, RootInvariance, PTL DEF RootsSpec
=============================================================================

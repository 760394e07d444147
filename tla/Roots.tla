------------------------------- MODULE Roots -------------------------------
(***************************************************************************)
(* The root page tables of low address spaces (mm/vm/low_aspace.rs), over  *)
(* the scheduler that switches between them and the kernel's own tables.   *)
(*                                                                         *)
(* A low root shadows the kernel's half of the root table: it gets a copy  *)
(* of the entries when it is made and none later.  A space, and with it    *)
(* the frame of its root, is freed with the last Arc, which a caller or a  *)
(* thread's Context holds.                                                 *)
(***************************************************************************)
EXTENDS Sched, Mmu

VARIABLES
  root,    \* root[a]: LowAddrSpaceOps::root_pt, or NoTable if there is no space a
  shadow,  \* shadow[a]: the upper half of that table
  held,    \* the spaces that callers hold an Arc of
  kmapped  \* the kernel slots where something was mapped since boot

rootVars == <<root, shadow, held, kmapped>>
allVars == <<vars, mmuVars, rootVars>>

NoTables == [s \in KernelSlots |-> NoTable]

RootsInit ==
  /\ Init
  /\ MmuInit
  /\ root = [a \in AddrSpaces |-> NoTable]
  /\ shadow = [a \in AddrSpaces |-> NoTables]
  /\ held = {}
  /\ kmapped = {}

\* kernel_main up to the first thread.
Boot ==
  /\ MmuNext
  /\ UNCHANGED <<vars, rootVars>>

\* The processor stops after a panic.
Halted ==
  /\ stage = "panic"
  /\ UNCHANGED allVars
-----------------------------------------------------------------------------
\* make_root_pt's copy of the kernel's half.
prepare_low_pt_root == pml4

\* make_low_addr_space, called by a thread.
MakeSpace(a) ==
  /\ stage = "ready"
  /\ InBody
  /\ root[a] = NoTable
  /\ avail # {}
  /\ LET frame == CHOOSE f \in avail : TRUE
     IN /\ root' = [root EXCEPT ![a] = frame]
        /\ avail' = avail \ {frame}
  /\ shadow' = [shadow EXCEPT ![a] = prepare_low_pt_root]
  /\ held' = held \union {a}
  /\ UNCHANGED <<vars, stage, cr3, registers, protected, tlb, lines, pml4, kmapped>>

\* The threads whose Context holds an Arc of a.
Users(a) == {t \in Threads : mem[t] = "live" /\ aspace[t] = a}

\* The spaces whose last Arc goes in this step, once callers hold keep.
Dropped(keep) == {a \in AddrSpaces : root[a] # NoTable /\ a \notin keep /\ Users(a)' = {}}

\* FrameBox::drop of their roots.
Release(keep) ==
  /\ held' = keep
  /\ root' = [a \in AddrSpaces |-> IF a \in Dropped(keep) THEN NoTable ELSE root[a]]
  /\ shadow' = [a \in AddrSpaces |-> IF a \in Dropped(keep) THEN NoTables ELSE shadow[a]]
  /\ avail' = avail \union {root[a] : a \in Dropped(keep)}

\* A caller drops its Arc.
DropSpace(a) ==
  /\ stage = "ready"
  /\ InBody
  /\ a \in held
  /\ UNCHANGED <<vars, stage, cr3, registers, protected, tlb, lines, pml4, kmapped>>
  /\ Release(held \ {a})

\* set_low_root_pt.
set_low_root_pt(a) == IF a = None THEN KernelRoot ELSE root[a]

\* A step of the scheduler: CR3 is written when the low address space is switched,
\* and spaces are freed with their last thread.
WithRoots(A) ==
  /\ stage = "ready"
  /\ A
  /\ cr3' = IF low' = low THEN cr3 ELSE set_low_root_pt(low')
  /\ Release(held)
  /\ UNCHANGED <<stage, registers, protected, tlb, lines, pml4, kmapped>>

\* Thread::spawn with an Arc that the caller holds.
SpawnIn(t, a) == WithRoots(Spawn(t, a) /\ a \in held \union {None})

\* Whether cull_tables may free a kernel table of the level.  Mutant: any table.
can_cull_any(level) == level < 3
can_cull_kernel_pt(level) == level < 2

\* AddrSpace::commit and do_unmap of the kernel's address space, as far as they reach
\* the root: a table of level 2 is made if there is none, and culled if it may be.
KernelMap(s) ==
  /\ stage = "ready"
  /\ InBody
  /\ s \notin PhysmapSlots \union {ImageSlot}
  /\ pml4[s] = NoTable => avail # {}
  /\ kmapped' = kmapped \union {s}
  /\ IF pml4[s] # NoTable THEN UNCHANGED <<pml4, avail>>
     ELSE LET table == CHOOSE f \in avail : TRUE
          IN /\ pml4' = [pml4 EXCEPT ![s] = table]
             /\ avail' = avail \ {table}
  /\ UNCHANGED <<vars, stage, cr3, registers, protected, tlb, lines, root, shadow, held>>

KernelUnmap(s) ==
  /\ stage = "ready"
  /\ InBody
  /\ s \in kmapped
  /\ kmapped' = kmapped \ {s}
  /\ IF can_cull_kernel_pt(2)
     THEN pml4' = [pml4 EXCEPT ![s] = NoTable] /\ avail' = avail \union {pml4[s]}
     ELSE UNCHANGED <<pml4, avail>>
  /\ UNCHANGED <<vars, stage, cr3, registers, protected, tlb, lines, root, shadow, held>>

RootsNext ==
  \/ Boot
  \/ Halted
  \/ \E a \in AddrSpaces : MakeSpace(a) \/ DropSpace(a)
  \/ \E t \in Threads : \E a \in AddrSpaces \union {None} : SpawnIn(t, a)
  \/ \E t \in Threads : WithRoots(DropRef(t))
  \/ WithRoots(Start)
  \/ WithRoots(Exit)
  \/ WithRoots(CompleteHandoff)
  \/ \E isFault \in BOOLEAN : WithRoots(Current(isFault))
  \/ WithRoots(EndGuard)
  \/ WithRoots(Resched)
  \/ WithRoots(SetReschedPending)
  \/ WithRoots(IdleLoop)
  \/ \E s \in KernelSlots : KernelMap(s) \/ KernelUnmap(s)

RootsSpec == RootsInit /\ [][RootsNext]_allVars
-----------------------------------------------------------------------------
\* "This ensures that low address spaces will always have a consistent view of the
\* kernel address space later": the kernel's half of every low root is at all times
\* that of the kernel, whatever was mapped and unmapped since the root was made.
KernelViewAgrees ==
  \A a \in AddrSpaces : root[a] # NoTable => shadow[a] = pml4

\* CR3 holds the root of the running thread's address space, which has not been freed:
\* what switch_to asks of its caller ("old_aspace is the one that was currently
\* active") is true, and no root goes while it is in use.
RootActive ==
  stage = "ready" /\ pc # "crashed" =>
    /\ low = IF stack = None THEN None ELSE aspace[stack]
    /\ low # None => root[low] # NoTable
    /\ cr3 = set_low_root_pt(low)
=============================================================================

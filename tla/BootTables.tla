----------------------------- MODULE BootTables -----------------------------
(***************************************************************************)
(* The page tables that boot_main (arch/x86_64/boot.s) fills in before it  *)
(* switches to them, with the real geometry of the tables.                 *)
(*                                                                         *)
(* Memory is a function from words (8 bytes) to entries, in the part that  *)
(* boot_main writes.  The image starts at the frame `base', wherever the   *)
(* loader put it, and is laid out by x86_64.ld: the boot code, the two     *)
(* tables of the identity mapping, then the kernel proper, whose last      *)
(* pages are taken to be its own tables.                                   *)
(***************************************************************************)
EXTENDS Naturals, TLC

CONSTANTS
  BootPages,   \* pages of boot code and data
  KernelPages  \* pages of the kernel proper

PT_ENTRY_COUNT == 512
KERNEL_PT_COUNT == 4

ASSUME ImageAssumption ==
  /\ BootPages \in Nat \ {0}
  /\ KernelPages > KERNEL_PT_COUNT + 3
  \* The linker script's assertion, "Kernel too large".
  /\ BootPages + 2 + KernelPages < KERNEL_PT_COUNT * PT_ENTRY_COUNT

boottext_pdpt(base) == base + BootPages
boottext_pd(base) == base + BootPages + 1
phys_start(base) == base + BootPages + 2
phys_end(base) == phys_start(base) + KernelPages
KERNEL_PTS(base) == phys_end(base) - KERNEL_PT_COUNT
KERNEL_PD(base) == KERNEL_PTS(base) - 1
KERNEL_PDPT(base) == KERNEL_PTS(base) - 2
KERNEL_PML4(base) == KERNEL_PTS(base) - 3

Tables(base) ==
  {boottext_pdpt(base), boottext_pd(base)} \union (KERNEL_PML4(base) .. phys_end(base) - 1)

\* pt_index, of a frame mapped to itself.
pt_index(level, frame) == (frame \div PT_ENTRY_COUNT ^ level) % PT_ENTRY_COUNT

\* initial_kernel_pt_index, of the page at `offset' from __virt_start, which is -2GiB.
initial_kernel_pt_index(level, offset) ==
  CASE level = 3 -> 511 [] level = 2 -> 510 [] OTHER -> pt_index(level, offset)

Word(table, index) == table * PT_ENTRY_COUNT + index
Table(frame) == [kind |-> "table", frame |-> frame]
Page(frame) == [kind |-> "page", frame |-> frame]
Large(frame) == [kind |-> "large", frame |-> frame]

large_pages == KERNEL_PT_COUNT + 1

\* The two entries that lead to a table of level 1, and the loops that fill it and
\* the tables below.
boot_main(base) ==
  LET aligned == base - (base % PT_ENTRY_COUNT)
      pd == Word(boottext_pd(base), pt_index(1, base))
      kernel_pd == Word(KERNEL_PD(base), initial_kernel_pt_index(1, 0))
      kernel_pts == Word(KERNEL_PTS(base), initial_kernel_pt_index(0, 0))
      pds == (KernelPages + PT_ENTRY_COUNT - 1) \div PT_ENTRY_COUNT
  IN  [w \in kernel_pts .. kernel_pts + KernelPages - 1 |->
         Page(phys_start(base) + w - kernel_pts)]
   @@ [w \in kernel_pd .. kernel_pd + pds - 1 |-> Table(KERNEL_PTS(base) + w - kernel_pd)]
   @@ Word(KERNEL_PDPT(base), initial_kernel_pt_index(2, 0)) :> Table(KERNEL_PD(base))
   @@ Word(KERNEL_PML4(base), initial_kernel_pt_index(3, 0)) :> Table(KERNEL_PDPT(base))
   @@ [w \in pd .. pd + large_pages - 1 |-> Large(aligned + (w - pd) * PT_ENTRY_COUNT)]
   @@ Word(boottext_pdpt(base), pt_index(2, base)) :> Table(boottext_pd(base))
   @@ Word(KERNEL_PML4(base), pt_index(3, base)) :> Table(boottext_pdpt(base))

\* high_entry removes the identity mapping.
high_entry(base, memory) ==
  [w \in DOMAIN memory \ {Word(KERNEL_PML4(base), pt_index(3, base))} |-> memory[w]]

\* The processor's walk: one level, then all four.
Fault == [kind |-> "fault", frame |-> 0]
Follow(memory, entry, index) ==
  IF entry.kind # "table" THEN entry
  ELSE IF Word(entry.frame, index) \in DOMAIN memory THEN memory[Word(entry.frame, index)]
  ELSE Fault

Walk(memory, root, i3, i2, i1, i0) ==
  LET e3 == Follow(memory, Table(root), i3)
      e2 == Follow(memory, e3, i2)
      e1 == Follow(memory, e2, i1)
      e0 == Follow(memory, e1, i0)
  IN IF e0.kind = "large" THEN Page(e0.frame + i0) ELSE e0

\* Where the tables map a frame's own address, and a page of the kernel.
WalkIdentity(base, memory, frame) ==
  Walk(memory, KERNEL_PML4(base), pt_index(3, frame), pt_index(2, frame), pt_index(1, frame),
       pt_index(0, frame))
WalkKernel(base, memory, offset) ==
  Walk(memory, KERNEL_PML4(base), initial_kernel_pt_index(3, offset),
       initial_kernel_pt_index(2, offset), initial_kernel_pt_index(1, offset),
       initial_kernel_pt_index(0, offset))

\* "Initialize a temporary 10MiB identity mapping of the kernel so that pivoting to
\* our new page table doesn't cause an irrecoverable page fault": the whole image is
\* mapped to itself until high_entry removes that, the kernel is mapped from -2GiB on
\* before and after, and boot_main writes nothing but tables.
Pivots(base) ==
  LET before == boot_main(base)
      after == high_entry(base, before)
  IN /\ \A w \in DOMAIN before : (w \div PT_ENTRY_COUNT) \in Tables(base)
     /\ \A frame \in base .. phys_end(base) - 1 :
          /\ WalkIdentity(base, before, frame) = Page(frame)
          /\ WalkIdentity(base, after, frame) = Fault
     /\ \A offset \in 0 .. KernelPages - 1 :
          \A memory \in {before, after} :
            WalkKernel(base, memory, offset) = Page(phys_start(base) + offset)
=============================================================================

-------------------------------- MODULE Mmu --------------------------------
(***************************************************************************)
(* The bootstrap processor's MMU from the firmware to the first thread:    *)
(* the switch of tables in boot.s, init_early of arch/x86_64/mmu.rs, one   *)
(* instruction that the processor obeys at a time, and the completion of   *)
(* the kernel's tables by mm/vm/kernel_aspace.rs.                          *)
(*                                                                         *)
(* Between any two instructions the processor may cache a translation or   *)
(* a line of memory, speculatively too.  An entry of the TLB says what it  *)
(* translates, with which permissions, under which settings of the PAT     *)
(* and the MTRRs, and whether it is global.                                *)
(***************************************************************************)
EXTENDS BootTables, FiniteSets

CONSTANTS
  KernelSlots,   \* entries of the upper half of a root table
  ImageSlot,     \* the one that maps the kernel
  PhysmapSlots,  \* the ones that map physical memory
  Frames,        \* frames that pmm can allocate
  KernelRoot,    \* KERNEL_PML4
  BootTable,     \* a table of the kernel's image or of the boot heap
  Bases,         \* where the loader can have put the image
  NoTable

ASSUME SlotsAssumption == PhysmapSlots \subseteq KernelSlots /\ ImageSlot \in KernelSlots \ PhysmapSlots
ASSUME TablesAssumption == NoTable \notin Frames \union {BootTable} /\ {KernelRoot, BootTable} \intersect Frames = {}

VARIABLES
  stage,   \* the next instruction
  cr3,
  pge,     \* CR4.PGE
  cd,      \* CR0.CD
  guarded, \* whether CR0.WP and EFER.NXE are set, which the kernel's protection needs
  types,   \* the PAT and the MTRRs: "firmware", "off" or "kernel" each
  protected, \* whether the image has its final permissions
  tlb,
  lines,   \* cached lines, by the types under which they were filled
  pml4,    \* pml4[s]: the table that KERNEL_PML4's entry s points to
  avail    \* the frames pmm has left

registers == <<pge, cd, guarded, types>>
mmuVars == <<stage, cr3, registers, protected, tlb, lines, pml4, avail>>

Firmware == "firmware"

\* KERNEL_PML4 is in the kernel's image, and no table of the firmware.
ASSUME RootAssumption == KernelRoot # Firmware

MmuInit ==
  /\ stage = "boot_main"
  /\ cr3 = Firmware
  /\ pge \in BOOLEAN
  /\ cd = FALSE
  /\ guarded \in BOOLEAN
  /\ types = [pat |-> "firmware", mtrr |-> "firmware"]
  /\ protected = FALSE
  /\ tlb = {}
  /\ lines = {}
  /\ pml4 = [s \in KernelSlots |-> NoTable]
  /\ avail \in {{}, Frames}
-----------------------------------------------------------------------------
(***************************************************************************)
(* The processor.                                                          *)
(***************************************************************************)

\* What the tables map now: the firmware's memory, perhaps with global pages; boot.s's
\* mappings, which are not global; the physical map, and the image once protected,
\* which are.
Mapped ==
  IF cr3 = Firmware
  THEN [what : {Firmware}, protected : {FALSE}, global : {FALSE, pge}]
  ELSE (IF stage = "high_entry" THEN [what : {"boot"}, protected : {FALSE}, global : {FALSE}] ELSE {})
       \union [what : {"image"}, protected : {protected}, global : {pge /\ protected}]
       \union (IF \E s \in PhysmapSlots : pml4[s] # NoTable
               THEN [what : {"physmap"}, protected : {FALSE}, global : {pge}] ELSE {})

Translation(m) == [what |-> m.what, protected |-> m.protected, global |-> m.global, types |-> types]

Cache ==
  /\ stage \notin {"ready", "panic"}
  /\ \E m \in Mapped :
       /\ tlb' = tlb \union {Translation(m)}
       /\ lines' \in {lines, IF cd THEN lines ELSE lines \union {types}}
  /\ UNCHANGED <<stage, cr3, registers, protected, pml4, avail>>

\* What is left of the TLB after a write of CR3, and after a change of CR4.PGE.
flush_low_tlb == {e \in tlb : e.global}
flush_all == {}

Goes(from, to) == stage = from /\ stage' = to
-----------------------------------------------------------------------------
(***************************************************************************)
(* boot.s.                                                                 *)
(***************************************************************************)

\* boot_main fills the tables and loads CR3.
BootMain ==
  /\ Goes("boot_main", "high_entry")
  /\ cr3' = KernelRoot
  /\ pml4' = [pml4 EXCEPT ![ImageSlot] = BootTable]
  /\ tlb' = flush_low_tlb
  /\ UNCHANGED <<registers, protected, lines, avail>>

\* high_entry removes the identity mapping and reloads CR3.
HighEntry ==
  /\ Goes("high_entry", "init_mmu_regs")
  /\ tlb' = flush_low_tlb
  /\ UNCHANGED <<cr3, registers, protected, lines, pml4, avail>>
-----------------------------------------------------------------------------
(***************************************************************************)
(* init_early.                                                             *)
(***************************************************************************)

\* init_mmu_regs.  Global pages are turned off, which flushes everything if they were
\* on.  Mutant: they are left as they were.
clear_pge_not == pge
clear_pge == FALSE

InitMmuRegs ==
  /\ Goes("init_mmu_regs", "no_fill")
  /\ cd' = FALSE
  /\ guarded' = TRUE
  /\ pge' = clear_pge
  /\ tlb' = IF pge' = pge THEN tlb ELSE flush_all
  /\ UNCHANGED <<cr3, types, protected, lines, pml4, avail>>

\* init_pat, 4 and 12: CR0.CD.
SetCd(from, to, value) ==
  /\ Goes(from, to)
  /\ cd' = value
  /\ UNCHANGED <<cr3, pge, guarded, types, protected, tlb, lines, pml4, avail>>

\* init_pat, 5 and 11.
Wbinvd(from, to) ==
  /\ Goes(from, to)
  /\ lines' = {}
  /\ UNCHANGED <<cr3, registers, protected, tlb, pml4, avail>>

\* init_pat, 6-7 and 11.
ReloadCr3(from, to) ==
  /\ Goes(from, to)
  /\ tlb' = flush_low_tlb
  /\ UNCHANGED <<cr3, registers, protected, lines, pml4, avail>>

\* init_pat, 8 and 10: IA32_MTRR_DEF_TYPE; 9: IA32_PAT.
SetTypes(from, to, field, value) ==
  /\ Goes(from, to)
  /\ types' = [types EXCEPT ![field] = value]
  /\ UNCHANGED <<cr3, pge, cd, guarded, protected, tlb, lines, pml4, avail>>

\* The end of init_pat.
SetPge ==
  /\ Goes("set_pge", "physmap")
  /\ pge' = TRUE
  /\ tlb' = IF pge' = pge THEN tlb ELSE flush_all
  /\ UNCHANGED <<cr3, cd, guarded, types, protected, lines, pml4, avail>>

InitEarly ==
  \/ InitMmuRegs
  \/ SetCd("no_fill", "wbinvd1", TRUE)
  \/ Wbinvd("wbinvd1", "flush1")
  \/ ReloadCr3("flush1", "mtrr_off")
  \/ SetTypes("mtrr_off", "write_pat", "mtrr", "off")
  \/ SetTypes("write_pat", "mtrr_on", "pat", "kernel")
  \/ SetTypes("mtrr_on", "wbinvd2", "mtrr", "kernel")
  \/ Wbinvd("wbinvd2", "flush2")
  \/ ReloadCr3("flush2", "normal")
  \/ SetCd("normal", "set_pge", FALSE)
  \/ SetPge
-----------------------------------------------------------------------------
(***************************************************************************)
(* The kernel's tables.                                                    *)
(***************************************************************************)

\* physmap::init, with tables of the boot heap, for as much memory as there is.
MapPhysmap ==
  /\ Goes("physmap", "finish_init_kernel_pt")
  /\ \E slots \in SUBSET PhysmapSlots \ {{}} :
       pml4' = [s \in KernelSlots |-> IF s \in slots THEN BootTable ELSE pml4[s]]
  /\ UNCHANGED <<cr3, registers, protected, tlb, lines, avail>>

Absent == {s \in KernelSlots : pml4[s] = NoTable}

\* finish_init_kernel_pt, one entry at a time.
FinishSlot(s) ==
  /\ stage = "finish_init_kernel_pt"
  /\ s \in Absent
  /\ IF avail = {} THEN stage' = "panic" /\ UNCHANGED <<pml4, avail>>
     ELSE LET table == CHOOSE f \in avail : TRUE
          IN /\ pml4' = [pml4 EXCEPT ![s] = table]
             /\ avail' = avail \ {table}
             /\ UNCHANGED stage
  /\ UNCHANGED <<cr3, registers, protected, tlb, lines>>

FinishInitKernelPt ==
  /\ Goes("finish_init_kernel_pt", "protect_kimage")
  /\ Absent = {}
  /\ UNCHANGED <<cr3, registers, protected, tlb, lines, pml4, avail>>

\* protect_kimage, and the flush at its end, which asserts that PGE is set.
ProtectKimage ==
  /\ Goes("protect_kimage", "flush_kernel_tlb")
  /\ protected' = TRUE
  /\ UNCHANGED <<cr3, registers, tlb, lines, pml4, avail>>

FlushKernelTlb ==
  /\ stage = "flush_kernel_tlb"
  /\ IF pge THEN stage' = "done" /\ tlb' = flush_all ELSE stage' = "panic" /\ UNCHANGED tlb
  /\ UNCHANGED <<cr3, registers, protected, lines, pml4, avail>>

\* From here on what is cached is the business of Tlb.
MmuDone ==
  /\ Goes("done", "ready")
  /\ tlb' = {}
  /\ lines' = {}
  /\ UNCHANGED <<cr3, registers, protected, pml4, avail>>

MmuNext ==
  \/ Cache
  \/ BootMain
  \/ HighEntry
  \/ InitEarly
  \/ MapPhysmap
  \/ \E s \in KernelSlots : FinishSlot(s)
  \/ FinishInitKernelPt
  \/ ProtectKimage
  \/ FlushKernelTlb
  \/ MmuDone
-----------------------------------------------------------------------------

\* Whatever the processor caches between two instructions, init_early leaves behind no
\* translation of the firmware's tables or of the boot code, not even a global one, and
\* no translation and no line with an old memory type; and protect_kimage leaves no
\* translation of the image with its old permissions.
NothingStale ==
  /\ stage \in {"physmap", "finish_init_kernel_pt", "protect_kimage", "flush_kernel_tlb", "done"} =>
       /\ \A e \in tlb : e.what \notin {Firmware, "boot"} /\ e.types = types
       /\ lines \subseteq {types}
       /\ types = [pat |-> "kernel", mtrr |-> "kernel"] /\ ~cd
  /\ stage = "done" => guarded /\ \A e \in tlb : e.what = "image" => e.protected
=============================================================================

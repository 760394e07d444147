----------------------------- MODULE Descriptors -----------------------------
(***************************************************************************)
(* The tables through which the processor finds interrupt handlers and     *)
(* their stacks (arch/x86_64/descriptor.rs): how the kernel encodes an     *)
(* interrupt gate and the task state segment's descriptor, and how the     *)
(* processor decodes them.  A 64-bit word is the set of its bits that are  *)
(* set, so `|' is union.                                                   *)
(***************************************************************************)
EXTENDS Integers, Sequences, FiniteSets

VECTOR_NMI == 2
VECTOR_DOUBLE_FAULT == 8
VECTOR_GP_FAULT == 13
VECTOR_PAGE_FAULT == 14

\* for_each_interrupt: one stub and one gate for each vector.
Vectors == 0..255

Bits(n, width) == {i \in 0..(width - 1) : (n \div 2^i) % 2 = 1}
Shl(w, n) == {i + n : i \in w}
Shr(w, n) == {i - n : i \in {j \in w : j >= n}}
Low(w, n) == {i \in w : i < n}

----------------------------------------------------------------------------
KERNEL_CODE_SELECTOR == 8
TSS_SELECTOR == 16
IST_NMI == 1
IST_DOUBLE_FAULT == 2

\* The interrupt stack a gate names; 0 keeps the stack that was interrupted.
get_ist(vector) ==
  CASE vector = VECTOR_NMI -> IST_NMI
    [] vector = VECTOR_DOUBLE_FAULT -> IST_DOUBLE_FAULT
    [] OTHER -> 0

IdtFlags == {47} \cup Shl(Bits(14, 4), 40)

make_idt_entry(entry_point, cs_selector, ist) ==
  << IdtFlags \cup Low(entry_point, 16) \cup Shl(Bits(cs_selector, 16), 16)
       \cup Shl(Low(Bits(ist, 8), 3), 32) \cup Shl(Low(Shr(entry_point, 16), 16), 48),
     Shr(entry_point, 32) >>

\* size_of::<Tss>(): the fixed part, then a bit for each I/O port and a last byte.
SizeOfTss == 104 + 65536 \div 8 + 1

TssFlags == {47} \cup Shl(Bits(9, 4), 40)

make_gdt_tss_descriptor(base) ==
  LET limit == Bits(SizeOfTss - 1, 20)
  IN  << TssFlags \cup Low(limit, 16) \cup Shl(Low(base, 24), 16)
           \cup Low(Shr(limit, 16), 4) \cup Shl(Low(Shr(base, 24), 8), 56),
         Shr(base, 32) >>

make_gdt_non_system_descriptor(flags) == flags \cup {44, 47}

\* The null segment, the code segment and the two words of the TSS descriptor.
Gdt(tss) == <<{}, make_gdt_non_system_descriptor({43, 53})>> \o make_gdt_tss_descriptor(tss)

\* Where the image and the per-processor block are linked does not matter to the
\* code; these are addresses in the top two gigabytes, stubs 16 bytes apart.
entry_point(vector) == 31..63 \cup {13, 16, 22} \cup Shl(Bits(vector, 8), 4)
tss_addr == 31..63 \cup {6, 14, 17, 25}

\* init_idt
Idt == [v \in Vectors |-> make_idt_entry(entry_point(v), KERNEL_CODE_SELECTOR, get_ist(v))]

\* Tss::init: the tops of the two interrupt stacks, in the slots the gates name.
IstStacks == <<"nmi_stack", "double_fault_stack", "none", "none", "none", "none", "none">>

----------------------------------------------------------------------------
\* The processor's side.  It takes an interrupt through a gate that is a present
\* 64-bit interrupt gate whose selector is that of a present long-mode code segment,
\* and runs what is at the gate's address.
Field(w, lo, hi) == Low(Shr(w, lo), hi - lo + 1)

\* A selector's bits above the low three are an index into the table.
Segment(gdt, selector) ==
  LET index == CHOOSE n \in 0..(Len(gdt) - 1) : Bits(n, 13) = Shr(selector, 3)
  IN  gdt[index + 1]

GateGood(gate, gdt) ==
  /\ 47 \in gate[1] /\ Field(gate[1], 40, 44) = Bits(14, 5)
  /\ {43, 44, 47, 53} \subseteq Segment(gdt, Field(gate[1], 16, 31))

GateOffset(gate) == Low(gate[1], 16) \cup Shl(Field(gate[1], 48, 63), 16) \cup Shl(gate[2], 32)
GateIst(gate) == CHOOSE n \in 0..7 : Bits(n, 3) = Field(gate[1], 32, 34)

\* The segment that ltr loaded is an available 64-bit TSS, based where the
\* descriptor says and large enough to hold the stack pointers.
TaskBase(gdt) ==
  LET lo == gdt[TSS_SELECTOR \div 8 + 1]
      hi == gdt[TSS_SELECTOR \div 8 + 2]
  IN  Field(lo, 16, 39) \cup Shl(Field(lo, 56, 63), 24) \cup Shl(hi, 32)
TaskLimit(gdt) ==
  LET lo == gdt[TSS_SELECTOR \div 8 + 1] IN Low(lo, 16) \cup Shl(Field(lo, 48, 51), 16)
TaskGood(gdt) ==
  LET lo == gdt[TSS_SELECTOR \div 8 + 1]
  IN  47 \in lo /\ Field(lo, 40, 44) = Bits(9, 5) /\ TaskLimit(gdt) = Bits(SizeOfTss - 1, 20)
==============================================================================

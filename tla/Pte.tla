-------------------------------- MODULE Pte --------------------------------
(***************************************************************************)
(* The page table entries of arch/x86_64/mmu.rs, as the sets of the bits   *)
(* that are 1, and the memory types of the PAT.                            *)
(***************************************************************************)
EXTENDS Naturals

CONSTANTS
  FrameBits,     \* frame numbers, as the sets of their bits
  PermSets       \* the permissions that callers ask for

PAGE_SHIFT == 12
PADDR_MASK == 0 .. 51

PRESENT == 0
WRITABLE == 1
USER_MODE == 2
LARGE == 7
GLOBAL == 8
NO_EXEC == 63
PERMS_MASK == {WRITABLE, USER_MODE, NO_EXEC}

Modes == {"Cached", "WriteThrough", "WriteCombining", "Uncached"}

shl(bits, n) == {b + n : b \in bits}

flags_from_perms(perms) ==
  {b \in {WRITABLE, USER_MODE, GLOBAL, NO_EXEC} :
     \/ b = WRITABLE /\ "WRITE" \in perms
     \/ b = USER_MODE /\ "USER" \in perms
     \/ b = GLOBAL /\ "GLOBAL" \in perms
     \/ b = NO_EXEC /\ "EXECUTE" \notin perms}

pat_selector_for_cache_mode(mode) ==
  CASE mode = "Cached" -> {}
    [] mode = "WriteThrough" -> {0}
    [] mode = "Uncached" -> {0, 1}
    [] mode = "WriteCombining" -> {0, 1, 2}

pat_selector_to_pte_bits(selector) ==
  shl(selector \intersect {0}, 3) \union shl(selector \intersect {1}, 4)
    \union shl(selector \intersect {2}, 7)

make_terminal_pte(level, frame, perms, mode) ==
  shl(frame, PAGE_SHIFT) \union {PRESENT} \union flags_from_perms(perms)
    \union (IF level > 0 THEN {LARGE} ELSE {})
    \union pat_selector_to_pte_bits(pat_selector_for_cache_mode(mode))

make_intermediate_pte(frame) == shl(frame, PAGE_SHIFT) \union {PRESENT, WRITABLE, USER_MODE}

update_pte_perms(bits, perms) == (bits \ PERMS_MASK) \union flags_from_perms(perms)

\* Mutant: the bits above the address are not masked off.
get_pte_frame_unmasked(bits) == {b - PAGE_SHIFT : b \in {c \in bits : c >= PAGE_SHIFT}}
get_pte_frame(bits) == {b - PAGE_SHIFT : b \in {c \in bits \intersect PADDR_MASK : c >= PAGE_SHIFT}}

pte_is_present(bits) == PRESENT \in bits
pte_is_terminal(bits, level) == level = 0 \/ LARGE \in bits

\* The PAT that init_pat writes, by selector; the value of MEM_TYPE_UC_WEAK is that
\* of write-back.
pat(selector) ==
  CASE selector \in {{}, {2}} -> "Cached"
    [] selector \in {{0}, {0, 2}} -> "WriteThrough"
    [] selector \in {{1}, {1, 2}} -> "Cached"
    [] selector = {0, 1} -> "Uncached"
    [] selector = {0, 1, 2} -> "WriteCombining"

\* The cache mode the processor uses for a page: PWT and PCD are bits 3 and 4, PAT
\* is bit 7, or bit 12 of a large page.
cache_mode(bits, level) ==
  pat({0 : b \in bits \intersect {3}} \union {1 : b \in bits \intersect {4}}
        \union {2 : b \in bits \intersect {IF level = 0 THEN 7 ELSE 12}})
-----------------------------------------------------------------------------
\* The pages that can be mapped: large ones have aligned frames.
Mappable == {p \in {0, 1} \X FrameBits : p[1] = 1 => p[2] \intersect 0 .. 8 = {}}

\* What a walk reads from an entry: its frame, that it is present and its kind.
ReadsAs(bits, level, frame, kind) ==
  /\ get_pte_frame(bits) = frame
  /\ pte_is_present(bits)
  /\ pte_is_terminal(bits, level) <=> kind = "page"

\* Whatever its permissions and cache mode, an entry reads back as what it was made
\* from, and stays so when protect updates its permissions: the result is the entry
\* made with the new ones, but for GLOBAL, which is not one of PERMS_MASK and stays.
PageExact ==
  \A p \in Mappable, perms \in PermSets, mode \in Modes :
    LET bits == make_terminal_pte(p[1], p[2], perms, mode)
    IN /\ ReadsAs(bits, p[1], p[2], "page")
       /\ \A new \in PermSets :
            update_pte_perms(bits, new) =
              make_terminal_pte(p[1], p[2], new \union (perms \intersect {"GLOBAL"}), mode)
TableExact ==
  \A level \in 1 .. 3, frame \in FrameBits :
    ReadsAs(make_intermediate_pte(frame), level, frame, "table")
=============================================================================

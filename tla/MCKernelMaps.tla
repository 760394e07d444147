---------------------------- MODULE MCKernelMaps ----------------------------
(* The instance of KernelMaps that TLC checks. *)
EXTENDS KernelMaps

\* Device ranges, base and length in bytes: at a page boundary, and inside a page.
MCIoAligned == {<<24, 7>>}
MCIoAny == {<<26, 4>>}

MCSymmetry == Permutations(Mappings) \union Permutations(Subslices) \union Permutations(Tasks)
=============================================================================

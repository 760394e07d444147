------------------------------ MODULE MCRoots ------------------------------
(* The instance of Roots that TLC checks. *)
EXTENDS Roots

MCSymmetry == Permutations(Threads) \union Permutations(AddrSpaces) \union Permutations(PhysmapSlots)
=============================================================================

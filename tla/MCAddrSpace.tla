---------------------------- MODULE MCAddrSpace ----------------------------
(* The instances of AddrSpace that TLC checks; see the configurations. *)
EXTENDS AddrSpace

MCSymmetry == Permutations(Mappings) \union Permutations(Subslices) \union Permutations(Threads)

MCObjects == {<<"lazy", 2>>, <<"eager", 1>>}
=============================================================================

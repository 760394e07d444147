---------------------------- MODULE MCPageTable ----------------------------
(***************************************************************************)
(* The instance of PageTable, Tlb and Pte that TLC checks: three levels of *)
(* two entries, with large pages of two pages, six pages of which are      *)
(* used, and fewer table frames than mapping them all one by one takes.    *)
(* The encoding of entries is checked for all of its inputs at once, in    *)
(* the initial states.                                                     *)
(***************************************************************************)
EXTENDS Tlb, Pte

CONSTANTS ro, rw

\* Ranges of single pages, aligned and unaligned ones, and all of the pages.
MCRanges == {<<0, 6>>, <<0, 2>>, <<1, 2>>, <<2, 4>>, <<3, 1>>, <<4, 0>>}

\* Maps to frames with the alignment of the pages and without it.
MCRequests ==
  {[kind |-> "map", base |-> r[1], size |-> r[2], phys |-> r[1] + d, perms |-> rw] :
     r \in MCRanges, d \in {0, 1}}
  \union {[kind |-> "unmap", base |-> r[1], size |-> r[2], phys |-> None, perms |-> None] :
            r \in MCRanges}
  \union {[kind |-> "protect", base |-> r[1], size |-> r[2], phys |-> None, perms |-> ro] :
            r \in MCRanges}

\* Frame numbers at both ends of the address, and all sets of permissions.
MCFrameBits == {{}, {0}, {0, 8}, {9}, {9, 39}, 0 .. 39}
MCPermSets == SUBSET {"READ", "WRITE", "EXECUTE", "USER", "GLOBAL"}

\* The bits of an entry (make_terminal_pte and make_intermediate_pte) are read back
\* as what PageTable's entries are: a page or a table, its frame and permissions,
\* also after update_pte_perms.
EntryExact == ops = 0 => PageExact /\ TableExact

\* "Split the 3 bits of the pat selector across the `PWT', `PCD' and `PAT' bits"
\* (pat_selector_to_pte_bits): the processor accesses a page with the cache mode it
\* was mapped with.
CacheModeHonoured ==
  ops = 0 =>
    \A p \in Mappable, perms \in PermSets, mode \in Modes :
      cache_mode(make_terminal_pte(p[1], p[2], perms, mode), p[1]) = mode
=============================================================================

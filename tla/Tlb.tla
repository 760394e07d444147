-------------------------------- MODULE Tlb --------------------------------
(***************************************************************************)
(* The callers of PageTable and the TLB.  AddrSpace::do_unmap unmaps a     *)
(* range, flushes what unmap reported to PendingInvalidationGather, then   *)
(* culls the tables; protect_kimage protects ranges and then flushes all.  *)
(* The processor may walk the tables at any time, speculatively too, and   *)
(* caches translations and, if StructureCaches, the tables on the way.     *)
(***************************************************************************)
EXTENDS PageTable

CONSTANTS
  MaxInvalidations,  \* MAX_PAGE_INVALIDATIONS
  StructureCaches,   \* whether the processor caches tables
  TlbSize,           \* bound on the translations cached at once
  Spaces             \* the kinds of address space: "kernel", "low"

ASSUME TlbAssumption == StructureCaches \in BOOLEAN /\ MaxInvalidations \in Nat /\ TlbSize \in Nat

VARIABLES
  space,    \* the kind of address space that is active
  gather,   \* PendingInvalidationGather: the pages reported, or All
  flushed,  \* whether do_unmap has flushed
  tlb,      \* cached translations: the first page, the level, the entry, whether global
  walks     \* cached tables

tlbVars == <<space, gather, flushed, tlb, walks>>
allVars == <<vars, tlbVars>>

\* PendingInvalidationGather::All.
All == None

\* add_tlb_flush.  Mutant: what does not fit is dropped.
add_tlb_flush_full(v) ==
  IF Cardinality(gather) < MaxInvalidations THEN gather \union {v} ELSE gather
add_tlb_flush(v) ==
  IF gather = All THEN gather
  ELSE IF Cardinality(gather) < MaxInvalidations THEN gather \union {v}
  ELSE All

\* The pages that an entry at `level' maps, the first of which is v.
Span(v, level) == v .. v + level_page_count(level) - 1

TlbInit ==
  /\ Init
  /\ space \in Spaces
  /\ gather = {}
  /\ flushed = FALSE
  /\ tlb = {}
  /\ walks = {}

\* do_unmap expects unmap to succeed, and protect_kimage protect.
Panicked == op.kind \in {"unmap", "protect"} /\ op.result \notin {None, "ok"}

\* protect_kimage is not done.
Protecting == op.kind = "protect" /\ ~flushed

\* Only the kernel's pages are protected.
DoBegin ==
  /\ ~Panicked
  /\ \E r \in Requests :
       /\ r.kind = "protect" => space = "kernel"
       /\ Protecting => r.kind = "protect"
       /\ Begin(r)
  /\ gather' = {}
  /\ flushed' = FALSE
  /\ UNCHANGED <<space, tlb, walks>>

\* update_terminal reports the page it is at; protect_kimage's NoopGather ignores it.
DoUpdate ==
  /\ UpdateTerminal
  /\ gather' = IF op.kind = "unmap" /\ op'.offset > op.offset THEN add_tlb_flush(virt) ELSE gather
  /\ UNCHANGED <<space, flushed, tlb, walks>>

DoStep ==
  /\ MapTerminal \/ CreateTable \/ Descend \/ SkipHole \/ CullLeaf \/ CullReturn \/ Leave
  /\ UNCHANGED tlbVars

\* Pages of the kernel's address space are mapped GLOBAL.
base_perms_global == space = "kernel"

\* What remains of the TLB: invlpg drops a page, toggling CR4.PGE everything, and
\* writing CR3 what is not global.
flush_tlb_page(v) == {e \in tlb : v \notin Span(e.page, e.level)}
flush_kernel_tlb == {}
flush_low_tlb == {e \in tlb : e.global}

\* AddrSpaceOps::flush, and the one of protect_kimage; any of these drops every cached table.
Flush ==
  /\ op.stack = <<>>
  /\ Unmapped \/ (Protecting /\ op.result = "ok")
  /\ ~flushed
  /\ flushed' = TRUE
  /\ tlb' = IF Protecting THEN flush_kernel_tlb
            ELSE IF gather # All THEN {e \in tlb : \A v \in gather : e \in flush_tlb_page(v)}
            ELSE IF space = "kernel" THEN flush_kernel_tlb ELSE flush_low_tlb
  /\ walks' = IF ~Protecting /\ gather = {} THEN walks ELSE {}
  /\ UNCHANGED <<vars, space, gather>>

DoCull ==
  /\ flushed
  /\ BeginCull
  /\ UNCHANGED tlbVars

\* The processor walks the tables for page v, from the root.
Access(v) ==
  LET end == EntryOf(v)[0]
      span == level_page_count(end.level)
  IN
  /\ \/ /\ end.entry.kind = "page"
        /\ Cardinality(tlb) < TlbSize
        /\ tlb' = tlb \union {[page |-> v - (v % span), level |-> end.level, entry |-> end.entry,
                               global |-> base_perms_global]}
     \/ StructureCaches /\ tlb' = tlb
  /\ walks' = IF StructureCaches
              THEN walks \union {EntryOf(v)[l].entry.frame :
                                   l \in {k \in TableLevels : EntryOf(v)[k].entry.kind = "table"}}
              ELSE walks
  /\ UNCHANGED <<vars, space, gather, flushed>>

TlbNext ==
  \/ DoBegin
  \/ DoUpdate
  \/ DoStep
  \/ Flush
  \/ DoCull
  \/ \E v \in Pages : Access(v)
  \/ Rest /\ UNCHANGED tlbVars

TlbSpec == TlbInit /\ [][TlbNext]_allVars

\* The processor that holds the lock keeps executing.
TlbFairSpec == TlbSpec /\ WF_allVars(DoUpdate \/ DoStep \/ Flush \/ DoCull)

\* A cached translation is that of the tables, except for the pages an unmap has
\* cleared and not yet flushed, and for permissions while the image is protected:
\* do_unmap leaves no stale translation behind,
\* whether the pages were reported one by one or too many to be, and whatever the
\* processor fetched meanwhile.  Tables are culled only once that is so.
TlbFresh ==
  \A e \in tlb :
    \/ EntryOf(e.page)[0] = [entry |-> e.entry, level |-> e.level]
    \/ /\ op.kind = "unmap"
       /\ ~flushed
       /\ Span(e.page, e.level) \subseteq op.base .. op.base + op.offset - 1
    \/ /\ Protecting
       /\ EntryOf(e.page)[0].level = e.level
       /\ EntryOf(e.page)[0].entry.frame = e.entry.frame

\* "Called after the page table has already been completely unlinked ..., so it can
\* safely be freed without concern for whether other cores may be translating
\* addresses concurrently": no table that is freed is still cached.
FreedNotWalked == walks \subseteq DOMAIN tables
=============================================================================

----------------------------- MODULE PageTable -----------------------------
(***************************************************************************)
(* mm/pt.rs: mapping, unmapping, protecting and culling ranges of pages in *)
(* a tree of page tables.  One step is one iteration of walk_level in the  *)
(* innermost recursion under way; op.stack holds the recursion.  Requests  *)
(* do not interleave: callers hold the lock of the address space.          *)
(*                                                                         *)
(* As in AddrSpace::do_unmap, an unmap that succeeds is followed by the    *)
(* cull of the same range.                                                 *)
(***************************************************************************)
EXTENDS Naturals, Sequences, FiniteSetsExt, TLC

CONSTANTS
  Levels,         \* PT_LEVEL_COUNT
  EntryCount,     \* PT_ENTRY_COUNT
  LargeLevels,    \* the levels for which mmu::supports_page_size holds
  CullLevels,     \* the levels of tables that can_cull allows to be freed
  PageCount,      \* pages 0 .. PageCount - 1 are mapped and unmapped
  TableFrames,    \* frames for page tables
  Root,           \* the frame of the root table
  Requests,       \* what callers ask for: [kind, base, size, phys, perms]
  MaxOps,         \* bound on the number of requests
  AnyRange,       \* whether ranges may be such that a hole is overshot
  None

ASSUME LevelsAssumption == Levels \in Nat \ {0} /\ EntryCount \in Nat \ {0, 1}
ASSUME LargeAssumption == 0 \in LargeLevels /\ Levels - 1 \notin LargeLevels
ASSUME RootAssumption == Root \notin TableFrames /\ AnyRange \in BOOLEAN

VARIABLES
  tables,  \* tables[t][i]: entry i of table t, for the root and the tables allocated
  op,      \* the request in progress, or the last one
  ops      \* requests made

vars == <<tables, op, ops>>

Pages == 0 .. PageCount - 1
Indexes == 0 .. EntryCount - 1
TableLevels == 0 .. Levels - 1
free == TableFrames \ DOMAIN tables

Empty == [kind |-> "empty"]
Table(t) == [kind |-> "table", frame |-> t]
NewTable == [i \in Indexes |-> Empty]
Terminal(f, p) == [kind |-> "page", frame |-> f, perms |-> p]

level_page_count(level) == EntryCount ^ level
pt_index(v, level) == (v \div level_page_count(level)) % EntryCount
aligned_for_level(n, level) == n % level_page_count(level) = 0
align_up(n, m) == ((n + m - 1) \div m) * m

\* The entry in which the walk for page v is at each level, or the one above at
\* which it ended.
EntryOf(v) ==
  LET walk[l \in TableLevels] ==
        IF l = Levels - 1
        THEN [entry |-> tables[Root][pt_index(v, l)], level |-> l]
        ELSE LET above == walk[l + 1]
             IN IF above.entry.kind = "table"
                THEN [entry |-> tables[above.entry.frame][pt_index(v, l)], level |-> l]
                ELSE above
  IN walk

\* The translation the processor makes of page v.
Translate(v) ==
  LET end == EntryOf(v)[0]
  IN IF end.entry.kind # "page" THEN None
     ELSE [frame |-> end.entry.frame + (v % level_page_count(end.level)), perms |-> end.entry.perms]
-----------------------------------------------------------------------------
\* walk_level: the loop over a table, from v for at most `remaining' pages.
Walk(table, level, v, remaining) ==
  [table |-> table, level |-> level, next |-> None, covered |-> FALSE,
   max |-> Min({v + remaining, align_up(v + 1, EntryCount * level_page_count(level))})]

virt == op.base + op.offset
remaining_pages == op.size - op.offset
Top == op.stack[Len(op.stack)]
Walking == op.stack # <<>> /\ virt < Top.max /\ Top.next = None
index == pt_index(virt, Top.level)
here == tables[Top.table][index]
Updates == op.kind \in {"unmap", "protect"}

covers_level_entry ==
  aligned_for_level(virt, Top.level) /\ remaining_pages >= level_page_count(Top.level)
can_use_level_page ==
  /\ Top.level \in LargeLevels
  /\ covers_level_entry
  /\ aligned_for_level(op.phys + op.offset, Top.level)

\* A step that leaves the stack and the request but for its offset alone.
Advance(pages) == op' = [op EXCEPT !.offset = @ + pages]
\* advance_clamped.  Mutant: it forgets to advance.
clamped_zero(pages) == 0
clamped(pages) == Min({pages, remaining_pages})
Set(entry) == tables' = [tables EXCEPT ![Top.table][index] = entry]
Fail(error) == op' = [op EXCEPT !.result = error, !.stack = <<>>] /\ UNCHANGED tables

Request(kind, base, size, phys, perms) ==
  [kind |-> kind, base |-> base, size |-> size, offset |-> 0, phys |-> phys, perms |-> perms,
   result |-> None, stack |-> <<Walk(Root, Levels - 1, base, size)>>]

\* Whether advance_clamped, called part way into the first entry of a range, jumps
\* over pages of the next one: unmap and protect call it for an entry that is not
\* present, cull_tables at level 1 for any entry.
Overshoots(r) ==
  r.kind # "map" /\ \E l \in 1 .. Levels - 1 :
    /\ ~aligned_for_level(r.base, l)
    /\ r.base + r.size > align_up(r.base, level_page_count(l))
    /\ \/ r.kind = "unmap" /\ l = 1
       \/ EntryOf(r.base)[l] = [entry |-> Empty, level |-> l]

Init ==
  /\ tables = (Root :> NewTable)
  /\ op = [Request("cull", 0, 0, None, None) EXCEPT !.result = "ok", !.stack = <<>>]
  /\ ops = 0

Unmapped == op.kind = "unmap" /\ op.result = "ok"

\* map, unmap and protect are called.
Begin(r) ==
  /\ op.stack = <<>>
  /\ ~Unmapped
  /\ ops < MaxOps
  /\ Overshoots(r) => AnyRange
  /\ op' = Request(r.kind, r.base, r.size, r.phys, r.perms)
  /\ ops' = ops + 1
  /\ UNCHANGED tables

\* do_unmap goes on with cull_tables.
BeginCull ==
  /\ op.stack = <<>>
  /\ Unmapped
  /\ op' = Request("cull", op.base, op.size, None, None)
  /\ UNCHANGED <<tables, ops>>
-----------------------------------------------------------------------------
\* map_terminal.  Mutant: an entry that is present is overwritten.
map_terminal_over == TRUE
map_terminal_free == here = Empty

MapTerminal ==
  /\ Walking
  /\ op.kind = "map"
  /\ can_use_level_page
  /\ IF map_terminal_free
     THEN /\ Set(Terminal(op.phys + op.offset, op.perms))
          /\ Advance(level_page_count(Top.level))
     ELSE Fail("RESOURCE_OVERLAP")
  /\ UNCHANGED ops

\* next_table_or_create, when there is no next table.
CreateTable ==
  /\ Walking
  /\ op.kind = "map"
  /\ ~can_use_level_page
  /\ here.kind # "table"
  /\ CASE here.kind = "page" -> Fail("RESOURCE_OVERLAP")
       [] here = Empty /\ free = {} -> Fail("OUT_OF_MEMORY")
       [] here = Empty /\ free # {} ->
            LET t == CHOOSE t \in free : TRUE
            IN /\ tables' = [u \in DOMAIN tables \union {t} |->
                              CASE u = t -> NewTable
                                [] u = Top.table -> [tables[u] EXCEPT ![index] = Table(t)]
                                [] OTHER -> tables[u]]
              /\ op' = [op EXCEPT !.stack = Append(@, Walk(t, Top.level - 1, virt, remaining_pages))]
  /\ UNCHANGED ops

\* The recursive calls of map, walk_update and cull_tables.
Descend ==
  /\ Walking
  /\ here.kind = "table"
  /\ \/ op.kind = "map" /\ ~can_use_level_page
     \/ Updates
     \/ op.kind = "cull" /\ Top.level > 1
  /\ LET depth == Len(op.stack)
         call == Walk(here.frame, Top.level - 1, virt, remaining_pages)
         caller == IF op.kind = "cull"
                   THEN [Top EXCEPT !.next = index, !.covered = covers_level_entry]
                   ELSE Top
     IN op' = [op EXCEPT !.stack = Append([op.stack EXCEPT ![depth] = caller], call)]
  /\ UNCHANGED <<tables, ops>>

\* What unmap and protect put in place of an entry.  An empty one that is protected
\* gets permissions but stays not present.
update(entry) ==
  IF op.kind = "unmap" \/ entry = Empty THEN Empty ELSE [entry EXCEPT !.perms = op.perms]

\* walk_update at an entry that is not a table.
UpdateTerminal ==
  /\ Walking
  /\ Updates
  /\ Top.level = 0 \/ here.kind = "page"
  /\ IF Top.level = 0 \/ covers_level_entry
     THEN Set(update(here)) /\ Advance(level_page_count(Top.level))
     ELSE Fail("RESOURCE_OVERLAP")
  /\ UNCHANGED ops

\* walk_update and cull_tables where there is no next table.
SkipHole ==
  /\ Walking
  /\ \/ Updates /\ Top.level > 0 /\ here = Empty
     \/ op.kind = "cull" /\ here.kind # "table"
  /\ Advance(clamped(level_page_count(Top.level)))
  /\ UNCHANGED <<tables, ops>>

table_is_empty(t) == \A i \in Indexes : tables[t][i] = Empty

\* Whether cull_tables frees the table t at `level'.  Mutant: only if it is covered.
culls_covered(t, level, covered) == level \in CullLevels /\ covered
culls(t, level, covered) ==
  /\ level \in CullLevels
  /\ covered \/ table_is_empty(t)

\* Unlink and free the table that entry i of Top's table refers to, if it is culled.
Cull(i, covered) ==
  LET t == tables[Top.table][i].frame
  IN tables' = IF culls(t, Top.level - 1, covered)
               THEN [u \in DOMAIN tables \ {t} |->
                       IF u = Top.table THEN [tables[u] EXCEPT ![i] = Empty] ELSE tables[u]]
               ELSE tables

\* cull_tables at level 1, whose tables have no tables below them.
CullLeaf ==
  /\ Walking
  /\ op.kind = "cull"
  /\ Top.level = 1
  /\ here.kind = "table"
  /\ Cull(index, covers_level_entry)
  /\ Advance(clamped(level_page_count(1)))
  /\ UNCHANGED ops

\* cull_tables after its recursive call.
CullReturn ==
  /\ op.stack # <<>>
  /\ Top.next # None
  /\ Cull(Top.next, Top.covered)
  /\ op' = [op EXCEPT !.stack[Len(op.stack)].next = None]
  /\ UNCHANGED ops

\* A loop is over; when it was the root's, so is the request.
Leave ==
  /\ op.stack # <<>>
  /\ Top.next = None
  /\ virt >= Top.max
  /\ op' = [op EXCEPT !.stack = SubSeq(@, 1, Len(@) - 1),
                      !.result = IF Len(op.stack) = 1 THEN "ok" ELSE None]
  /\ UNCHANGED <<tables, ops>>

Step ==
  \/ MapTerminal
  \/ CreateTable
  \/ Descend
  \/ UpdateTerminal
  \/ SkipHole
  \/ CullLeaf
  \/ CullReturn
  \/ Leave
  \/ BeginCull

\* Callers make no request, or no more.
Rest == op.stack = <<>> /\ ~Unmapped /\ UNCHANGED vars

Next ==
  \/ Step
  \/ \E r \in Requests : Begin(r)
  \/ Rest

Spec == Init /\ [][Next]_vars

\* The processor that holds the lock keeps executing.
FairSpec == Spec /\ WF_vars(Step)
-----------------------------------------------------------------------------
\* The tables at each level, following the entries from the root.
TablesAt ==
  LET at[l \in TableLevels] ==
        IF l = Levels - 1 THEN {Root}
        ELSE {tables[e[1]][e[2]].frame :
               e \in {x \in at[l + 1] \X Indexes : tables[x[1]][x[2]].kind = "table"}}
  IN at

Links == {e \in (DOMAIN tables) \X Indexes : tables[e[1]][e[2]].kind = "table"}

\* The tables are a tree at all times: every entry refers to a table that is
\* allocated (no freed table stays linked, not even while cull_tables runs), no
\* table has two parents or is lost, entries of level 0 are pages, and large pages
\* are aligned.
IsTree ==
  /\ \A e \in Links : tables[e[1]][e[2]].frame \in DOMAIN tables
  /\ DOMAIN tables = UNION {TablesAt[l] : l \in TableLevels}
  /\ \A e, g \in Links : tables[e[1]][e[2]] = tables[g[1]][g[2]] => e = g
  /\ \A t \in TablesAt[0], i \in Indexes : tables[t][i].kind # "table"
  /\ \A l \in TableLevels : \A t \in TablesAt[l], i \in Indexes :
       tables[t][i].kind = "page" =>
         l \in LargeLevels /\ aligned_for_level(tables[t][i].frame, l)

\* The pages a table reaches: those whose walk passes through it.
PagesUnder(t) == {v \in Pages : \E l \in TableLevels : EntryOf(v)[l].entry = Table(t)}

\* cull_tables gives back every table that the unmapped range left empty and that
\* may be freed.
CullComplete ==
  op.kind = "cull" /\ op.result = "ok" /\ op.size > 0 =>
    \A l \in CullLevels : \A t \in TablesAt[l] :
      PagesUnder(t) \intersect op.base .. op.base + op.size - 1 # {}
        => ~table_is_empty(t)

\* The tables are a tree whatever walk is under way, and culling leaves none behind.
TreeExact == IsTree /\ CullComplete

\* "Unmaps any pages in the range covered by `pointer'", skipping holes: after an
\* unmap that returns Ok nothing in the range is mapped.
UnmapsAll ==
  Unmapped => \A v \in op.base .. op.base + op.size - 1 : Translate(v) = None

\* Every request returns.
Returns == op.stack # <<>> ~> op.stack = <<>>

\* The tables implement the map of pages that PageMap describes: progress is
\* exact, nothing is overwritten, and pages outside the range are left alone.
PM == INSTANCE PageMap WITH
        map <- [v \in Pages |-> Translate(v)],
        req <- [kind |-> op.kind, base |-> op.base, size |-> op.size, offset |-> op.offset,
                phys |-> op.phys, perms |-> op.perms, result |-> op.result]
ImplementsPageMap == PM!Spec
=============================================================================

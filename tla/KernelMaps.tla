----------------------------- MODULE KernelMaps -----------------------------
(***************************************************************************)
(* mm/kmap.rs over the kernel's address space: kernel stacks with their    *)
(* guard pages, and mappings of objects.  Tasks make and drop them         *)
(* concurrently; each call of the address space is one or more steps of    *)
(* AddrSpace, so that tasks interleave between the calls.                  *)
(***************************************************************************)
EXTENDS AddrSpace

CONSTANTS
  Tasks,       \* callers
  STACK_PAGES, \* pages of a stack
  PAGE_SIZE,   \* bytes of a page
  IoRanges     \* physical byte ranges of devices: <<base, len>>

ASSUME StackAssumption ==
  /\ STACK_PAGES \in Nat \ {0}
  /\ PAGE_SIZE \in Nat \ {0}
  /\ \A r \in IoRanges : r[1] >= (FrameCount + 1) * PAGE_SIZE /\ r[2] > 0

VARIABLES
  job,     \* job[t]: what task t is doing, with the frames, slice, mapping
           \* and device range it has
  failed   \* mappings whose commit failed in kmap

kmapVars == <<vars, job, failed>>

Idle == [pc |-> "idle", frames |-> None, slice |-> None, mapping |-> None, io |-> None]
At(t, pc) == job[t].pc = pc
Becomes(t, j) == job' = [job EXCEPT ![t] = j]
Goto(t, pc) == Becomes(t, [job[t] EXCEPT !.pc = pc])

\* The frames of objects that are not mapped yet.
Unmapped == UNION {Range(job[t].frames) : t \in {u \in Tasks : job[u].frames # None}}

\* EagerVmObject::new takes the lowest free frames.
EagerFrames(n) ==
  LET avail == free \ Unmapped
  IN {f \in [0 .. n - 1 -> avail] :
        \A i \in 0 .. n - 1 : Cardinality({x \in avail : x < f[i]}) = i}

KernelInit ==
  /\ Init
  /\ job = [t \in Tasks |-> Idle]
  /\ failed = {}
-----------------------------------------------------------------------------
(***************************************************************************)
(* KernelStack.                                                            *)
(***************************************************************************)

\* KernelStack::new: the object.
StackObject(t) ==
  /\ At(t, "idle")
  /\ IF EagerFrames(STACK_PAGES) = {} THEN UNCHANGED job
     ELSE \E frames \in EagerFrames(STACK_PAGES) :
            Becomes(t, [Idle EXCEPT !.pc = "slice", !.frames = frames])
  /\ UNCHANGED <<vars, failed>>

\* The slice; if there is no room, the object is dropped.
StackSlice(t) ==
  /\ At(t, "slice")
  /\ CreateSubslice(Root, <<"aligned", 0>>, STACK_PAGES + 1)
  /\ IF held' = held THEN Becomes(t, Idle)
     ELSE \E s \in held' \ held : Becomes(t, [job[t] EXCEPT !.pc = "map", !.slice = s])
  /\ UNCHANGED failed

\* Where the stack is mapped.  Mutant: no page is left for the guard.
stack_base_unguarded(s) == slice[s].start
stack_base(s) == slice[s].start + 1

\* map_committed: the mapping, which takes the object; on failure the stack is
\* dropped.
StackMap(t) ==
  LET s == job[t].slice
  IN
  /\ At(t, "map")
  /\ Map(s, <<"fixed", stack_base(s)>>, STACK_PAGES, 0, STACK_PAGES, {job[t].frames}, "rw")
  /\ IF held' = held THEN Becomes(t, [job[t] EXCEPT !.pc = "drop", !.frames = None])
     ELSE \E m \in held' \ held :
            Becomes(t, [job[t] EXCEPT !.pc = "commit", !.frames = None, !.mapping = m])
  /\ UNCHANGED failed

\* map_committed: the pages.
BeginCommit(t) ==
  /\ job[t].pc \in {"commit", "kcommit"}
  /\ Commit(job[t].mapping, 0)
  /\ Goto(t, IF At(t, "commit") THEN "committing" ELSE "kcommitting")
  /\ UNCHANGED failed

\* Whether commit has returned Ok.
Committed(m) == mapping[m].committed = 0 .. mapping[m].count - 1

\* What becomes of a new stack whose commit has returned.  Mutant: a failed one is
\* forgotten.
stack_result_forgotten(t) == IF Committed(job[t].mapping) THEN "stack" ELSE "idle"
stack_result(t) == IF Committed(job[t].mapping) THEN "stack" ELSE "drop"

\* KernelStack::new is done: the handle of the mapping goes out of scope, and on
\* failure the stack, too.
StackReturn(t) ==
  /\ At(t, "committing")
  /\ DropHandle(job[t].mapping)
  /\ Becomes(t, [job[t] EXCEPT !.pc = stack_result(t), !.mapping = None])
  /\ UNCHANGED failed

\* KernelStack::drop.
StackDrop(t) ==
  /\ job[t].pc \in {"stack", "drop"}
  /\ UnmapSlice(job[t].slice)
  /\ Goto(t, "unmapping")
  /\ UNCHANGED failed

StackDropped(t) ==
  /\ At(t, "unmapping")
  /\ DropHandle(job[t].slice)
  /\ Becomes(t, Idle)
  /\ UNCHANGED failed
-----------------------------------------------------------------------------
(***************************************************************************)
(* kmap, iomap and KernelMapping.                                          *)
(***************************************************************************)

\* kmap of one of the objects, each of n pages: map_committed's mapping.
KmapObject(t, n, objects, io) ==
  /\ At(t, "idle")
  /\ Map(Root, <<"aligned", 0>>, n, 0, n, objects, "rw")
  /\ IF held' = held THEN UNCHANGED job
     ELSE \E m \in held' \ held :
            Becomes(t, [Idle EXCEPT !.pc = "kcommit", !.mapping = m, !.io = io])
  /\ UNCHANGED failed

Kmap(t, n) == KmapObject(t, n, EagerFrames(n), None)

to_page_count(bytes) == (bytes + PAGE_SIZE - 1) \div PAGE_SIZE

\* iomap: kmap of the frames from the one that contains the base.
Iomap(t, base, len) ==
  LET n == to_page_count(len)
      base_pfn == base \div PAGE_SIZE
  IN KmapObject(t, n, {[i \in 0 .. n - 1 |-> base_pfn + i]}, [base |-> base, len |-> len])

\* IoMapping::addr, in bytes.
io_addr(t) == mapping[job[t].mapping].start * PAGE_SIZE + (job[t].io.base % PAGE_SIZE)

\* kmap returns the mapping, or drops its handle and leaves it in the root slice.
KmapReturn(t) ==
  LET m == job[t].mapping
  IN
  /\ At(t, "kcommitting")
  /\ op = None
  /\ IF Committed(m) THEN Goto(t, "mapping") /\ UNCHANGED <<vars, failed>>
     ELSE DropHandle(m) /\ Becomes(t, Idle) /\ failed' = failed \union {m}

\* KernelMapping::drop: unmap, then the handle.
MappingDrop(t) ==
  /\ At(t, "mapping")
  /\ Unmap(job[t].mapping)
  /\ Goto(t, "kunmapped")
  /\ UNCHANGED failed

MappingDropped(t) ==
  /\ At(t, "kunmapped")
  /\ DropHandle(job[t].mapping)
  /\ Becomes(t, Idle)
  /\ UNCHANGED failed

\* The steps of the call that holds the address space's lock.
InCall ==
  /\ Provide \/ MapLast \/ CommitFinish \/ UnmapSliceFinish
  /\ UNCHANGED <<job, failed>>

KernelNext ==
  \/ \E t \in Tasks :
       \/ StackObject(t)
       \/ StackSlice(t)
       \/ StackMap(t)
       \/ BeginCommit(t)
       \/ StackReturn(t)
       \/ StackDrop(t)
       \/ StackDropped(t)
       \/ KmapReturn(t)
       \/ MappingDrop(t)
       \/ MappingDropped(t)
       \/ \E n \in Sizes : Kmap(t, n)
       \/ \E r \in IoRanges : Iomap(t, r[1], r[2])
  \/ InCall

KernelSpec == KernelInit /\ [][KernelNext]_kmapVars
-----------------------------------------------------------------------------
\* A task that has a stack has all its pages but the lowest, to which nothing is
\* ever mapped, each with a frame that no other page has.
StacksGuarded ==
  \A t \in {u \in Tasks : At(u, "stack")} :
    LET s == job[t].slice
    IN /\ pages[slice[s].start] = None
       /\ \A v \in Span(s) \ {slice[s].start} :
            /\ pages[v] # None
            /\ pages[v].prot = "rw"
            /\ \A w \in Pages \ {v} : pages[w] # None => pages[w].frame # pages[v].frame

\* However new and kmap fail and whatever runs in between, what is in the kernel's
\* address space is in the hands of a task, but for the mappings that kmap leaves
\* behind when its commit fails: no other slice, mapping, page or frame is lost.
NothingLost ==
  LET owned == {job[t].slice : t \in Tasks} \union {job[t].mapping : t \in Tasks}
      inOwned(id) == id \in owned \/ node(id).parent \in owned
  IN /\ \A id \in linked(children) : id \in failed \/ inOwned(id)
     /\ \A id \in (held \ {Root}) : id \in owned
     /\ \A m \in Mappings : mapping[m] # None => m \in failed \/ inOwned(m)
     /\ op = None =>
          \A v \in Pages : pages[v] # None =>
            \E m \in linked(children) \intersect Mappings : v \in Span(m)

\* iomap "maps the physical byte range base..base + len": each of its bytes is
\* mapped, at its distance from addr().
IomapCovers ==
  \A t \in {u \in Tasks : At(u, "mapping") /\ job[u].io # None} :
    \A i \in 0 .. job[t].io.len - 1 :
      LET va == io_addr(t) + i
          page == pages[va \div PAGE_SIZE]
      IN page # None /\ page.frame * PAGE_SIZE + (va % PAGE_SIZE) = job[t].io.base + i

\* What KernelStack::new, kmap and iomap returned stays as they promised while the task
\* has it, whatever the other tasks map, unmap and fail to map.
MapsExact == StacksGuarded /\ IomapCovers
=============================================================================

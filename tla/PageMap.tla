------------------------------ MODULE PageMap ------------------------------
(***************************************************************************)
(* What mm/pt.rs promises of a page table, without the tables: a map from  *)
(* virtual pages to frames and permissions, which map, unmap and protect   *)
(* change page by page in the order of their range.  The progress a        *)
(* request reports (`pointer' in the code) is exactly what it has done, on *)
(* success and on failure, and pages outside the range are left alone.     *)
(***************************************************************************)
EXTENDS Naturals

CONSTANTS PageCount, None

VARIABLES
  map,   \* map[v]: the frame and permissions of page v, or None
  req    \* the request in progress, or the last one

vars == <<map, req>>

Pages == 0 .. PageCount - 1
Page(f, p) == [frame |-> f, perms |-> p]

Init ==
  /\ map = [v \in Pages |-> None]
  /\ req.result = "ok"

\* A request is made when the one before has returned.
Begin ==
  /\ req.result # None
  /\ req'.result = None
  /\ req'.offset = 0
  /\ UNCHANGED map

\* What the request does to page v.
Updated(v) ==
  CASE req.kind = "map" -> Page(req.phys + (v - req.base), req.perms)
    [] req.kind = "unmap" -> None
    [] req.kind = "protect" -> IF map[v] = None THEN None ELSE [map[v] EXCEPT !.perms = req.perms]
    [] req.kind = "cull" -> map[v]

\* The next n pages are done.  map does not overwrite, and cull has nothing to do
\* with the pages.
Advance(n) ==
  LET virt == req.base + req.offset
      done == virt .. virt + n - 1
  IN
  /\ req.result = None
  /\ req.offset + n <= req.size
  /\ req.kind = "map" => \A v \in done : map[v] = None
  /\ map' = [v \in Pages |-> IF v \in done THEN Updated(v) ELSE map[v]]
  /\ req' = [req EXCEPT !.offset = @ + n]

\* A request that has done all of its range, and no other, returns Ok.
Finish ==
  /\ req.result = None
  /\ req.offset = req.size
  /\ req' = [req EXCEPT !.result = "ok"]
  /\ UNCHANGED map

\* map reports an overlap only if it met a mapped page; cull cannot fail.
Fail(error) ==
  /\ req.result = None
  /\ req.kind # "cull"
  /\ error = "RESOURCE_OVERLAP" /\ req.kind = "map" =>
       \E v \in req.base + req.offset .. req.base + req.size - 1 : map[v] # None
  /\ error = "OUT_OF_MEMORY" => req.kind = "map"
  /\ req' = [req EXCEPT !.result = error]
  /\ UNCHANGED map

Next ==
  \/ Begin
  \/ \E n \in 1 .. PageCount : Advance(n)
  \/ Finish
  \/ \E error \in {"RESOURCE_OVERLAP", "OUT_OF_MEMORY"} : Fail(error)

Spec == Init /\ [][Next]_vars
=============================================================================

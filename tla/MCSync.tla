------------------------------- MODULE MCSync -------------------------------
(***************************************************************************)
(* The synchronisation primitives for TLC, one subject per behaviour: the  *)
(* locks of the memory manager and of the console, nested the way the      *)
(* kernel nests them, or the once-cells.  Address space operations         *)
(* allocate from the heap, take frames and log; the heap takes slabs from  *)
(* the physical memory manager; the latter's usage dump logs.              *)
(***************************************************************************)
EXTENDS Console, Once

CONSTANTS aspace, pmm, bsp

VARIABLE subject   \* "locks" or "cells"

KernelNests ==
  {<<aspace, pmm>>, <<aspace, CONSOLE>>, <<pmm, CONSOLE>>}

syncVars == <<consoleVars, onceVars, subject>>

\* Either all processors run with interrupts on, or the bootstrap processor, bsp,
\* still runs with them off and there is no console yet.
SyncInit ==
  /\ ConsoleInit
  /\ OnceInit
  /\ subject \in {"locks", "cells"}
  /\ \A c \in Cpus \ {bsp} : base[c]
  /\ present = base[bsp]
  /\ subject = "cells" => present

Locking(A) == subject = "locks" /\ A /\ UNCHANGED <<onceVars, subject>>
Initialising(A) == subject = "cells" /\ A /\ UNCHANGED <<consoleVars, subject>>

\* After a panic the processors end in hlt, or waiting for a lock of one that is.
AllStopped ==
  /\ PANICKING
  /\ \A c \in Cpus : c \in halted \/ At(c, "spin") \/ calls = MaxCalls
  /\ UNCHANGED syncVars

\* A caller that panicked does nothing more.
AllPanicked == (\A c \in Callers : pc[c] = "panic") /\ UNCHANGED syncVars

SyncNext ==
  \/ Locking(ConsoleNext)
  \/ Initialising(OnceNext)
  \/ AllStopped
  \/ AllPanicked

\* Processors keep executing, closures return and the UART sends.
SyncSpec ==
  /\ SyncInit /\ [][SyncNext]_syncVars
  /\ \A c \in Cpus : WF_syncVars(Locking(Advance(c)))
  /\ WF_syncVars(Locking(Send))
  /\ \A c \in Callers : WF_syncVars(Initialising(OnceStep(c)))
=============================================================================

------------------------------- MODULE MCSched -------------------------------
(***************************************************************************)
(* Threads for TLC, one subject per behaviour: the scheduler, or the       *)
(* register contexts and stacks that its switches and the processor's      *)
(* interrupts go through.                                                  *)
(***************************************************************************)
EXTENDS Sched, Contexts

VARIABLE subject   \* "scheduler" or "contexts"

threadsVars == <<vars, ctxVars, subject>>

ThreadsInit ==
  /\ Init /\ ContextsInit
  /\ subject \in {"scheduler", "contexts"}
  /\ subject = "scheduler" => rsp0 = CHOOSE t \in Kthreads : TRUE

Scheduling(A) == subject = "scheduler" /\ A /\ UNCHANGED <<ctxVars, subject>>
Switching(A) == subject = "contexts" /\ A /\ UNCHANGED <<vars, subject>>

\* After a panic the processor halts.
Panicked == Running("panic") /\ UNCHANGED ctxVars

ThreadsNext == Scheduling(Next) \/ Switching(ContextsNext) \/ Switching(Panicked)

\* FairSpec of Sched, for the subject it is about.
ThreadsSpec ==
  /\ ThreadsInit /\ [][ThreadsNext]_threadsVars
  /\ WF_threadsVars(Scheduling(Start))
  /\ WF_threadsVars(Scheduling(CompleteHandoff))
  /\ WF_threadsVars(Scheduling(EndGuard))
  /\ WF_threadsVars(Scheduling(Resched))
  /\ SF_threadsVars(Scheduling(Exit))
=============================================================================

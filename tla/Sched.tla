------------------------------- MODULE Sched -------------------------------
(***************************************************************************)
(* The thread scheduler of sched.rs on one processor (mp.rs starts only    *)
(* the bootstrap processor), with the context switch of                    *)
(* arch/x86_64/context.rs and the low address space switch of              *)
(* mm/vm/low_aspace.rs that are part of it.                                *)
(*                                                                         *)
(* A step is a stretch of code that nothing on the processor interrupts:   *)
(* schedule_common runs with interrupts off up to the switch of stacks,    *)
(* and what the thread switched to does first (completing the handoff) is  *)
(* a step of its own, on its stack.  Threads are interleaved only by these *)
(* switches.                                                               *)
(*                                                                         *)
(* The run queue, current_thread, idle_thread and the handoff hold         *)
(* UnsafeRefs: they do not keep a thread alive.  SCHED_THREAD_OWNERS and   *)
(* the Arcs callers hold do.                                               *)
(***************************************************************************)
EXTENDS Naturals, Sequences, FiniteSets

CONSTANTS
  Threads,      \* the threads that can be spawned
  Idle,         \* the idle thread
  AddrSpaces,   \* low address spaces
  None,
  MaxRefs       \* bound on the Arcs of one thread that callers hold

ASSUME ThreadsAssumption == Idle \notin Threads /\ None \notin Threads \union {Idle}
ASSUME SpacesAssumption == None \notin AddrSpaces
ASSUME MaxRefsAssumption == MaxRefs \in Nat \ {0}

All == Threads \union {Idle}
NoHandoff == [new |-> None, free |-> None]

VARIABLES
  mem,              \* mem[t]: whether t's memory (and stack) is allocated
  state,            \* state[t]: Thread::state
  aspace,           \* aspace[t]: Context::addr_space
  saved,            \* saved[t]: ThreadContext::sp is where t must resume
  fresh,            \* fresh[t]: t resumes in thread_entry, not in schedule_common
  fault,            \* fault[t]: t is inside handle_page_fault
  refs,             \* refs[t]: the Arcs of t that callers hold
  owners,           \* SCHED_THREAD_OWNERS
  run_queue,
  current,          \* current_thread
  idle_thread,
  handoff,          \* handoff_state
  resched_pending,
  asked,            \* history: whether resched_pending was ever set (nothing in src/ does)
  irq,              \* whether interrupts are enabled
  disable_count,    \* the processor's resched disable count
  stack,            \* whose stack the processor is on (None: the boot stack)
  low,              \* the active low address space
  pc                \* "boot", "body", "guard", "switched" or "crashed"

cpuVars == <<run_queue, current, idle_thread, handoff, resched_pending, asked, irq,
             disable_count, stack, low, pc>>
threadVars == <<mem, state, aspace, saved, fresh, fault, refs, owners>>
vars == <<mem, state, aspace, saved, fresh, fault, refs, owners, run_queue, current,
          idle_thread, handoff, resched_pending, asked, irq, disable_count, stack, low, pc>>

Init ==
  /\ mem = [t \in All |-> "unborn"]
  /\ state = [t \in All |-> "ready"]
  /\ aspace = [t \in All |-> None]
  /\ saved = [t \in All |-> FALSE]
  /\ fresh = [t \in All |-> TRUE]
  /\ fault = [t \in All |-> FALSE]
  /\ refs = [t \in All |-> 0]
  /\ owners = {}
  /\ run_queue = <<>>
  /\ current = None
  /\ idle_thread = None
  /\ handoff = NoHandoff
  /\ resched_pending = FALSE
  /\ asked = FALSE
  /\ irq = FALSE
  /\ disable_count = 0
  /\ stack = None
  /\ low = None
  /\ pc = "boot"

\* The code of a thread other than the idle loop is running.
InBody == pc = "body" /\ stack # Idle
-----------------------------------------------------------------------------
(***************************************************************************)
(* Creating threads and dropping references.                               *)
(***************************************************************************)

\* with_cpu_state_mut asserts that rescheduling is enabled.
CanMutate == disable_count = 0

\* SCHED_THREAD_OWNERS after its push_back of t.  Mutant: the push is missing.
push_owner_lost(t) == owners
push_owner(t) == owners \union {t}

\* The run queue after its push_back of t.
push_ready(t) == Append(run_queue, t)

\* Thread::spawn of a thread whose allocations succeed.  kernel_main spawns one
\* thread on the boot stack and drops its Arc at once.
Spawn(t, a) ==
  /\ InBody \/ (pc = "boot" /\ run_queue = <<>> /\ a = None)
  /\ mem[t] = "unborn"
  /\ mem' = [mem EXCEPT ![t] = "live"]
  /\ aspace' = [aspace EXCEPT ![t] = a]
  /\ saved' = [saved EXCEPT ![t] = TRUE]
  /\ refs' = [refs EXCEPT ![t] = IF pc = "boot" THEN 0 ELSE 1]
  /\ owners' = push_owner(t)
  /\ run_queue' = push_ready(t)
  /\ pc' = IF CanMutate THEN pc ELSE "crashed"
  /\ UNCHANGED <<state, fresh, fault, current, idle_thread, handoff, resched_pending, irq,
                 disable_count, stack, low, asked>>

\* The memory of t after owners become own and its Arcs become n.
MemAfter(t, own, n) == IF n = 0 /\ t \notin own THEN "freed" ELSE mem[t]

\* A caller drops an Arc (not the one that a page fault of t will drop); the last one
\* frees the thread, stack and all.
DropRef(t) ==
  /\ InBody
  /\ refs[t] > IF fault[t] THEN 1 ELSE 0
  /\ refs' = [refs EXCEPT ![t] = @ - 1]
  /\ mem' = [mem EXCEPT ![t] = MemAfter(t, owners, refs[t] - 1)]
  /\ UNCHANGED <<state, aspace, saved, fresh, fault, owners>>
  /\ UNCHANGED cpuVars
-----------------------------------------------------------------------------
(***************************************************************************)
(* Switching threads.                                                      *)
(***************************************************************************)

\* The low address space that switch_context passes to switch_to as the active one.
\* Mutant: none, as in set_context.
old_space_none(old) == None
old_space(old) == aspace[old]

\* begin_context_switch_handoff, then switch_to of the low address spaces (which
\* compares the contexts it is given, not `low'), then do_context_switch.  `new'
\* is resumed where its sp says: the value is read before old's is stored.
\* The processor is lost when `ok' (the assertions on the way) fails or the
\* stack pointer loaded is not one that was saved.
SwitchTo(old, new, free, ok) ==
  /\ handoff' = [new |-> new, free |-> free]
  /\ low' = IF old_space(old) = aspace[new] THEN low ELSE aspace[new]
  /\ saved' = [t \in All |-> IF t = new THEN FALSE ELSE IF t = old THEN TRUE ELSE saved[t]]
  /\ stack' = new
  /\ pc' = IF ok /\ saved[new] THEN "switched" ELSE "crashed"

\* sched::start: take the first ready thread, create the idle thread, switch.
Start ==
  /\ pc = "boot"
  /\ run_queue # <<>>
  /\ LET new == Head(run_queue)
     IN
     /\ run_queue' = Tail(run_queue)
     /\ state' = [state EXCEPT ![new] = "running"]
     /\ mem' = [mem EXCEPT ![Idle] = "live"]
     /\ idle_thread' = Idle
     /\ handoff' = [new |-> new, free |-> None]
     /\ low' = IF aspace[new] = None THEN low ELSE aspace[new]
     /\ saved' = [saved EXCEPT ![Idle] = TRUE, ![new] = FALSE]
     /\ stack' = new
     /\ pc' = IF ~irq /\ CanMutate /\ handoff = NoHandoff THEN "switched" ELSE "crashed"
  /\ UNCHANGED <<aspace, fresh, fault, refs, owners, current, resched_pending, irq, disable_count, asked>>

\* take_ready_thread.
take_ready_thread(queue) == IF queue = <<>> THEN idle_thread ELSE Head(queue)
rest(queue) == IF queue = <<>> THEN <<>> ELSE Tail(queue)

\* What schedule_common and what it calls assert.
SwitchAsserts == CanMutate /\ current # None /\ stack = current /\ handoff = NoHandoff

\* exit_current: the current thread is dead and will be dropped by the next one.
Exit ==
  /\ InBody
  /\ IF disable_count = 0 /\ irq
     THEN LET new == take_ready_thread(run_queue)
          IN
          /\ irq' = FALSE
          /\ resched_pending' = FALSE
          /\ state' = [state EXCEPT ![current] = "dead", ![new] = "running"]
          /\ run_queue' = rest(run_queue)
          /\ SwitchTo(current, new, current, SwitchAsserts)
          /\ UNCHANGED <<mem, aspace, fresh, fault, refs, owners, current, idle_thread,
                         disable_count, asked>>
     ELSE /\ pc' = "crashed"
          /\ UNCHANGED threadVars
          /\ UNCHANGED <<run_queue, current, idle_thread, handoff, resched_pending, irq,
                         disable_count, stack, low, asked>>

\* Where a thread goes on after Thread::current: back into its body, or out of
\* the page fault (whose iret restores the interrupt flag and whose Arc is dropped).
LeaveGuard(t, flag) ==
  /\ pc' = "body"
  /\ irq' = IF fault[t] THEN TRUE ELSE flag
  /\ refs' = IF fault[t] THEN [refs EXCEPT ![t] = @ - 1] ELSE refs
  /\ fault' = [fault EXCEPT ![t] = FALSE]

\* handoff_state after its take().  Mutant: it is read and kept.
take_handoff_kept == handoff
take_handoff == NoHandoff

\* The memory of t after SCHED_THREAD_OWNERS lets go of `free'.  Mutant: the Arc
\* removed from the list is not dropped.
drop_owner_leaks(t, free) == mem[t]
drop_owner(t, free) == IF t = free THEN MemAfter(t, owners \ {free}, refs[t]) ELSE mem[t]

\* complete_context_switch_handoff, on the stack of the thread switched to: the
\* dead thread loses its owner, and its memory if no caller holds an Arc.
\* A new thread then enables interrupts; another returns from schedule_common.
CompleteHandoff ==
  /\ pc = "switched"
  /\ current' = handoff.new
  /\ handoff' = take_handoff
  /\ owners' = owners \ {handoff.free}
  /\ mem' = [t \in All |-> drop_owner(t, handoff.free)]
  /\ fresh' = [fresh EXCEPT ![stack] = FALSE]
  /\ IF fresh[stack]
     THEN irq' = TRUE /\ pc' = "body" /\ UNCHANGED <<refs, fault>>
     ELSE LeaveGuard(stack, irq)
  /\ UNCHANGED <<state, aspace, saved, run_queue, idle_thread, resched_pending,
                 disable_count, stack, low, asked>>
-----------------------------------------------------------------------------
(***************************************************************************)
(* Thread::current and the rescheduling point at the drop of its guard.    *)
(***************************************************************************)

\* Thread::current up to the drop of the ReschedGuard, called from a thread's
\* body, or (isFault) by handle_page_fault for an access to the low half.
Current(isFault) ==
  /\ InBody
  /\ refs[stack] < MaxRefs
  /\ isFault => aspace[stack] # None
  /\ IF isFault /\ ~(disable_count = 0 /\ irq)
     THEN pc' = "crashed" /\ UNCHANGED <<refs, fault, disable_count>>
     ELSE /\ pc' = "guard"
          /\ disable_count' = disable_count + 1
          /\ refs' = [refs EXCEPT ![current] = @ + 1]
          /\ fault' = [fault EXCEPT ![stack] = isFault]
  /\ UNCHANGED <<mem, state, aspace, saved, fresh, owners, run_queue, current, idle_thread,
                 handoff, resched_pending, irq, stack, low, asked>>

\* enable_resched.
enable_resched == disable_count - 1

\* The guard is dropped and no rescheduling is due: resched::enable.
EndGuard ==
  /\ pc = "guard"
  /\ ~(disable_count = 1 /\ irq /\ resched_pending)
  /\ disable_count' = enable_resched
  /\ LeaveGuard(stack, irq)
  /\ UNCHANGED <<mem, state, aspace, saved, fresh, owners, run_queue, current, idle_thread,
                 handoff, resched_pending, stack, low, asked>>

\* What do_resched and schedule_common do to the states.
resched_state(new) == [[state EXCEPT ![current] = "ready"] EXCEPT ![new] = "running"]

\* The guard is dropped and resched_if_pending reschedules: do_resched.
Resched ==
  /\ pc = "guard"
  /\ disable_count = 1 /\ irq /\ resched_pending
  /\ irq' = FALSE
  /\ disable_count' = enable_resched
  /\ resched_pending' = FALSE
  /\ LET queue == push_ready(current)
         new == take_ready_thread(queue)
     IN
     /\ state' = resched_state(new)
     /\ run_queue' = rest(queue)
     /\ SwitchTo(current, new, None,
                 /\ current # None /\ stack = current /\ handoff = NoHandoff
                 /\ state[current] = "running")
  /\ UNCHANGED <<mem, aspace, fresh, fault, refs, owners, current, idle_thread, asked>>

\* An interrupt asks for rescheduling.
SetReschedPending ==
  /\ irq
  /\ pc \in {"body", "guard"}
  /\ resched_pending' = TRUE
  /\ asked' = TRUE
  /\ UNCHANGED threadVars
  /\ UNCHANGED <<run_queue, current, idle_thread, handoff, irq, disable_count, stack, low, pc>>

\* idle_loop and, after a panic, halt.
IdleLoop ==
  /\ (pc = "body" /\ stack = Idle) \/ pc = "crashed"
  /\ UNCHANGED vars

Next ==
  \/ \E t \in Threads : \E a \in AddrSpaces \union {None} : Spawn(t, a)
  \/ \E t \in Threads : DropRef(t)
  \/ Start
  \/ Exit
  \/ CompleteHandoff
  \/ \E isFault \in BOOLEAN : Current(isFault)
  \/ EndGuard
  \/ Resched
  \/ SetReschedPending
  \/ IdleLoop

Spec == Init /\ [][Next]_vars

\* The processor keeps executing, and the function of every thread returns.
FairSpec ==
  /\ Spec
  /\ WF_vars(Start)
  /\ WF_vars(CompleteHandoff)
  /\ WF_vars(EndGuard)
  /\ WF_vars(Resched)
  /\ SF_vars(Exit)
-----------------------------------------------------------------------------
Queued == {run_queue[i] : i \in DOMAIN run_queue}

\* The threads that UnsafeRefs point to.
Referenced == (Queued \union {current, idle_thread, handoff.new, handoff.free}) \ {None}

TypeOK ==
  /\ mem \in [All -> {"unborn", "live", "freed"}]
  /\ state \in [All -> {"ready", "running", "dead"}]
  /\ aspace \in [All -> AddrSpaces \union {None}]
  /\ saved \in [All -> BOOLEAN]
  /\ fresh \in [All -> BOOLEAN]
  /\ fault \in [All -> BOOLEAN]
  /\ refs \in [All -> 0 .. MaxRefs]
  /\ asked \in BOOLEAN
  /\ owners \subseteq Threads
  /\ run_queue \in Seq(Threads)
  /\ current \in All \union {None}
  /\ idle_thread \in {Idle, None}
  /\ handoff \in [new : All \union {None}, free : Threads \union {None}]
  /\ resched_pending \in BOOLEAN
  /\ irq \in BOOLEAN
  /\ disable_count \in 0 .. 1
  /\ stack \in All \union {None}
  /\ low \in AddrSpaces \union {None}
  /\ pc \in {"boot", "body", "guard", "switched", "crashed"}

\* Every UnsafeRef<Thread> the scheduler keeps points to a thread that has not
\* been freed, and the thread to drop is linked on SCHED_THREAD_OWNERS, as
\* cursor_mut_from_ptr needs.  The processor is never on the stack of a freed
\* thread, or of one about to be.
LiveRefs ==
  /\ TypeOK
  /\ \A t \in Referenced : mem[t] = "live"
  /\ handoff.free # None => handoff.free \in owners
  /\ stack # None => mem[stack] = "live" /\ stack # handoff.free

\* The run queue holds exactly the spawned threads that are READY, each once, so
\* no thread is lost and run_queue_link is never linked twice; the one RUNNING
\* thread is the one whose stack the processor is on.  So, as long as nothing asks for
\* rescheduling, no assertion of the scheduler fails and no context is resumed that
\* was not saved.
QueueExact ==
  /\ Queued = {t \in Threads : mem[t] = "live" /\ state[t] = "ready"}
  /\ \A i, j \in DOMAIN run_queue : run_queue[i] = run_queue[j] => i = j
  /\ pc # "crashed" => {t \in All : state[t] = "running"} = {stack} \ {None}
  /\ pc = "crashed" => asked

\* exit_current's assertion "attempted to exit thread with rescheduling disabled":
\* a thread that is running its body can exit.
CanExit == InBody => disable_count = 0 /\ irq

\* What `switch' promises: the registers popped are ones pushed by an earlier
\* switch, so a thread is only ever resumed from a context that was saved.
ResumesSaved ==
  [][handoff = NoHandoff /\ handoff'.new \in Threads => saved[handoff'.new]]_vars

\* If every thread's function returns and nothing asks for rescheduling, every
\* thread is eventually dropped by the scheduler, and freed unless a caller holds
\* it: none starves on the run queue and none leaks.
Reclaimed ==
  \A t \in Threads :
    mem[t] = "live" ~> asked \/ (t \notin owners /\ (mem[t] = "freed" \/ refs[t] > 0))
=============================================================================

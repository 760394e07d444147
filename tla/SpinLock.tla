------------------------------ MODULE SpinLock ------------------------------
(***************************************************************************)
(* sync/spinlock.rs, sync/irq.rs and the resched disable count of          *)
(* sync/resched.rs, on several processors with interrupts: SpinLock::with  *)
(* disables interrupts, takes the lock, runs its closure (which may call   *)
(* `with' on another lock), and undoes both.                               *)
(*                                                                         *)
(* A processor's calls in progress are a stack of frames: a `with' (its    *)
(* lock, the interrupt state to restore and how far it is) or an interrupt *)
(* handler.  The steps are the code's accesses to shared or interruptible  *)
(* state.                                                                  *)
(***************************************************************************)
EXTENDS Integers, Sequences, FiniteSets

CONSTANTS
  Cpus,
  Locks,
  None,
  Nests     \* the pairs <<a, b>> such that `with' on b is called inside `with' on a

ASSUME NestsAssumption == Nests \subseteq Locks \X Locks /\ None \notin Locks

VARIABLES
  locked,         \* locked[l]: RawSpinLock::locked
  irq,            \* irq[c]: whether interrupts are enabled
  disable_count,  \* disable_count[c]: the resched disable count
  frames,         \* frames[c]: the calls in progress, innermost last
  base            \* base[c]: irq outside all calls (boot runs with interrupts off)

vars == <<locked, irq, disable_count, frames, base>>

Handler == [lock |-> None, prev |-> TRUE, pc |-> "handler"]
With(l, prev, pc) == [lock |-> l, prev |-> prev, pc |-> pc]

Busy(c) == frames[c] # <<>>
Top(c) == frames[c][Len(frames[c])]
Pop(c) == frames' = [frames EXCEPT ![c] = SubSeq(@, 1, Len(@) - 1)]
Goto(c, pc) == frames' = [frames EXCEPT ![c][Len(frames[c])].pc = pc]
At(c, pc) == Busy(c) /\ Top(c).pc = pc

Init ==
  /\ locked = [l \in Locks |-> FALSE]
  /\ base \in [Cpus -> BOOLEAN]
  /\ irq = base
  /\ disable_count = [c \in Cpus |-> 0]
  /\ frames = [c \in Cpus |-> <<>>]
-----------------------------------------------------------------------------
\* Where `with' on l can be called: outside all calls, in a handler, or inside a
\* closure that the kernel nests l in.
MayCall(c, l) ==
  \/ ~Busy(c)
  \/ At(c, "handler")
  \/ At(c, "held") /\ <<Top(c).lock, l>> \in Nests

\* irq::disable_with: remember the interrupt state and disable interrupts.
\* Mutant: interrupts are not disabled.
irq_disable_skipped(c) == UNCHANGED irq
irq_disable(c) == irq' = [irq EXCEPT ![c] = FALSE]

DisableIrq(c, l) ==
  /\ MayCall(c, l)
  /\ irq_disable(c)
  /\ frames' = [frames EXCEPT ![c] = Append(@, With(l, irq[c], "off"))]
  /\ UNCHANGED <<locked, disable_count, base>>

\* RawSpinLock::lock: resched::disable, then swap until it returns false.
DisableResched(c) ==
  /\ At(c, "off")
  /\ disable_count' = [disable_count EXCEPT ![c] = @ + 1]
  /\ Goto(c, "spin")
  /\ UNCHANGED <<locked, irq, base>>

\* The value swap returns must be false.  Mutant: it is not looked at.
swap_ignored(l) == TRUE
swap_free(l) == ~locked[l]

Swap(c) ==
  /\ At(c, "spin")
  /\ swap_free(Top(c).lock)
  /\ locked' = [locked EXCEPT ![Top(c).lock] = TRUE]
  /\ Goto(c, "held")
  /\ UNCHANGED <<irq, disable_count, base>>

\* RawSpinLock::unlock: the store, then resched::enable_no_resched.
Store(c) ==
  /\ At(c, "held")
  /\ locked' = [locked EXCEPT ![Top(c).lock] = FALSE]
  /\ Goto(c, "stored")
  /\ UNCHANGED <<irq, disable_count, base>>

enable_no_resched(c) == disable_count' = [disable_count EXCEPT ![c] = @ - 1]

EnableNoResched(c) ==
  /\ At(c, "stored")
  /\ enable_no_resched(c)
  /\ Goto(c, "unlocked")
  /\ UNCHANGED <<locked, irq, base>>

\* disable_with enables interrupts only if they were enabled.
\* Mutant: it always does.
irq_restore_always(c, prev) == irq' = [irq EXCEPT ![c] = TRUE]
irq_restore(c, prev) == irq' = [irq EXCEPT ![c] = @ \/ prev]

RestoreIrq(c) ==
  /\ At(c, "unlocked")
  /\ irq_restore(c, Top(c).prev)
  /\ Pop(c)
  /\ UNCHANGED <<locked, disable_count, base>>

\* The processor takes an interrupt, and returns from its handler.
Interrupt(c) ==
  /\ irq[c]
  /\ irq' = [irq EXCEPT ![c] = FALSE]
  /\ frames' = [frames EXCEPT ![c] = Append(@, Handler)]
  /\ UNCHANGED <<locked, disable_count, base>>

Return(c) ==
  /\ At(c, "handler")
  /\ irq' = [irq EXCEPT ![c] = TRUE]
  /\ Pop(c)
  /\ UNCHANGED <<locked, disable_count, base>>

\* A processor goes on with the call it is in.
Step(c) ==
  \/ DisableResched(c)
  \/ Swap(c)
  \/ Store(c)
  \/ EnableNoResched(c)
  \/ RestoreIrq(c)
  \/ Return(c)

Next ==
  \E c \in Cpus :
    \/ Step(c)
    \/ \E l \in Locks : DisableIrq(c, l)
    \/ Interrupt(c)

Spec == Init /\ [][Next]_vars
-----------------------------------------------------------------------------
Pcs == {"handler", "off", "spin", "held", "stored", "unlocked"}
FrameType == [lock : Locks \union {None}, prev : BOOLEAN, pc : Pcs]

TypeOK ==
  /\ locked \in [Locks -> BOOLEAN]
  /\ irq \in [Cpus -> BOOLEAN]
  /\ disable_count \in [Cpus -> Nat]
  /\ frames \in [Cpus -> Seq(FrameType)]
  /\ base \in [Cpus -> BOOLEAN]

\* The places <<processor, depth>> in the code that a lock protects.
Holders(l) ==
  UNION {{<<c, i>> : i \in {j \in DOMAIN frames[c] :
                              frames[c][j].lock = l /\ frames[c][j].pc = "held"}} : c \in Cpus}

\* The data behind a SpinLock is accessed by one call at a time, on all
\* processors and counting interrupt handlers; the flag says whether by one.
MutualExclusion ==
  \A l \in Locks :
    /\ \A h, g \in Holders(l) : h = g
    /\ locked[l] <=> Holders(l) # {}

\* From irq::disable on, a `with' runs with interrupts off to its end, whatever
\* calls its closure makes: the IrqDisabled it passes on tells the truth.
IrqOffInside ==
  \A c \in Cpus : Busy(c) => ~irq[c]

\* The resched disable count is the number of locks the processor holds or is
\* after, and outside all calls interrupts are as they were: nothing drifts
\* however calls nest and interrupts fall.
CountExact ==
  \A c \in Cpus :
    /\ disable_count[c] =
         Cardinality({i \in DOMAIN frames[c] : frames[c][i].pc \in {"spin", "held", "stored"}})
    /\ ~Busy(c) => irq[c] = base[c]

\* The guards do what they say: types, the interrupt state inside a `with' and the
\* resched disable count are right however calls nest and interrupts fall.
GuardsExact == TypeOK /\ IrqOffInside /\ CountExact

\* The processors that spin, and whom they wait for.
WaitsFor ==
  {e \in Cpus \X Cpus : At(e[1], "spin") /\ \E h \in Holders(Top(e[1]).lock) : h[1] = e[2]}

\* Every one of the processors waits for one of them: some of them wait in a circle.
Deadlocked(S) == S # {} /\ \A c \in S : \E d \in S : <<c, d>> \in WaitsFor
=============================================================================

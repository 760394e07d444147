-------------------------------- MODULE Once --------------------------------
(***************************************************************************)
(* The once-cells of lib/spin-once: Once with get, get_or_init_with and    *)
(* init, the Lazy built on it, and TakeOnce, called by several processors  *)
(* at once.                                                                *)
(*                                                                         *)
(* A step is one atomic access.  `sees' says whether a processor's reads   *)
(* are ordered after the initialising writes: true of the processor that   *)
(* makes them, and of one that has read INITIALIZED with an Acquire load,  *)
(* or with a Relaxed one followed by an Acquire fence.                     *)
(***************************************************************************)
EXTENDS Naturals, FiniteSets

CONSTANTS
  Callers,   \* the processors that call
  Nobody

ASSUME NobodyAssumption == Nobody \notin Callers

VARIABLES
  state,         \* Once::state
  writer,        \* the caller whose value is in the cell, or Nobody
  runs,          \* how many closures f have been started
  initializer,   \* Lazy::initializer: whether it is still there
  taken,         \* TakeOnce::taken
  takers,        \* the callers that TakeOnce gave its value to
  pc, sees,      \* of each caller
  call           \* the operation of each caller: "get", "get_or_init", "init" or "take"

onceVars == <<state, writer, runs, initializer, taken, takers, pc, sees, call>>

OnceInit ==
  /\ state = "UNINITIALIZED"
  /\ writer = Nobody
  /\ runs = 0
  /\ initializer = TRUE
  /\ taken = FALSE
  /\ takers = {}
  /\ pc = [c \in Callers |-> "idle"]
  /\ sees = [c \in Callers |-> FALSE]
  /\ call = [c \in Callers |-> "get"]

OnceGoto(c, l) == pc' = [pc EXCEPT ![c] = l]
Sees(c) == sees' = [sees EXCEPT ![c] = TRUE]
-----------------------------------------------------------------------------
Call(c, op) ==
  /\ pc[c] \in {"idle", "none", "read"}
  /\ call' = [call EXCEPT ![c] = op]
  /\ OnceGoto(c, CASE op = "init" -> "cas" [] op = "take" -> "swap" [] OTHER -> "load")
  /\ UNCHANGED <<state, writer, runs, initializer, taken, takers, sees>>

\* get, also the fast path of get_or_init_with: an Acquire load.
Load(c) ==
  /\ pc[c] = "load"
  /\ IF state = "INITIALIZED"
     THEN Sees(c) /\ OnceGoto(c, "read")
     ELSE UNCHANGED sees /\ OnceGoto(c, IF call[c] = "get" THEN "none" ELSE "cas")
  /\ UNCHANGED <<state, writer, runs, initializer, taken, takers, call>>

\* compare_exchange(UNINITIALIZED, INITIALIZING).
\* Mutant: the comparison and the store are not one access.
cas_always == state # "INITIALIZED"
cas_succeeds == state = "UNINITIALIZED"

CompareExchange(c) ==
  /\ pc[c] = "cas"
  /\ IF cas_succeeds
     THEN /\ state' = "INITIALIZING"
          /\ OnceGoto(c, "f")
     ELSE /\ UNCHANGED state
          /\ OnceGoto(c, CASE call[c] = "init" -> "panic"
                       [] state = "INITIALIZED" -> "fence"
                       [] OTHER -> "spin")
  /\ UNCHANGED <<writer, runs, initializer, taken, takers, sees, call>>

\* The relaxed load of the waiting loop that ends it.
Spin(c) ==
  /\ pc[c] = "spin"
  /\ state # "INITIALIZING"
  /\ OnceGoto(c, "fence")
  /\ UNCHANGED <<state, writer, runs, initializer, taken, takers, sees, call>>

\* fence(Acquire).  Mutant: there is none.
fence_missing(c) == UNCHANGED sees
fence(c) == Sees(c)

Fence(c) ==
  /\ pc[c] = "fence"
  /\ fence(c)
  /\ OnceGoto(c, "read")
  /\ UNCHANGED <<state, writer, runs, initializer, taken, takers, call>>

\* init_with_unchecked: the closure writes the value; that of Lazy::get takes the
\* initializer first.
Invoke(c) ==
  /\ pc[c] = "f"
  /\ runs' = runs + 1
  /\ initializer' = IF call[c] = "get_or_init" THEN FALSE ELSE initializer
  /\ writer' = c
  /\ Sees(c)
  /\ OnceGoto(c, IF call[c] = "get_or_init" /\ ~initializer THEN "panic" ELSE "store")
  /\ UNCHANGED <<state, taken, takers, call>>

\* The store that ends init_with_unchecked.  Mutant: it is forgotten.
store_forgotten == "INITIALIZING"
store_state == "INITIALIZED"

StoreState(c) ==
  /\ pc[c] = "store"
  /\ state' = store_state
  /\ OnceGoto(c, "read")
  /\ UNCHANGED <<writer, runs, initializer, taken, takers, sees, call>>

\* TakeOnce::take_init: swap, and the value to whoever got false.
\* Mutant: whoever calls.
take_wins_always == TRUE
take_wins == ~taken

Take(c) ==
  /\ pc[c] = "swap"
  /\ taken' = TRUE
  /\ takers' = IF take_wins THEN takers \union {c} ELSE takers
  /\ OnceGoto(c, "none")
  /\ UNCHANGED <<state, writer, runs, initializer, sees, call>>

OnceStep(c) ==
  \/ Load(c)
  \/ CompareExchange(c)
  \/ Spin(c)
  \/ Fence(c)
  \/ Invoke(c)
  \/ StoreState(c)
  \/ Take(c)

OnceNext ==
  \E c \in Callers :
    \/ OnceStep(c)
    \/ \E op \in {"get", "get_or_init", "init", "take"} : Call(c, op)

OnceSpec == OnceInit /\ [][OnceNext]_onceVars
-----------------------------------------------------------------------------
OnceTypeOK ==
  /\ state \in {"UNINITIALIZED", "INITIALIZING", "INITIALIZED"}
  /\ writer \in Callers \union {Nobody}
  /\ runs \in 0 .. 1
  /\ initializer \in BOOLEAN
  /\ taken \in BOOLEAN
  /\ takers \subseteq Callers
  /\ pc \in [Callers -> {"idle", "load", "cas", "spin", "fence", "f", "store", "read", "none",
                         "swap", "panic"}]
  /\ sees \in [Callers -> BOOLEAN]
  /\ call \in [Callers -> {"get", "get_or_init", "init", "take"}]

\* A caller that reads the value reads one that has been completely written, with
\* its writes ordered before the read, whichever way it learnt of it.
ReadsInitialized ==
  \A c \in Callers : pc[c] = "read" => writer # Nobody /\ sees[c] /\ state = "INITIALIZED"

\* "Only one of the callers will be selected and only its f will be invoked": no
\* caller is in, or about to enter, a closure once another has been.  init panics
\* only if the cell is initialized or being initialized, Lazy::get never finds its
\* initializer missing, and TakeOnce hands out its value, a &mut, at most once.
OneInitializer ==
  /\ OnceTypeOK
  /\ runs <= 1
  /\ Cardinality({c \in Callers : pc[c] \in {"f", "store"}}) <= 1
  /\ state = "UNINITIALIZED" => runs = 0
  /\ \A c \in Callers : pc[c] = "panic" => call[c] = "init" /\ state # "UNINITIALIZED"
  /\ Cardinality(takers) <= 1

\* The calls that wait for the initialising one return once it has stored.
WaitersReturn == \A c \in Callers : pc[c] \in {"spin", "cas"} ~> pc[c] \in {"read", "panic"}
=============================================================================

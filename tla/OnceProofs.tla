----------------------------- MODULE OnceProofs -----------------------------
(***************************************************************************)
(* The once-cells for any number of callers: one closure runs, every read  *)
(* is of an initialised and visible value, and TakeOnce gives its value    *)
(* once.                                                                   *)
(***************************************************************************)
EXTENDS Once, FiniteSetTheorems, TLAPS

\* Where callers can be in each state of the cell, and what has been done by then:
\* the caller that won the exchange is alone in the closure, and only it ends
\* INITIALIZING.
OnceInv ==
  /\ OnceTypeOK
  /\ \A c, d \in Callers : pc[c] \in {"f", "store"} /\ pc[d] \in {"f", "store"} => c = d
  /\ state = "INITIALIZING" <=> \E c \in Callers : pc[c] \in {"f", "store"}
  /\ state = "UNINITIALIZED" => runs = 0 /\ initializer = TRUE
  /\ state = "INITIALIZED" => writer # Nobody
  /\ \A c \in Callers :
       /\ pc[c] = "f" => runs = 0 /\ initializer = TRUE
       /\ pc[c] = "store" => writer # Nobody /\ sees[c] = TRUE
       /\ pc[c] = "spin" => state # "UNINITIALIZED"
       /\ pc[c] = "fence" => state = "INITIALIZED"
       /\ pc[c] = "read" => sees[c] = TRUE /\ state = "INITIALIZED"
       /\ pc[c] = "panic" => call[c] = "init" /\ state # "UNINITIALIZED"
  /\ taken = FALSE => takers = {}
  /\ \A c, d \in takers : c = d

\* OnceInv is inductive.
LEMMA OnceInvariance == OnceSpec => []OnceInv
  <1>1. OnceInit => OnceInv
    <2> SUFFICES ASSUME OnceInit PROVE OnceInv
      OBVIOUS
    <2>1. OnceTypeOK
      <3>1. sees \in [Callers -> BOOLEAN]
        BY Zenon DEF OnceInit
      <3>2. initializer \in BOOLEAN /\ taken \in BOOLEAN
        BY Zenon DEF OnceInit
      <3>3. pc \in [Callers -> {"idle"}] /\ call \in [Callers -> {"get"}]
        BY Zenon DEF OnceInit
      <3> QED BY <3>1, <3>2, <3>3 DEF OnceInit, OnceTypeOK
    <2>2. \A c \in Callers : pc[c] = "idle"
      BY DEF OnceInit
    <2> QED BY <2>1, <2>2 DEF OnceInit, OnceInv
  <1>2. OnceInv /\ [OnceNext]_onceVars => OnceInv'
    <2> SUFFICES ASSUME OnceInv, [OnceNext]_onceVars
                 PROVE  OnceInv'
      OBVIOUS
    <2> USE NobodyAssumption DEF OnceGoto, Sees
    <2>1. ASSUME NEW c \in Callers, NEW op \in {"get", "get_or_init", "init", "take"}, Call(c, op)
          PROVE  OnceInv'
      BY <2>1 DEF OnceInv, OnceTypeOK, Call
    <2>2. ASSUME NEW c \in Callers, Load(c)
          PROVE  OnceInv'
      <3>1. CASE state = "INITIALIZED"
        <4>1. sees' = [sees EXCEPT ![c] = TRUE] /\ pc' = [pc EXCEPT ![c] = "read"]
              /\ UNCHANGED <<state, writer, runs, initializer, taken, takers, call>>
          BY <2>2, <3>1 DEF Load
        <4>2. OnceTypeOK'
          BY <4>1 DEF OnceInv, OnceTypeOK
        <4>3. /\ \A d \in Callers : pc'[d] = IF d = c THEN "read" ELSE pc[d]
              /\ \A d \in Callers : d # c => sees'[d] = sees[d]
          BY <4>1, Zenon DEF OnceInv, OnceTypeOK
        <4>4. sees'[c] = TRUE
          BY <4>1, Zenon DEF OnceInv, OnceTypeOK
        <4>5. pc[c] = "load"
          BY <2>2 DEF Load
        <4> QED BY <3>1, <4>1, <4>2, <4>3, <4>4, <4>5 DEF OnceInv
      <3>2. CASE state # "INITIALIZED" /\ call[c] = "get"
        BY <2>2, <3>2 DEF OnceInv, OnceTypeOK, Load
      <3>3. CASE state # "INITIALIZED" /\ call[c] # "get"
        BY <2>2, <3>3 DEF OnceInv, OnceTypeOK, Load
      <3> QED BY <3>1, <3>2, <3>3
    <2>3. ASSUME NEW c \in Callers, CompareExchange(c)
          PROVE  OnceInv'
      BY <2>3 DEF OnceInv, OnceTypeOK, CompareExchange, cas_succeeds
    <2>4. ASSUME NEW c \in Callers, Spin(c)
          PROVE  OnceInv'
      BY <2>4 DEF OnceInv, OnceTypeOK, Spin
    <2>5. ASSUME NEW c \in Callers, Fence(c)
          PROVE  OnceInv'
      BY <2>5 DEF OnceInv, OnceTypeOK, Fence, fence
    <2>6. ASSUME NEW c \in Callers, Invoke(c)
          PROVE  OnceInv'
      <3>1. initializer = TRUE /\ runs = 0
        BY <2>6 DEF OnceInv, Invoke
      <3>2. pc' = [pc EXCEPT ![c] = "store"]
        BY <2>6, <3>1, Zenon DEF Invoke
      <3>3. initializer' \in BOOLEAN
        BY <2>6, <3>1, Zenon DEF Invoke
      <3>4. OnceTypeOK'
        BY <2>6, <3>1, <3>2, <3>3 DEF OnceInv, OnceTypeOK, Invoke
      <3> QED BY <2>6, <3>1, <3>2, <3>4 DEF OnceInv, OnceTypeOK, Invoke
    <2>7. ASSUME NEW c \in Callers, StoreState(c)
          PROVE  OnceInv'
      BY <2>7 DEF OnceInv, OnceTypeOK, StoreState, store_state
    <2>8. ASSUME NEW c \in Callers, Take(c)
          PROVE  OnceInv'
      BY <2>8 DEF OnceInv, OnceTypeOK, Take, take_wins
    <2>9. CASE UNCHANGED onceVars
      BY <2>9 DEF OnceInv, OnceTypeOK, onceVars
    <2> QED BY <2>1, <2>2, <2>3, <2>4, <2>5, <2>6, <2>7, <2>8, <2>9 DEF OnceNext, OnceStep
  <1> QED BY <1>1, <1>2, PTL DEF OnceSpec

\* A set whose elements are all the same has at most one.
LEMMA AtMostOne ==
  ASSUME NEW S, \A a, b \in S : a = b
  PROVE  Cardinality(S) <= 1
  <1>1. CASE S = {}
    BY <1>1, FS_EmptySet
  <1>2. CASE S # {}
    <2> PICK a \in S : TRUE
      BY <1>2
    <2>1. S = {a}
      OBVIOUS
    <2> QED BY <2>1, FS_Singleton
  <1> QED BY <1>1, <1>2

\* get, get_or_init_with and Lazy::get give out a reference only to a value that has
\* been written, by writes ordered before the read.
THEOREM OnceReads == OnceSpec => []ReadsInitialized
  <1>1. OnceInv => ReadsInitialized
    BY DEF OnceInv, ReadsInitialized
  <1> QED BY <1>1, OnceInvariance, PTL

\* One closure is ever invoked, however many callers race, init panics only when the
\* cell is taken, and TakeOnce gives out its value once.
THEOREM OnceInitializes == OnceSpec => []OneInitializer
  <1>1. OnceInv => OneInitializer
    <2> SUFFICES ASSUME OnceInv PROVE OneInitializer
      OBVIOUS
    <2>1. Cardinality({c \in Callers : pc[c] \in {"f", "store"}}) <= 1
      BY AtMostOne DEF OnceInv
    <2>2. Cardinality(takers) <= 1
      BY AtMostOne DEF OnceInv
    <2> QED BY <2>1, <2>2 DEF OnceInv, OneInitializer, OnceTypeOK
  <1> QED BY <1>1, OnceInvariance, PTL
=============================================================================

----------------------------- MODULE SchedProofs -----------------------------
(***************************************************************************)
(* The scheduler for any number of threads and address spaces: none of its *)
(* UnsafeRefs dangles, the run queue holds exactly the ready threads, and  *)
(* as long as nothing asks for rescheduling none of its assertions fails.  *)
(***************************************************************************)
EXTENDS Sched, TLAPS

\* The elements of a queue, and that none is twice on it.
Elements(q) == {q[i] : i \in DOMAIN q}
Once(q) == \A i, j \in DOMAIN q : q[i] = q[j] => i = j

\* Who is where: the run queue has the ready threads,
InQueue ==
  /\ Elements(run_queue) = {t \in Threads : mem[t] = "live" /\ state[t] = "ready"}
  /\ Once(run_queue)

\* the processor is on the stack of the running one,
Running == \A t \in All : state[t] = "running" <=> t = stack

\* SCHED_THREAD_OWNERS has every live thread that is not dead, and the dead one that is
\* about to be dropped,
Owned ==
  \A t \in Threads :
    /\ mem[t] = "unborn" => state[t] = "ready" /\ t \notin owners
    /\ mem[t] = "live" /\ state[t] # "dead" => t \in owners
    /\ t \in owners => mem[t] = "live" /\ (state[t] = "dead" => t = handoff.free)
    /\ mem[t] = "freed" => state[t] = "dead"

\* and what the scheduler's fields point to is there.
Pointers ==
  /\ state[Idle] # "dead"
  /\ handoff.free # None => handoff.free \in owners /\ state[handoff.free] = "dead"
  /\ current # None => mem[current] = "live"
  /\ stack # None => mem[stack] = "live"
  /\ handoff.new # None => handoff.new = stack
  /\ idle_thread # None => mem[Idle] = "live"

Places == InQueue /\ Running /\ Owned /\ Pointers

\* What each place in the code knows.
Control ==
  /\ pc = "boot" =>
       /\ current = None /\ idle_thread = None /\ stack = None /\ mem[Idle] = "unborn"
       /\ handoff = NoHandoff /\ irq = FALSE /\ disable_count = 0
  /\ pc # "boot" => idle_thread = Idle /\ stack # None
  /\ pc \in {"body", "guard"} => handoff = NoHandoff /\ current = stack
  /\ pc = "body" => disable_count = 0
  /\ pc = "guard" => disable_count = 1 /\ stack # Idle
  /\ pc = "switched" => disable_count = 0 /\ handoff.new = stack /\ irq = FALSE

\* The contexts and references of the threads.
Contexts ==
  /\ \A t \in All : mem[t] = "live" /\ state[t] = "ready" => saved[t] = TRUE
  /\ \A t \in All : fault[t] = TRUE => refs[t] > 0
  /\ \A t \in Threads : mem[t] = "unborn" => fault[t] = FALSE /\ refs[t] = 0

\* Nothing has asked for rescheduling: only fresh threads are ever switched to, with
\* interrupts on once they run.
Unasked ==
  asked = FALSE =>
    /\ resched_pending = FALSE
    /\ pc # "crashed"
    /\ \A t \in All : state[t] = "ready" => fresh[t] = TRUE
    /\ pc = "switched" => fresh[stack] = TRUE
    /\ pc \in {"body", "guard"} => irq = TRUE

SchedInv == TypeOK /\ Places /\ Control /\ Contexts /\ Unasked
-----------------------------------------------------------------------------
\* push_back of a thread that is not on the queue.
LEMMA PushBack ==
  ASSUME NEW q \in Seq(Threads), Once(q), NEW t \in Threads, t \notin Elements(q)
  PROVE  /\ Append(q, t) \in Seq(Threads)
         /\ Append(q, t) # <<>>
         /\ Elements(Append(q, t)) = Elements(q) \union {t}
         /\ Once(Append(q, t))
  <1> DEFINE r == Append(q, t)
  <1>1. Len(q) \in Nat /\ DOMAIN q = 1 .. Len(q)
    OBVIOUS
  <1>2. r \in Seq(Threads) /\ DOMAIN r = 1 .. Len(q) + 1 /\ r # <<>>
    BY <1>1
  <1>3. r[Len(q) + 1] = t /\ \A i \in DOMAIN q : r[i] = q[i]
    OBVIOUS
  <1> HIDE DEF r
  <1>4. Elements(r) = Elements(q) \union {t}
    BY <1>1, <1>2, <1>3 DEF Elements
  <1>5. Once(r)
    BY <1>1, <1>2, <1>3 DEF Once, Elements
  <1> QED BY <1>2, <1>4, <1>5 DEF r

\* pop_front.
LEMMA PopFront ==
  ASSUME NEW q \in Seq(Threads), Once(q), q # <<>>
  PROVE  /\ Tail(q) \in Seq(Threads)
         /\ Head(q) \in Threads
         /\ Head(q) \in Elements(q)
         /\ Elements(Tail(q)) = Elements(q) \ {Head(q)}
         /\ Once(Tail(q))
  <1> DEFINE r == Tail(q)
             h == Head(q)
  <1>1. Len(q) \in Nat \ {0} /\ DOMAIN q = 1 .. Len(q)
    OBVIOUS
  <1>2. r \in Seq(Threads) /\ DOMAIN r = 1 .. Len(q) - 1
    BY <1>1
  <1>3. h = q[1] /\ \A i \in DOMAIN r : r[i] = q[i + 1]
    BY <1>1, <1>2
  <1>4. h \in Threads
    BY <1>1, <1>3
  <1> HIDE DEF r, h
  <1>5. h \in Elements(q)
    BY <1>1, <1>3 DEF Elements
  <1>6. Elements(r) = Elements(q) \ {h}
    <2>1. ASSUME NEW i \in DOMAIN r
          PROVE  r[i] \in Elements(q) \ {h}
      BY <1>1, <1>2, <1>3 DEF Elements, Once
    <2>2. ASSUME NEW j \in DOMAIN q, q[j] # h
          PROVE  q[j] \in Elements(r)
      <3>1. j - 1 \in DOMAIN r /\ r[j - 1] = q[j]
        BY <1>1, <1>2, <1>3, <2>2
      <3> QED BY <3>1 DEF Elements
    <2> QED BY <2>1, <2>2 DEF Elements
  <1>7. Once(r)
    BY <1>1, <1>2, <1>3 DEF Once
  <1> QED BY <1>2, <1>4, <1>5, <1>6, <1>7 DEF r, h

\* The queue after take_ready_thread: its first thread is gone, if there is one.
LEMMA TakeReady ==
  ASSUME NEW q \in Seq(Threads), Once(q), idle_thread = Idle
  PROVE  /\ rest(q) \in Seq(Threads)
         /\ Once(rest(q))
         /\ Elements(rest(q)) = Elements(q) \ {take_ready_thread(q)}
         /\ take_ready_thread(q) \in Elements(q) \/ (take_ready_thread(q) = Idle /\ q = <<>>)
         /\ take_ready_thread(q) \in All
  <1>1. CASE q = <<>>
    BY <1>1 DEF rest, take_ready_thread, Elements, Once, All
  <1>2. CASE q # <<>>
    BY <1>2, PopFront DEF rest, take_ready_thread, All
  <1> QED BY <1>1, <1>2
-----------------------------------------------------------------------------
\* The code that spawns a thread or drops a reference runs on the stack of a live thread,
\* or on the boot stack.
LEMMA Bodies ==
  ASSUME SchedInv, InBody
  PROVE  /\ stack \in Threads /\ current = stack /\ mem[stack] = "live" /\ stack \in owners
         /\ state[stack] = "running" /\ handoff = NoHandoff /\ disable_count = 0
         /\ idle_thread = Idle /\ mem[Idle] = "live" /\ state[Idle] = "ready"
  <1>1. stack \in Threads /\ current = stack /\ handoff = NoHandoff /\ disable_count = 0 /\ idle_thread = Idle
    BY DEF SchedInv, TypeOK, Control, InBody, All
  <1>2. state[stack] = "running" /\ mem[stack] = "live" /\ mem[Idle] = "live" /\ state[Idle] \notin {"running", "dead"}
    BY <1>1, ThreadsAssumption DEF SchedInv, Places, Running, Pointers, All
  <1>3. state[Idle] \in {"ready", "running", "dead"}
    BY DEF SchedInv, TypeOK, All
  <1>4. stack \in owners
    BY <1>1, <1>2 DEF SchedInv, Places, Owned
  <1> QED BY <1>1, <1>2, <1>3, <1>4

\* Thread::spawn.
LEMMA SpawnInv ==
  ASSUME SchedInv, NEW t \in Threads, NEW a \in AddrSpaces \union {None}, Spawn(t, a)
  PROVE  SchedInv'
  <1> USE DEF SchedInv
  <1>1. CanMutate /\ pc' = pc
    BY DEF Spawn, InBody, Control, CanMutate
  <1>2. t \in All /\ t # Idle /\ t # None
    BY ThreadsAssumption DEF All
  <1>3. t \notin Elements(run_queue) /\ state[t] = "ready" /\ t \notin owners /\ fault[t] = FALSE
    BY DEF Spawn, Places, InQueue, Owned, Contexts
  <1>4. t # stack /\ t # current /\ t # handoff.free
    BY <1>2, <1>3 DEF Spawn, Places, Pointers
  <1>5. run_queue' \in Seq(Threads) /\ Elements(run_queue') = Elements(run_queue) \union {t} /\ Once(run_queue')
    BY <1>3, PushBack DEF Spawn, push_ready, Places, InQueue, TypeOK
  <1>6. TypeOK'
    <2>1. refs' \in [All -> 0 .. MaxRefs]
      <3>1. (IF pc = "boot" THEN 0 ELSE 1) \in 0 .. MaxRefs
        BY MaxRefsAssumption
      <3> QED BY <3>1, Zenon DEF Spawn, TypeOK
    <2>2. saved' \in [All -> BOOLEAN]
      BY Zenon DEF Spawn, TypeOK
    <2> QED BY <1>1, <1>2, <1>5, <2>1, <2>2 DEF Spawn, TypeOK, push_owner
  <1>7. Places'
    BY <1>2, <1>3, <1>4, <1>5 DEF Spawn, TypeOK, Places, InQueue, Running, Owned, Pointers, push_owner
  <1>8. Control'
    BY <1>1, <1>2 DEF Spawn, TypeOK, Control, All
  <1>9. Contexts'
    BY <1>2, <1>3 DEF Spawn, TypeOK, Contexts
  <1>10. Unasked'
    BY <1>1 DEF Spawn, Unasked
  <1> QED BY <1>6, <1>7, <1>8, <1>9, <1>10

\* A caller's drop of an Arc.
LEMMA DropRefInv ==
  ASSUME SchedInv, NEW t \in Threads, DropRef(t)
  PROVE  SchedInv'
  <1> USE DEF SchedInv
  <1>1. t \in All /\ t # Idle /\ refs[t] \in 0 .. MaxRefs /\ refs[t] > 0 /\ (fault[t] = TRUE => refs[t] > 1)
    <2>1. t \in All /\ t # Idle /\ refs[t] \in 0 .. MaxRefs
      BY ThreadsAssumption DEF All, TypeOK
    <2>2. CASE fault[t] = TRUE
      BY <2>1, <2>2, MaxRefsAssumption DEF DropRef
    <2>3. CASE fault[t] = FALSE
      BY <2>1, <2>3, MaxRefsAssumption DEF DropRef
    <2> QED BY <2>1, <2>2, <2>3, Zenon DEF TypeOK
  <1>2. mem' = mem \/ (t \notin owners /\ mem' = [mem EXCEPT ![t] = "freed"])
    BY <1>1, MaxRefsAssumption, Zenon DEF DropRef, MemAfter, TypeOK
  <1>3. t \notin owners => mem[t] # "unborn" /\ state[t] = "dead" /\ t # stack
    BY <1>1, Bodies DEF Places, Running, Owned, TypeOK, Contexts, DropRef
  <1>4. TypeOK'
    <2>1. refs' \in [All -> 0 .. MaxRefs]
      BY <1>1, MaxRefsAssumption DEF DropRef, TypeOK
    <2>2. mem' \in [All -> {"unborn", "live", "freed"}]
      BY <1>1, <1>2, Zenon DEF TypeOK
    <2> QED BY <2>1, <2>2 DEF DropRef, TypeOK, cpuVars
  <1>5. Places'
    <2> SUFFICES ASSUME t \notin owners, mem' = [mem EXCEPT ![t] = "freed"]
                 PROVE  Places'
      BY <1>2 DEF DropRef, Places, InQueue, Running, Owned, Pointers, cpuVars
    <2>1. \A u \in All : mem'[u] = IF u = t THEN "freed" ELSE mem[u]
      BY DEF TypeOK
    <2> QED BY <1>1, <1>3, <2>1, Bodies DEF DropRef, Places, InQueue, Running, Owned, Pointers, cpuVars, All, NoHandoff
  <1>6. Control'
    BY <1>1, <1>2 DEF DropRef, Control, cpuVars, TypeOK, InBody
  <1>7. Contexts'
    <2>1. \A u \in All : refs'[u] = IF u = t THEN refs[u] - 1 ELSE refs[u]
      BY DEF DropRef, TypeOK
    <2>2. \A u \in All : mem'[u] = mem[u] \/ (u = t /\ mem'[u] = "freed")
      BY <1>2 DEF TypeOK
    <2> QED BY <1>1, <1>3, <2>1, <2>2 DEF DropRef, Contexts, TypeOK, All
  <1>8. Unasked'
    BY DEF DropRef, Unasked, cpuVars
  <1> QED BY <1>4, <1>5, <1>6, <1>7, <1>8

\* Thread::current: the guard it takes is dropped on the same stack.
LEMMA CurrentInv ==
  ASSUME SchedInv, NEW isFault \in BOOLEAN, Current(isFault)
  PROVE  SchedInv'
  <1> USE DEF SchedInv
  <1>1. stack \in All /\ current = stack /\ stack # Idle /\ disable_count = 0
    BY Bodies, ThreadsAssumption DEF Current, All
  <1>2. CASE isFault /\ ~(disable_count = 0 /\ irq)
    <2>1. irq = FALSE
      BY <1>1, <1>2, Zenon DEF TypeOK
    <2>2. asked = TRUE
      BY <2>1 DEF Unasked, Current, InBody, TypeOK
    <2>3. pc' = "crashed" /\ UNCHANGED <<refs, fault, disable_count>>
      BY <1>2 DEF Current
    <2>4. TypeOK' /\ Places' /\ Contexts'
      BY <2>3 DEF Current, TypeOK, Places, InQueue, Running, Owned, Pointers, Contexts
    <2>5. Control' /\ Unasked'
      BY <2>2, <2>3, Zenon DEF Current, Control, Unasked, InBody
    <2> QED BY <2>4, <2>5
  <1>3. CASE ~(isFault /\ ~(disable_count = 0 /\ irq))
    <2>1. /\ pc' = "guard"
          /\ disable_count' = 1
          /\ refs' = [refs EXCEPT ![stack] = @ + 1]
          /\ fault' = [fault EXCEPT ![stack] = isFault]
      <3>1. /\ pc' = "guard"
            /\ disable_count' = disable_count + 1
            /\ refs' = [refs EXCEPT ![current] = @ + 1]
            /\ fault' = [fault EXCEPT ![stack] = isFault]
        BY <1>3, Zenon DEF Current
      <3>2. disable_count' = 1
        BY <1>1, <3>1
      <3> QED BY <1>1, <3>1, <3>2, Zenon
    <2>2. \A u \in All : refs'[u] = (IF u = stack THEN refs[u] + 1 ELSE refs[u]) /\ refs'[u] \in 0 .. MaxRefs
      BY <1>1, <2>1, MaxRefsAssumption DEF Current, TypeOK
    <2>3. fault' \in [All -> BOOLEAN] /\ \A u \in All \ {stack} : fault'[u] = fault[u]
      BY <2>1, Zenon DEF TypeOK
    <2>4. TypeOK'
      <3>1. refs' \in [All -> 0 .. MaxRefs]
        BY <2>1, <2>2, Zenon DEF TypeOK
      <3>2. disable_count' \in 0 .. 1
        BY <2>1
      <3> QED BY <2>1, <2>3, <3>1, <3>2 DEF Current, TypeOK
    <2>5. Places'
      BY Zenon DEF Current, Places, InQueue, Running, Owned, Pointers
    <2>6. Control'
      BY <1>1, <2>1 DEF Current, Control, InBody
    <2>7. Contexts'
      <3>1. \A u \in All : mem'[u] = mem[u] /\ state'[u] = state[u] /\ saved'[u] = saved[u] /\ refs[u] \in Nat
        BY MaxRefsAssumption DEF Current, TypeOK
      <3>2. mem[stack] = "live" /\ Threads \subseteq All
        BY Bodies, Zenon DEF Current, All
      <3>3. \A u \in All : fault'[u] = TRUE => refs'[u] > 0
        BY <2>2, <2>3, <3>1 DEF Contexts
      <3>4. \A u \in Threads : mem'[u] = "unborn" => fault'[u] = FALSE /\ refs'[u] = 0
        BY <2>2, <2>3, <3>1, <3>2 DEF Contexts
      <3> QED BY <3>1, <3>3, <3>4, Zenon DEF Contexts
    <2>8. Unasked'
      BY <2>1 DEF Current, Unasked, InBody
    <2> QED BY <2>4, <2>5, <2>6, <2>7, <2>8
  <1> QED BY <1>2, <1>3

\* What a thread finds when it leaves the guard of Thread::current or, resumed, the
\* schedule_common inside it: the references and the fault flag of the thread.
LEMMA Leaves ==
  ASSUME SchedInv, NEW t \in All, NEW flag \in BOOLEAN, LeaveGuard(t, flag)
  PROVE  /\ refs' \in [All -> 0 .. MaxRefs]
         /\ fault' \in [All -> BOOLEAN]
         /\ irq' \in BOOLEAN
         /\ flag = TRUE => irq' = TRUE
         /\ fault'[t] = FALSE
         /\ \A u \in All \ {t} : fault'[u] = fault[u] /\ refs'[u] = refs[u]
  <1> USE DEF SchedInv
  <1>1. fault' \in [All -> BOOLEAN] /\ fault'[t] = FALSE /\ \A u \in All \ {t} : fault'[u] = fault[u]
    BY DEF LeaveGuard, TypeOK
  <1>2. CASE fault[t] = TRUE
    <2>1. refs' = [refs EXCEPT ![t] = @ - 1] /\ irq' = TRUE
      BY <1>2 DEF LeaveGuard
    <2>2. refs[t] - 1 \in 0 .. MaxRefs
      BY <1>2, MaxRefsAssumption DEF Contexts, TypeOK
    <2>3. refs' \in [All -> 0 .. MaxRefs] /\ \A u \in All \ {t} : refs'[u] = refs[u]
      BY <2>1, <2>2 DEF TypeOK
    <2> QED BY <1>1, <2>1, <2>3, Zenon
  <1>3. CASE fault[t] = FALSE
    <2>1. refs' = refs /\ irq' = flag
      BY <1>3, Zenon DEF LeaveGuard
    <2>2. refs \in [All -> 0 .. MaxRefs]
      BY DEF TypeOK
    <2> QED BY <1>1, <2>1, <2>2, Zenon
  <1>4. fault[t] \in BOOLEAN
    BY DEF TypeOK
  <1> QED BY <1>2, <1>3, <1>4, Zenon

\* The drop of the guard when no rescheduling is due.
LEMMA EndGuardInv ==
  ASSUME SchedInv, EndGuard
  PROVE  SchedInv'
  <1> USE DEF SchedInv
  <1>1. stack \in All /\ irq \in BOOLEAN /\ disable_count' = 0 /\ mem[stack] = "live" /\ pc' = "body"
    BY DEF EndGuard, enable_resched, LeaveGuard, Control, TypeOK, Places, Pointers
  <1>2. /\ refs' \in [All -> 0 .. MaxRefs] /\ fault' \in [All -> BOOLEAN] /\ irq' \in BOOLEAN
        /\ irq = TRUE => irq' = TRUE
        /\ fault'[stack] = FALSE
        /\ \A u \in All \ {stack} : fault'[u] = fault[u] /\ refs'[u] = refs[u]
    BY <1>1, Leaves, Zenon DEF EndGuard
  <1>3. TypeOK'
    BY <1>1, <1>2 DEF EndGuard, TypeOK
  <1>4. Places'
    BY DEF EndGuard, Places, InQueue, Running, Owned, Pointers
  <1>5. Control'
    BY <1>1, Zenon DEF EndGuard, Control
  <1>6. Contexts'
    BY <1>1, <1>2, Zenon DEF EndGuard, Contexts, TypeOK, All
  <1>7. Unasked'
    BY <1>1, <1>2, Zenon DEF EndGuard, Unasked
  <1> QED BY <1>3, <1>4, <1>5, <1>6, <1>7

\* An interrupt that asks for rescheduling.
LEMMA PendingInv ==
  ASSUME SchedInv, SetReschedPending
  PROVE  SchedInv'
  <1> USE DEF SchedInv
  <1>1. asked' = TRUE /\ resched_pending' = TRUE /\ UNCHANGED threadVars
        /\ UNCHANGED <<run_queue, current, idle_thread, handoff, irq, disable_count, stack, low, pc>>
    BY DEF SetReschedPending
  <1>2. TypeOK'
    BY <1>1 DEF TypeOK, threadVars
  <1>3. Places' /\ Control' /\ Contexts'
    BY <1>1, Zenon DEF Places, InQueue, Running, Owned, Pointers, Control, Contexts, threadVars
  <1>4. Unasked'
    BY <1>1, Zenon DEF Unasked
  <1> QED BY <1>2, <1>3, <1>4

\* sched::start: the first thread gets the processor.
LEMMA StartInv ==
  ASSUME SchedInv, Start
  PROVE  SchedInv'
  <1> USE DEF SchedInv
  <1> DEFINE new == Head(run_queue)
  <1>1. /\ new \in Threads /\ new \in All /\ new # Idle /\ new # None
        /\ mem[new] = "live" /\ state[new] = "ready" /\ new \in owners
        /\ run_queue' \in Seq(Threads) /\ Once(run_queue')
        /\ Elements(run_queue') = Elements(run_queue) \ {new}
    <2>1. new \in Threads /\ new \in Elements(run_queue) /\ run_queue' \in Seq(Threads)
          /\ Once(run_queue') /\ Elements(run_queue') = Elements(run_queue) \ {new}
      BY PopFront, Zenon DEF Start, Places, InQueue, TypeOK
    <2>2. mem[new] = "live" /\ state[new] = "ready" /\ new \in owners
      BY <2>1, Zenon DEF Places, InQueue, Owned
    <2> QED BY <2>1, <2>2, ThreadsAssumption DEF All
  <1>2. /\ irq = FALSE /\ disable_count = 0 /\ handoff = NoHandoff /\ stack = None
        /\ current = None /\ mem[Idle] = "unborn"
    BY Zenon DEF Start, Control
  <1>3. pc' = "switched"
    BY <1>2 DEF Start, CanMutate
  <1> HIDE DEF new
  <1>4. /\ state' = [state EXCEPT ![new] = "running"]
        /\ mem' = [mem EXCEPT ![Idle] = "live"]
        /\ idle_thread' = Idle
        /\ handoff' = [new |-> new, free |-> None]
        /\ saved' = [saved EXCEPT ![Idle] = TRUE, ![new] = FALSE]
        /\ stack' = new
        /\ low' \in {low, aspace[new]}
        /\ UNCHANGED <<aspace, fresh, fault, refs, owners, current, resched_pending, irq, disable_count, asked>>
    BY DEF Start, new
  <1>5. Idle \in All /\ Idle \notin Threads /\ None \notin All
    BY ThreadsAssumption DEF All
  <1>6. TypeOK'
    <2>1. saved' \in [All -> BOOLEAN]
      BY <1>4, Zenon DEF TypeOK
    <2>2. low' \in AddrSpaces \union {None}
      BY <1>1, <1>4 DEF TypeOK
    <2>3. handoff' \in [new : All \union {None}, free : Threads \union {None}]
      BY <1>1, <1>4
    <2> QED BY <1>1, <1>3, <1>4, <1>5, <2>1, <2>2, <2>3, Zenon DEF TypeOK
  <1>7. \A u \in All : /\ mem'[u] = IF u = Idle THEN "live" ELSE mem[u]
                       /\ state'[u] = IF u = new THEN "running" ELSE state[u]
    BY <1>4 DEF TypeOK
  <1>8. Places'
    <2>1. handoff'.new = new /\ handoff'.free = None
      BY <1>4
    <2>2. Elements(run_queue') = {t \in Threads : mem'[t] = "live" /\ state'[t] = "ready"}
      BY <1>1, <1>5, <1>7 DEF Places, InQueue, All
    <2>3. \A t \in All : state'[t] = "running" <=> t = stack'
      BY <1>2, <1>4, <1>5, <1>7 DEF Places, Running
    <2>4. \A t \in Threads : owners' = owners /\ t # Idle /\ mem'[t] = mem[t]
                             /\ state'[t] = IF t = new THEN "running" ELSE state[t]
      BY <1>4, <1>5, <1>7 DEF All
    <2>5. handoff.free = None
      BY <1>2 DEF NoHandoff
    <2>6. \A t \in Threads :
            /\ mem'[t] = "unborn" => state'[t] = "ready" /\ t \notin owners'
            /\ mem'[t] = "live" /\ state'[t] # "dead" => t \in owners'
            /\ t \in owners' => mem'[t] = "live" /\ (state'[t] = "dead" => t = handoff'.free)
            /\ mem'[t] = "freed" => state'[t] = "dead"
      BY <1>1, <2>1, <2>4, <2>5 DEF Places, Owned
    <2>7. mem'[stack'] = "live" /\ mem'[Idle] = "live" /\ state'[Idle] # "dead" /\ current' = None /\ stack' = new
      BY <1>1, <1>2, <1>4, <1>5, <1>7, Zenon DEF Places, Pointers
    <2> QED BY <1>1, <2>1, <2>2, <2>3, <2>6, <2>7, Zenon DEF Places, InQueue, Running, Owned, Pointers
  <1>9. Control'
    BY <1>1, <1>2, <1>3, <1>4, Zenon DEF Control
  <1>10. Contexts'
    <2>1. \A u \in All : saved'[u] = IF u = new THEN FALSE ELSE IF u = Idle THEN TRUE ELSE saved[u]
      BY <1>1, <1>4, Zenon DEF TypeOK
    <2>2. \A u \in All : mem'[u] = "live" /\ state'[u] = "ready" => saved'[u] = TRUE
      BY <1>7, <2>1, Zenon DEF Contexts
    <2>3. \A u \in Threads : mem'[u] = mem[u]
      BY <1>5, <1>7 DEF All
    <2> QED BY <1>4, <2>2, <2>3, Zenon DEF Contexts
  <1>11. Unasked'
    BY <1>1, <1>3, <1>4, <1>7 DEF Unasked
  <1> QED BY <1>6, <1>8, <1>9, <1>10, <1>11

\* exit_current: the next thread gets the processor, and the dead one to drop.
LEMMA ExitInv ==
  ASSUME SchedInv, Exit
  PROVE  SchedInv'
  <1> USE DEF SchedInv
  <1>1. InBody
    BY DEF Exit
  <1>2. CASE ~(disable_count = 0 /\ irq)
    <2>1. irq = FALSE
      BY <1>1, <1>2, Bodies, Zenon DEF TypeOK
    <2>2. asked = TRUE
      BY <1>1, <2>1 DEF Unasked, InBody, TypeOK
    <2>3. pc' = "crashed" /\ UNCHANGED threadVars
          /\ UNCHANGED <<run_queue, current, idle_thread, handoff, resched_pending, irq,
                         disable_count, stack, low, asked>>
      BY <1>2 DEF Exit
    <2>4. TypeOK' /\ Places' /\ Contexts'
      <3>1. TypeOK'
        BY <2>3 DEF TypeOK, threadVars
      <3>2. Places' /\ Contexts'
        BY <2>3, Zenon DEF Places, InQueue, Running, Owned, Pointers, Contexts, threadVars
      <3> QED BY <3>1, <3>2
    <2>5. pc # "boot"
      BY <1>1 DEF InBody
    <2>6. Control'
      BY <2>3, <2>5, Zenon DEF Control
    <2>7. Unasked'
      BY <2>2, <2>3, Zenon DEF Unasked
    <2> QED BY <2>4, <2>6, <2>7
  <1>3. CASE disable_count = 0 /\ irq
    <2> DEFINE new == take_ready_thread(run_queue)
    <2>1. /\ stack \in Threads /\ current = stack /\ mem[stack] = "live" /\ stack \in owners
          /\ state[stack] = "running" /\ handoff = NoHandoff /\ idle_thread = Idle
          /\ mem[Idle] = "live" /\ state[Idle] = "ready"
      BY <1>1, Bodies
    <2>2. Idle \in All /\ Idle \notin Threads /\ None \notin All /\ Threads \subseteq All
      BY ThreadsAssumption DEF All
    <2>3. /\ new \in All /\ mem[new] = "live" /\ state[new] = "ready" /\ new # stack
          /\ rest(run_queue) \in Seq(Threads) /\ Once(rest(run_queue))
          /\ Elements(rest(run_queue)) = Elements(run_queue) \ {new}
      <3>1. /\ new \in All /\ (new \in Elements(run_queue) \/ new = Idle)
            /\ rest(run_queue) \in Seq(Threads) /\ Once(rest(run_queue))
            /\ Elements(rest(run_queue)) = Elements(run_queue) \ {new}
        BY <2>1, TakeReady, Zenon DEF Places, InQueue, TypeOK
      <3>2. mem[new] = "live" /\ state[new] = "ready"
        BY <2>1, <3>1, Zenon DEF Places, InQueue
      <3> QED BY <2>1, <3>1, <3>2, Zenon
    <2>4. saved[new] = TRUE
      BY <2>3, Zenon DEF Contexts
    <2> HIDE DEF new
    <2>5. SwitchAsserts
      BY <1>3, <2>1, <2>2 DEF SwitchAsserts, CanMutate
    <2>6. /\ irq' = FALSE /\ resched_pending' = FALSE
          /\ run_queue' = rest(run_queue)
          /\ UNCHANGED <<mem, aspace, fresh, fault, refs, owners, current, idle_thread,
                         disable_count, asked>>
      BY <1>3 DEF Exit
    <2>6a. /\ state' = [state EXCEPT ![stack] = "dead", ![new] = "running"]
           /\ SwitchTo(stack, new, stack, SwitchAsserts)
      BY <1>3, <2>1, Zenon DEF Exit, new
    <2>7. /\ handoff' = [new |-> new, free |-> stack] /\ stack' = new /\ pc' = "switched"
          /\ low' \in {low, aspace[new]}
          /\ saved' = [t \in All |-> IF t = new THEN FALSE ELSE IF t = stack THEN TRUE ELSE saved[t]]
      BY <2>4, <2>5, <2>6a, Zenon DEF SwitchTo
    <2>8. \A u \in All : state'[u] = IF u = new THEN "running" ELSE IF u = stack THEN "dead" ELSE state[u]
      BY <2>2, <2>3, <2>6a, Zenon DEF TypeOK
    <2>9. TypeOK'
      <3>1. saved' \in [All -> BOOLEAN]
        BY <2>7, Zenon DEF TypeOK
      <3>2. handoff' \in [new : All \union {None}, free : Threads \union {None}]
        BY <2>1, <2>3, <2>7, Zenon
      <3>3. low' \in AddrSpaces \union {None}
        BY <2>3, <2>7 DEF TypeOK
      <3>4. state' \in [All -> {"ready", "running", "dead"}]
        BY <2>6a, Zenon DEF TypeOK
      <3> QED BY <2>3, <2>6, <2>7, <3>1, <3>2, <3>3, <3>4, Zenon DEF TypeOK
    <2>10. Places'
      <3>1. handoff'.new = new /\ handoff'.free = stack /\ handoff.free = None
        BY <2>1, <2>7, Zenon DEF NoHandoff
      <3>2. Elements(run_queue') = {t \in Threads : mem'[t] = "live" /\ state'[t] = "ready"}
        BY <2>1, <2>2, <2>3, <2>6, <2>8, Zenon DEF Places, InQueue
      <3>3. \A t \in All : state'[t] = "running" <=> t = stack'
        BY <2>7, <2>8, Zenon DEF Places, Running
      <3>4. \A t \in Threads :
              /\ mem'[t] = "unborn" => state'[t] = "ready" /\ t \notin owners'
              /\ mem'[t] = "live" /\ state'[t] # "dead" => t \in owners'
              /\ t \in owners' => mem'[t] = "live" /\ (state'[t] = "dead" => t = handoff'.free)
              /\ mem'[t] = "freed" => state'[t] = "dead"
        <4> SUFFICES ASSUME NEW t \in Threads
                     PROVE  /\ mem'[t] = "unborn" => state'[t] = "ready" /\ t \notin owners'
                            /\ mem'[t] = "live" /\ state'[t] # "dead" => t \in owners'
                            /\ t \in owners' => mem'[t] = "live" /\ (state'[t] = "dead" => t = handoff'.free)
                            /\ mem'[t] = "freed" => state'[t] = "dead"
          OBVIOUS
        <4>1. /\ mem[t] = "unborn" => state[t] = "ready" /\ t \notin owners
              /\ mem[t] = "live" /\ state[t] # "dead" => t \in owners
              /\ t \in owners => mem[t] = "live" /\ (state[t] = "dead" => t = handoff.free)
              /\ mem[t] = "freed" => state[t] = "dead"
          BY Zenon DEF Places, Owned
        <4>2. t \in All /\ mem'[t] = mem[t] /\ owners' = owners
              /\ state'[t] = IF t = new THEN "running" ELSE IF t = stack THEN "dead" ELSE state[t]
          BY <2>6, <2>8, Zenon DEF All
        <4> QED BY <2>1, <2>2, <2>3, <3>1, <4>1, <4>2, Zenon
      <3>5. /\ state'[Idle] # "dead" /\ stack \in owners' /\ state'[stack] = "dead"
            /\ mem'[current'] = "live" /\ mem'[new] = "live" /\ mem'[Idle] = "live"
        BY <2>1, <2>2, <2>3, <2>6, <2>8, Zenon
      <3>6. Once(run_queue') /\ stack' = new /\ stack # None
        BY <2>1, <2>2, <2>3, <2>6, <2>7, Zenon
      <3> QED BY <3>1, <3>2, <3>3, <3>4, <3>5, <3>6, Zenon DEF Places, InQueue, Running, Owned, Pointers
    <2>11. Control'
      BY <1>3, <2>1, <2>2, <2>3, <2>6, <2>7, Zenon DEF Control
    <2>12. Contexts'
      <3>1. \A u \in All : saved'[u] = IF u = new THEN FALSE ELSE IF u = stack THEN TRUE ELSE saved[u]
        BY <2>7, Zenon
      <3>2. \A u \in All : mem'[u] = "live" /\ state'[u] = "ready" => saved'[u] = TRUE
        BY <2>6, <2>8, <3>1, Zenon DEF Contexts
      <3> QED BY <2>6, <3>2, Zenon DEF Contexts
    <2>13. Unasked'
      BY <2>3, <2>6, <2>7, <2>8, Zenon DEF Unasked
    <2> QED BY <2>9, <2>10, <2>11, <2>12, <2>13
  <1> QED BY <1>2, <1>3

\* complete_context_switch_handoff: the dead thread goes, and no other.
LEMMA CompleteInv ==
  ASSUME SchedInv, CompleteHandoff
  PROVE  SchedInv'
  <1> USE DEF SchedInv
  <1> DEFINE gone == handoff.free
  <1>1. /\ stack \in All /\ stack # None /\ handoff.new = stack /\ idle_thread = Idle
        /\ mem[stack] = "live" /\ mem[Idle] = "live" /\ disable_count = 0 /\ irq = FALSE
        /\ state[stack] = "running"
    <2>1. pc = "switched"
      BY DEF CompleteHandoff
    <2>2. stack # None /\ handoff.new = stack /\ idle_thread = Idle /\ disable_count = 0 /\ irq = FALSE
      BY <2>1 DEF Control
    <2>3. stack \in All
      BY <2>2 DEF TypeOK
    <2>4. idle_thread # None
      BY <2>2, ThreadsAssumption
    <2> QED BY <2>2, <2>3, <2>4, Zenon DEF Places, Running, Pointers
  <1>2. Idle \in All /\ Idle \notin Threads /\ None \notin All /\ Threads \subseteq All
    BY ThreadsAssumption DEF All
  <1>3. gone # None => gone \in Threads /\ gone \in owners /\ state[gone] = "dead" /\ mem[gone] = "live"
    BY Zenon DEF Places, Owned, Pointers, TypeOK
  <1>4. /\ current' = stack /\ handoff' = NoHandoff
        /\ owners' = owners \ {gone} /\ fresh' = [fresh EXCEPT ![stack] = FALSE]
        /\ UNCHANGED <<state, aspace, saved, run_queue, idle_thread, resched_pending,
                       disable_count, stack, low, asked>>
    BY <1>1, Zenon DEF CompleteHandoff, take_handoff
  <1>5. /\ \A u \in All \ {gone} : mem'[u] = mem[u]
        /\ gone \in All => mem'[gone] \in {mem[gone], "freed"}
        /\ mem' = [u \in All |-> mem'[u]]
    BY Zenon DEF CompleteHandoff, drop_owner, MemAfter
  <1>6. /\ pc' = "body"
        /\ refs' \in [All -> 0 .. MaxRefs] /\ fault' \in [All -> BOOLEAN] /\ irq' \in BOOLEAN
        /\ fresh[stack] = TRUE => irq' = TRUE
        /\ \A u \in All \ {stack} : fault'[u] = fault[u] /\ refs'[u] = refs[u]
        /\ fault'[stack] = TRUE => refs'[stack] > 0
    <2>1. CASE fresh[stack] = TRUE
      <3>1. pc' = "body" /\ irq' = TRUE /\ UNCHANGED <<refs, fault>>
        BY <2>1 DEF CompleteHandoff
      <3>2. irq' \in BOOLEAN
        BY <3>1, Zenon
      <3> QED BY <1>1, <3>1, <3>2, Zenon DEF TypeOK, Contexts
    <2>2. CASE fresh[stack] = FALSE
      <3>1. pc' = "body" /\ LeaveGuard(stack, irq)
        BY <2>2, Zenon DEF CompleteHandoff, LeaveGuard
      <3>2. irq \in BOOLEAN
        BY DEF TypeOK
      <3> QED BY <1>1, <2>2, <3>1, <3>2, Leaves, Zenon
    <2>3. fresh[stack] \in BOOLEAN
      BY <1>1 DEF TypeOK
    <2> QED BY <2>1, <2>2, <2>3, Zenon
  <1> HIDE DEF gone
  <1>7. TypeOK'
    <2>1. fresh' \in [All -> BOOLEAN]
      BY <1>1, <1>4, Zenon DEF TypeOK
    <2>2. mem' \in [All -> {"unborn", "live", "freed"}]
      BY <1>5, Zenon DEF TypeOK
    <2>3. handoff' \in [new : All \union {None}, free : Threads \union {None}]
      BY <1>4 DEF NoHandoff
    <2> QED BY <1>1, <1>4, <1>6, <2>1, <2>2, <2>3, Zenon DEF TypeOK
  <1>8. Places'
    <2>1. handoff'.new = None /\ handoff'.free = None
      BY <1>4 DEF NoHandoff
    <2>2. \A t \in Threads : mem'[t] # mem[t] => t = gone /\ state[t] = "dead" /\ mem[t] = "live" /\ mem'[t] = "freed"
      BY <1>2, <1>3, <1>5
    <2>3. \A t \in Threads :
            /\ mem'[t] = "unborn" => state'[t] = "ready" /\ t \notin owners'
            /\ mem'[t] = "live" /\ state'[t] # "dead" => t \in owners'
            /\ t \in owners' => mem'[t] = "live" /\ (state'[t] = "dead" => t = handoff'.free)
            /\ mem'[t] = "freed" => state'[t] = "dead"
      <3> SUFFICES ASSUME NEW t \in Threads
                   PROVE  /\ mem'[t] = "unborn" => state'[t] = "ready" /\ t \notin owners'
                          /\ mem'[t] = "live" /\ state'[t] # "dead" => t \in owners'
                          /\ t \in owners' => mem'[t] = "live" /\ (state'[t] = "dead" => t = handoff'.free)
                          /\ mem'[t] = "freed" => state'[t] = "dead"
        OBVIOUS
      <3>1. CASE t = gone
        BY <1>3, <1>4, <2>2, <3>1, ThreadsAssumption, Zenon
      <3>2. CASE t # gone
        BY <1>2, <1>4, <1>5, <3>2, Zenon DEF Places, Owned, gone
      <3> QED BY <3>1, <3>2, Zenon
    <2>4. Elements(run_queue') = {t \in Threads : mem'[t] = "live" /\ state'[t] = "ready"}
      <3>1. run_queue' = run_queue
        BY <1>4
      <3>2. \A t \in Threads :
              mem'[t] = "live" /\ state'[t] = "ready" <=> mem[t] = "live" /\ state[t] = "ready"
        BY <1>4, <2>2, Zenon
      <3> QED BY <3>1, <3>2, Zenon DEF Places, InQueue
    <2>5. mem'[stack] = "live" /\ mem'[Idle] = "live" /\ state'[Idle] # "dead"
      BY <1>1, <1>2, <1>3, <1>4, <1>5, Zenon DEF Places, Pointers
    <2> QED BY <1>1, <1>4, <2>1, <2>3, <2>4, <2>5, Zenon DEF Places, InQueue, Running, Owned, Pointers
  <1>9. Control'
    BY <1>1, <1>4, <1>6, Zenon DEF Control
  <1>10. Contexts'
    <2>1. \A u \in All : mem'[u] = "live" /\ state'[u] = "ready" => saved'[u] = TRUE
      BY <1>2, <1>3, <1>4, <1>5 DEF Contexts
    <2>2. \A u \in All : fault'[u] = TRUE => refs'[u] > 0
      BY <1>6, Zenon DEF Contexts
    <2>3. \A u \in Threads : mem'[u] = "unborn" => mem[u] = "unborn" /\ u # stack
      BY <1>1, <1>2, <1>3, <1>5
    <2>4. \A u \in Threads : mem'[u] = "unborn" => fault'[u] = FALSE /\ refs'[u] = 0
      BY <1>2, <1>6, <2>3, Zenon DEF Contexts
    <2> QED BY <2>1, <2>2, <2>4, Zenon DEF Contexts
  <1>11. Unasked'
    <2>1. \A u \in All \ {stack} : fresh'[u] = fresh[u]
      BY <1>4, Zenon DEF TypeOK
    <2> QED BY <1>1, <1>4, <1>6, <2>1, Zenon DEF Unasked, CompleteHandoff
  <1> QED BY <1>7, <1>8, <1>9, <1>10, <1>11

\* do_resched: the current thread goes to the end of the queue, and the first on it,
\* which may be the same, gets the processor.
LEMMA ReschedInv ==
  ASSUME SchedInv, Resched
  PROVE  SchedInv'
  <1> USE DEF SchedInv
  <1> DEFINE queue == push_ready(current)
             new == take_ready_thread(queue)
             ok == /\ current # None /\ stack = current /\ handoff = NoHandoff
                   /\ state[current] = "running"
  <1>1. /\ stack \in Threads /\ current = stack /\ handoff = NoHandoff /\ idle_thread = Idle
        /\ disable_count = 1 /\ pc = "guard"
    BY Zenon DEF Resched, Control, TypeOK, All
  <1>2. Idle \in All /\ Idle \notin Threads /\ None \notin All /\ Threads \subseteq All
    BY ThreadsAssumption DEF All
  <1>3. mem[stack] = "live" /\ state[stack] = "running" /\ stack \in owners /\ mem[Idle] = "live"
    BY <1>1, <1>2, Zenon DEF Places, Running, Owned, Pointers
  <1>4. asked = TRUE
    BY Zenon DEF Resched, Unasked, TypeOK
  <1>5. /\ queue \in Seq(Threads) /\ Once(queue) /\ queue # <<>>
        /\ Elements(queue) = Elements(run_queue) \union {stack}
    <2>1. stack \notin Elements(run_queue)
      BY <1>3, Zenon DEF Places, InQueue
    <2>2. run_queue \in Seq(Threads) /\ Once(run_queue)
      BY Zenon DEF Places, InQueue, TypeOK
    <2> QED BY <1>1, <2>1, <2>2, PushBack DEF push_ready
  <1> HIDE DEF queue
  <1>6. /\ new \in Threads /\ new \in Elements(queue)
        /\ rest(queue) \in Seq(Threads) /\ Once(rest(queue))
        /\ Elements(rest(queue)) = Elements(queue) \ {new}
    BY <1>5, PopFront DEF rest, take_ready_thread
  <1> HIDE DEF new
  <1>7. mem[new] = "live" /\ (new # stack => state[new] = "ready") /\ new \in All
    BY <1>2, <1>3, <1>5, <1>6, Zenon DEF Places, InQueue
  <1>8. /\ irq' = FALSE /\ resched_pending' = FALSE /\ disable_count' = 0
        /\ run_queue' = rest(queue)
        /\ UNCHANGED <<mem, aspace, fresh, fault, refs, owners, current, idle_thread, asked>>
    BY <1>1 DEF Resched, enable_resched, queue
  <1>9. state' = resched_state(new) /\ SwitchTo(stack, new, None, ok)
    BY <1>1, Zenon DEF Resched, queue, new
  <1>10. /\ handoff' = [new |-> new, free |-> None] /\ stack' = new
         /\ pc' \in {"switched", "crashed"}
         /\ low' \in {low, aspace[new]}
         /\ saved' = [t \in All |-> IF t = new THEN FALSE ELSE IF t = stack THEN TRUE ELSE saved[t]]
    BY <1>9, Zenon DEF SwitchTo
  <1>11. /\ \A u \in All : state'[u] = IF u = new THEN "running" ELSE IF u = stack THEN "ready" ELSE state[u]
         /\ state' \in [All -> {"ready", "running", "dead"}]
    <2>1. state \in [All -> {"ready", "running", "dead"}]
      BY Zenon DEF TypeOK
    <2>2. stack \in All /\ stack = current
      BY <1>1, <1>2
    <2> QED BY <1>7, <1>9, <2>1, <2>2 DEF resched_state
  <1>12. TypeOK'
    <2>1. saved' \in [All -> BOOLEAN]
      BY <1>10, Zenon DEF TypeOK
    <2>2. handoff' \in [new : All \union {None}, free : Threads \union {None}]
      BY <1>7, <1>10, Zenon
    <2>3. low' \in AddrSpaces \union {None}
      BY <1>7, <1>10 DEF TypeOK
    <2>4. run_queue' \in Seq(Threads) /\ stack' \in All /\ disable_count' \in 0 .. 1
      BY <1>6, <1>7, <1>8, <1>10
    <2> QED BY <1>8, <1>10, <1>11, <2>1, <2>2, <2>3, <2>4, Zenon DEF TypeOK
  <1>13. Places'
    <2>1. handoff'.new = new /\ handoff'.free = None /\ handoff.free = None
      BY <1>1, <1>10, Zenon DEF NoHandoff
    <2>2. Elements(run_queue') = {t \in Threads : mem'[t] = "live" /\ state'[t] = "ready"}
      BY <1>1, <1>2, <1>3, <1>5, <1>6, <1>8, <1>11, Zenon DEF Places, InQueue
    <2>3. \A t \in All : state'[t] = "running" <=> t = stack'
      BY <1>10, <1>11, Zenon DEF Places, Running
    <2>4. \A t \in Threads :
            /\ mem'[t] = "unborn" => state'[t] = "ready" /\ t \notin owners'
            /\ mem'[t] = "live" /\ state'[t] # "dead" => t \in owners'
            /\ t \in owners' => mem'[t] = "live" /\ (state'[t] = "dead" => t = handoff'.free)
            /\ mem'[t] = "freed" => state'[t] = "dead"
      <3> SUFFICES ASSUME NEW t \in Threads
                   PROVE  /\ mem'[t] = "unborn" => state'[t] = "ready" /\ t \notin owners'
                          /\ mem'[t] = "live" /\ state'[t] # "dead" => t \in owners'
                          /\ t \in owners' => mem'[t] = "live" /\ (state'[t] = "dead" => t = handoff'.free)
                          /\ mem'[t] = "freed" => state'[t] = "dead"
        OBVIOUS
      <3>1. /\ mem[t] = "unborn" => state[t] = "ready" /\ t \notin owners
            /\ mem[t] = "live" /\ state[t] # "dead" => t \in owners
            /\ t \in owners => mem[t] = "live" /\ (state[t] = "dead" => t = handoff.free)
            /\ mem[t] = "freed" => state[t] = "dead"
        BY Zenon DEF Places, Owned
      <3>2. t \in All /\ mem'[t] = mem[t] /\ owners' = owners
            /\ state'[t] = IF t = new THEN "running" ELSE IF t = stack THEN "ready" ELSE state[t]
        BY <1>2, <1>8, <1>11, Zenon
      <3> QED BY <1>3, <1>7, <2>1, <3>1, <3>2, Zenon
    <2>5. /\ state'[Idle] # "dead" /\ mem'[current'] = "live" /\ mem'[new] = "live" /\ mem'[Idle] = "live"
      BY <1>1, <1>2, <1>3, <1>7, <1>8, <1>11, Zenon DEF Places, Pointers
    <2>6. Once(run_queue')
      BY <1>6, <1>8
    <2> QED BY <1>10, <2>1, <2>2, <2>3, <2>4, <2>5, <2>6, Zenon DEF Places, InQueue, Running, Owned, Pointers
  <1>14. Control'
    BY <1>1, <1>2, <1>7, <1>8, <1>10, Zenon DEF Control
  <1>15. Contexts'
    <2>1. \A u \in All : saved'[u] = IF u = new THEN FALSE ELSE IF u = stack THEN TRUE ELSE saved[u]
      BY <1>10, Zenon
    <2>2. \A u \in All : mem'[u] = "live" /\ state'[u] = "ready" => saved'[u] = TRUE
      BY <1>8, <1>11, <2>1, Zenon DEF Contexts
    <2> QED BY <1>8, <2>2, Zenon DEF Contexts
  <1>16. Unasked'
    BY <1>4, <1>8, Zenon DEF Unasked
  <1> QED BY <1>12, <1>13, <1>14, <1>15, <1>16
-----------------------------------------------------------------------------
\* SchedInv holds before sched::start.
LEMMA InitInv ==
  ASSUME Init
  PROVE  SchedInv
  <1>1. Idle \in All /\ None \notin All /\ Threads \subseteq All
    BY ThreadsAssumption DEF All
  <1>2. \A t \in All : /\ mem[t] = "unborn" /\ state[t] = "ready" /\ fault[t] = FALSE
                       /\ fresh[t] = TRUE /\ refs[t] = 0
    BY DEF Init
  <1>3. TypeOK
    <2>1. saved \in [All -> BOOLEAN] /\ fresh \in [All -> BOOLEAN] /\ fault \in [All -> BOOLEAN]
      BY Zenon DEF Init
    <2>2. resched_pending \in BOOLEAN /\ asked \in BOOLEAN /\ irq \in BOOLEAN
      BY Zenon DEF Init
    <2>3. refs \in [All -> 0 .. MaxRefs]
      BY MaxRefsAssumption DEF Init
    <2>4. handoff \in [new : All \union {None}, free : Threads \union {None}]
      BY DEF Init, NoHandoff
    <2> QED BY <2>1, <2>2, <2>3, <2>4 DEF Init, TypeOK
  <1>4. Places
    <2>1. Elements(run_queue) = {} /\ Once(run_queue)
      BY DEF Init, Elements, Once
    <2> QED BY <1>1, <1>2, <2>1, Zenon DEF Init, Places, InQueue, Running, Owned, Pointers, NoHandoff
  <1>5. Control /\ Contexts /\ Unasked
    BY <1>1, <1>2, Zenon DEF Init, Control, Contexts, Unasked
  <1> QED BY <1>3, <1>4, <1>5 DEF SchedInv

\* Every step of the scheduler keeps SchedInv.
LEMMA StepInv ==
  ASSUME SchedInv, [Next]_vars
  PROVE  SchedInv'
  <1>1. CASE UNCHANGED vars
    <2>1. TypeOK'
      BY <1>1 DEF vars, SchedInv, TypeOK
    <2>2. Places'
      BY <1>1, Zenon DEF vars, SchedInv, Places, InQueue, Running, Owned, Pointers
    <2>3. Control'
      BY <1>1, Zenon DEF vars, SchedInv, Control
    <2>4. Contexts' /\ Unasked'
      BY <1>1, Zenon DEF vars, SchedInv, Contexts, Unasked
    <2> QED BY <2>1, <2>2, <2>3, <2>4 DEF SchedInv
  <1>2. CASE IdleLoop
    BY <1>1, <1>2 DEF IdleLoop
  <1> QED BY SMTT(30), <1>1, <1>2, SpawnInv, DropRefInv, StartInv, ExitInv, CompleteInv, CurrentInv,
             EndGuardInv, ReschedInv, PendingInv DEF Next

\* SchedInv is inductive.
LEMMA SchedInvariance == Spec => []SchedInv
  <1>1. Init => SchedInv
    BY InitInv
  <1>2. SchedInv /\ [Next]_vars => SchedInv'
    BY StepInv
  <1> QED BY <1>1, <1>2, PTL DEF Spec

\* However many threads are spawned, exit and are dropped in whatever order: every
\* UnsafeRef<Thread> of the scheduler points to a live thread, and the processor is never
\* on the stack of one that has been freed or is about to be.
THEOREM SchedRefsLive == Spec => []LiveRefs
  <1>1. SchedInv => LiveRefs
    <2> SUFFICES ASSUME SchedInv PROVE LiveRefs
      OBVIOUS
    <2> USE DEF SchedInv
    <2>1. \A t \in Queued : mem[t] = "live"
      <3>1. Elements(run_queue) = Queued
        BY Zenon DEF Elements, Queued
      <3> QED BY <3>1, Zenon DEF Places, InQueue
    <2>2. idle_thread # None => mem[idle_thread] = "live"
      BY Zenon DEF Places, Pointers, TypeOK
    <2>3. handoff.free # None => mem[handoff.free] = "live" /\ handoff.free # stack
      <3>1. handoff.free # None => handoff.free \in Threads /\ handoff.free \in All
        BY Zenon DEF TypeOK, All
      <3> QED BY <3>1, Zenon DEF Places, Running, Owned, Pointers
    <2>4. handoff.new # None => mem[handoff.new] = "live"
      BY Zenon DEF Places, Pointers
    <2>5. current # None => mem[current] = "live"
      BY Zenon DEF Places, Pointers
    <2>6. \A t \in Referenced : mem[t] = "live"
      <3> SUFFICES ASSUME NEW t \in Referenced PROVE mem[t] = "live"
        OBVIOUS
      <3>1. t # None /\ (t \in Queued \/ t \in {current, idle_thread, handoff.new, handoff.free})
        BY Zenon DEF Referenced
      <3>2. CASE t \in Queued
        BY <2>1, <3>2, Zenon
      <3>3. CASE t \in {current, idle_thread, handoff.new, handoff.free}
        <4>1. CASE t = current
          BY <2>5, <3>1, <4>1, Zenon
        <4>2. CASE t = idle_thread
          BY <2>2, <3>1, <4>2, Zenon
        <4>3. CASE t = handoff.new
          BY <2>4, <3>1, <4>3, Zenon
        <4>4. CASE t = handoff.free
          BY <2>3, <3>1, <4>4, Zenon
        <4> QED BY <3>3, <4>1, <4>2, <4>3, <4>4, Zenon
      <3> QED BY <3>1, <3>2, <3>3, Zenon
    <2> QED BY <2>3, <2>6, Zenon DEF LiveRefs, Places, Pointers
  <1> QED BY <1>1, SchedInvariance, PTL

\* The run queue holds exactly the ready threads, each once, and without a request to
\* reschedule the scheduler never panics and never resumes a context that was not saved.
THEOREM SchedQueueExact == Spec => []QueueExact
  <1>1. SchedInv => QueueExact
    <2> SUFFICES ASSUME SchedInv PROVE QueueExact
      OBVIOUS
    <2> USE DEF SchedInv
    <2>1. Queued = {t \in Threads : mem[t] = "live" /\ state[t] = "ready"}
      BY Zenon DEF Places, InQueue, Elements, Queued
    <2>2. {t \in All : state[t] = "running"} = {stack} \ {None}
      BY ThreadsAssumption DEF Places, Running, TypeOK, All
    <2>3. pc = "crashed" => asked
      BY Zenon DEF Unasked, TypeOK
    <2>4. \A i, j \in DOMAIN run_queue : run_queue[i] = run_queue[j] => i = j
      BY Zenon DEF Places, InQueue, Once
    <2> QED BY <2>1, <2>2, <2>3, <2>4, Zenon DEF QueueExact
  <1> QED BY <1>1, SchedInvariance, PTL
=============================================================================

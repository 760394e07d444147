CONSTANTS
  Threads = {t1, t2, t3}
  Idle = idle
  AddrSpaces = {a1, a2}
  None = none
  MaxRefs = 2
  Kthreads = {k1, k2}
  FaultAddrs = {f1, f2}
  StackWords = 56
SPECIFICATION ThreadsSpec
INVARIANTS
  LiveRefs
  QueueExact
  ContextsKept
  FaultsPaired
PROPERTY
  Reclaimed

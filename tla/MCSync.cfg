CONSTANTS
  Cpus = {c1, c2}
  Locks = {aspace, pmm, console}
  None = none
  aspace = aspace
  bsp = c1
  pmm = pmm
  CONSOLE = console
  Nests <- KernelNests
  LineBytes = 1
  ReportLines = 2
  MaxCalls = 1
  Callers = {p1, p2, p3}
  Nobody = nobody
SPECIFICATION SyncSpec
INVARIANTS
  GuardsExact
  MutualExclusion
  NoWaitCycle
  NoByteLost
  ReadsInitialized
  OneInitializer
PROPERTIES
  PanicReported
  WaitersReturn

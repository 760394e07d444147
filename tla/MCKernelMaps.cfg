CONSTANTS
  Root = root
  Subslices = {s1, s2}
  Mappings = {m1, m2}
  Threads = {}
  Tasks = {t1, t2}
  STACK_PAGES = 2
  PAGE_SIZE = 4
  IoRanges <- MCIoAligned
  PageCount = 7
  FrameCount = 5
  Sizes = {1, 2}
  Orders = {0}
  Bases = {}
  Offsets = {0}
  Prots = {"rw"}
  Accesses = {}
  Objects = {}
  UsizeRange = 256
  StaleHandles = FALSE
  None = none
SPECIFICATION KernelSpec
SYMMETRY MCSymmetry
INVARIANTS
  MapsExact
  NothingLost

CONSTANTS
  Root = root
  Subslices = {s1}
  Mappings = {m1, m2}
  Threads = {t1}
  PageCount = 3
  FrameCount = 2
  Sizes = {1, 2}
  Orders = {0}
  Bases = {0, 1}
  Offsets = {0, 1}
  Prots = {"rw"}
  Accesses = {"write"}
  Objects <- MCObjects
  UsizeRange = 256
  StaleHandles = FALSE
  None = none
SPECIFICATION Spec
INVARIANT FaultFindsMapping

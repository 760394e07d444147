CONSTANTS
  Spaces = {"kernel", "low"}
  Levels = 3
  EntryCount = 2
  LargeLevels = {0, 1}
  CullLevels = {0, 1}
  PageCount = 6
  TableFrames = {101, 102, 103, 104}
  Root = 100
  Requests <- MCRequests
  ro = ro
  rw = rw
  MaxOps = 3
  AnyRange = TRUE
  None = none
  MaxInvalidations = 1
  StructureCaches = FALSE
  TlbSize = 1
  FrameBits <- MCFrameBits
  PermSets <- MCPermSets
SPECIFICATION TlbSpec
INVARIANT UnmapsAll

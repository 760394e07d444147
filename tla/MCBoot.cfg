CONSTANTS
  FrameCount = 7
  AllocFloor = 1
  PAGE_SIZE = 256
  BOOTINFO_FIXED_SIZE = 128
  MMAP_EXTRA_ENTRIES = 2
  ElfFiles <- MCElfFiles
  CommandLines = {none, 13, 56, 160}
  Modes = {"Rgb", "Bitmask"}
  MaxChanges = 1
  LowLimit = 1
  EarlyMapMax = 1
  PhysMapMax = 8
  MaxTables = 1
  LowIsMapped = TRUE
  None = none
SPECIFICATION FairSpec
INVARIANTS
  HandedOver
  NoLateFailure
  
  PhysmapCovers
  EarlyTablesFit
PROPERTY
  Terminates

CONSTANTS
  Threads = {t1, t2, t3}
  Idle = idle
  AddrSpaces = {a1, a2}
  None = none
  MaxRefs = 2
  BootPages = 1
  KernelPages = 2044
  Bases = {256, 511, 130000, 260095}
  KernelSlots = {image, physmap1, physmap2, stacks}
  ImageSlot = image
  PhysmapSlots = {physmap1, physmap2}
  Frames = {f1, f2, f3, f4}
  KernelRoot = kernel_root
  BootTable = boot_table
  NoTable = no_table
SPECIFICATION RootsSpec
SYMMETRY MCSymmetry
INVARIANTS
  RootActive
  KernelViewAgrees
  NothingStale
  

CONSTANTS
  OrderCount = 3
  MaxPfn = 7
SPECIFICATION FairSpec
INVARIANTS
  IInv
  CountersExact
  NoSpuriousFailure
PROPERTY
  LockReleased
  ImplementsFrameAllocator

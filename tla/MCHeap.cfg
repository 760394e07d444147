CONSTANTS
  PageSize = 9
  HeaderSize = 2
  Sizes <- MCSizes
  SlabOrders <- MCSlabOrders
  OrderCount = 3
  MaxPfn = 4
  RawOrders = {0}
  MaxSize = 12300
  MaxAlignOrder = 13
SPECIFICATION Spec
INVARIANTS
  MetadataExact
  Disjoint
  RequestServed

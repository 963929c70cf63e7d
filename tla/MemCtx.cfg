SPECIFICATION Spec
CONSTANTS
  p1 = p1
  p2 = p2
  p3 = p3
  p4 = p4
  MaxContexts = 2
  MaxBlocks = 3
  Ptrs <- MCPtrs
  Sizes <- MCSizes
  Quotas <- MCQuotas
  MaxId = 4
SYMMETRY PtrSymmetry
INVARIANTS NothingLeaks AccountsSound
PROPERTIES ImplementsRegions

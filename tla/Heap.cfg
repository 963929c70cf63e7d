SPECIFICATION Spec
CONSTANTS
  Hdr = 1
  Page = 2
  SwapSize = 4
  HeapSize = 4
  HeapMax = 8
  Requests <- MCRequests
  MaxFails = 1
INVARIANTS LayoutSound RecordsAgree RefusedOnlyWhenFull
PROPERTY ImplementsAllocator
CHECK_DEADLOCK FALSE

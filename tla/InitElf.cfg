CONSTANTS
  MemSize = 5
  SizeMax = 3
SPECIFICATION Spec
INVARIANT SegmentsLoaded
CHECK_DEADLOCK FALSE

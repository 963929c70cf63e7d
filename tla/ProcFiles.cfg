CONSTANTS
  p1 = p1
  p2 = p2
  f1 = f1
  f2 = f2
  Nothing = Nothing
  Procs <- MCProcs
  Files <- MCFiles
  FdMax = 2
  SlotMax = 3
SPECIFICATION Spec
INVARIANT SlotsAccounted
PROPERTY ImplementsHandles

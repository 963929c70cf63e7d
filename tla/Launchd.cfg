CONSTANTS
  ProcMax = 4
  CtxMax = 4
  MaxPid = 10
  Lines = 3
  Loadable <- MCLoadable
  Spare = 3
SPECIFICATION LaunchdSpec
INVARIANTS
  CurrentIsInnermost FramesKeepMemory ParentsAlive ContextsMatch NoneForgotten
  OnlyWholeRuns LaunchdInControl
PROPERTIES ExitIsFinal ImplementsLifecycle DaemonsServed
CHECK_DEADLOCK FALSE

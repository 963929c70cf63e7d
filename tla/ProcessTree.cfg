CONSTANTS
  None = None
  Libraries = {"json"}
  Limits <- MCLimits
  MaxPid = 3
  MaxNow = 2
  MaxDepth = 2
SPECIFICATION Spec
CONSTRAINT OneSide
INVARIANTS TreeSound PermissionsInherited DeadlinesFollow
PROPERTY TerminationIsFinal

CONSTANTS
  Last = 4
  Heads <- MCHeads
  StackSize = 1
  Heaps <- MCHeaps
  Nobody = Nobody
SPECIFICATION FairSpec
INVARIANT CollectsGarbage
PROPERTY CollectionEnds
CHECK_DEADLOCK FALSE

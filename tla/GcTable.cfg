CONSTANTS
  Atbs = 3
  BLOCKS_PER_ATB = 2
  MaxAsk = 4
SPECIFICATION Spec
INVARIANTS NoneFreeBefore UsedWithinSweep

CONSTANTS
  BUF_LINES = 4
  Rows = 2
  Cols = 3
  Chars <- MCChars
  Space = " "
  MaxLost = 5
SPECIFICATION Spec
INVARIANTS
  RingConsistent
  ScreenCurrent
PROPERTY ImplementsScrollback

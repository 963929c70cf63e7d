CONSTANTS
  Word = 8
  FileSize = 2
  LoadMax = 5
  Headers <- MCHeaders
  PhMax = 2
SPECIFICATION Spec
INVARIANTS CopiesStayInside ImageAsAsked
CHECK_DEADLOCK FALSE

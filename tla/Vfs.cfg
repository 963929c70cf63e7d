CONSTANTS
  MaxNodes = 4
  MaxOpen = 2
  Paths <- MCPaths
  Truncate <- MCTruncate
  Flags <- MCFlags
  Lengths = {1, 2}
  Seeks <- MCSeeks
  MaxOffset = 3
SPECIFICATION Spec
CONSTRAINT OneSide
INVARIANTS TreeSound FilesSound
PROPERTY OnlyLoopsDetach

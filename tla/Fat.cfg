CONSTANTS
  f = f
  g = g
  NoName = none
  Clusters = 4
  ClusterSize = 2
  DirSlots = 2
  MaxOpen = 2
  Names <- MCNames
  Flags <- MCFlags
  Lengths = {1, 2, 3}
  Seeks = {3}
  MaxPos = 5
SPECIFICATION Spec
SYMMETRY Renaming
CONSTRAINT OneSide
VIEW Volume
INVARIANTS VolumeSound DamageContained

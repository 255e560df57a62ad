\* No symmetry: one of the properties is a liveness property.
SPECIFICATION FairSpec
CONSTANTS
  a = a
  b = b
  x = x
  y = y
  Threads <- MCThreads
  Blocks <- MCBlocks
  Nobody = Nobody
  Absent = Absent
  MaxWrites = 3
INVARIANTS
  CacheCoherent
PROPERTIES
  ServedIsCurrent
  ReadsNewestTree
  CallsReturn

SPECIFICATION Spec
CONSTANTS
  a = a
  b = b
  x = x
  y = y
  Threads <- MCThreads
  Blocks <- MCBlocks
  Nobody = Nobody
  Absent = Absent
  MaxWrites = 2
INVARIANTS
  OpenRootIsLive

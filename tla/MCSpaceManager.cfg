SPECIFICATION Spec
CONSTANTS
  NodeSize = 4
  SectorSize = 2
  Chunks <- MCChunks
  Fixed <- MCFixed
  Formatted <- MCFormatted
  MaxWrite = 7
INVARIANTS
  FreeListSound
PROPERTIES
  WriteFailsOnlyWhenFull
  ImplementsFreeSpace

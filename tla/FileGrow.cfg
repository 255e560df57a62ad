SPECIFICATION Spec
CONSTANTS
  SectorSize = 2
  Sectors = 3
  MaxInline = 1
  Bodies <- MCBodies
  Sizes = {0, 4}
  MaxInode = 2
  MaxCalls = 4
  MaxFaults = 1
INVARIANTS
  GrownFileReads

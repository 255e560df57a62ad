SPECIFICATION Spec
CONSTANTS
  Layouts <- MCLayouts
  Sizes = {11, 12, 14}
  Reserved = {}
  MaxUnits = 14
  MaxFiles = 2
  MaxCalls = 4
  MaxFaults = 0
INVARIANTS
  RefusalIsUndone

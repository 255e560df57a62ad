SPECIFICATION Spec
CONSTANTS
  Blocks = {1, 2, 3, 4, 5, 6, 7, 8, 9}
  LeafCap = 4
  MaxKids = 2
  MaxVersion = 3
  MaxFaults = 1
INVARIANTS
  RebuildErrorMountable

\* Three levels with deletes: a gap below an internal node.
SPECIFICATION PointSpec
CONSTANTS
  Keys = {2, 3, 4, 5}
  MinKey = 0
  Width = 2
  Data = {1}
  ItemSize = 1
  LeafSpace = 4
  PtrSpace = 2
  Blocks = {1, 2, 3, 4, 5, 6, 7, 8, 9, 10, 11, 12}
  MaxFaults = 0
  MaxFuse = 0
VIEW ShapeView
INVARIANTS
  SearchFindsAll

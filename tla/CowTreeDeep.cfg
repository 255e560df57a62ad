\* Three levels: an internal node has two pointers.
SPECIFICATION CoveredSpec
CONSTANTS
  Keys = {2, 3, 4, 5, 6}
  MinKey = 0
  Width = 2
  Data = {1}
  ItemSize = 1
  LeafSpace = 4
  PtrSpace = 2
  Blocks = {1, 2, 3, 4, 5, 6, 7, 8, 9, 10, 11, 12}
  MaxFaults = 1
  MaxFuse = 7
VIEW ShapeView
INVARIANTS
  TreeSound
  SearchFindsAll
PROPERTIES
  AllOrNothing
  ImplementsKeyMap

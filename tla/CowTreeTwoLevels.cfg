\* Two levels: the root takes as many pointers as there can be leaves.
SPECIFICATION RoutableSpec
CONSTANTS
  Keys = {2, 3, 4, 5}
  MinKey = 0
  Width = 2
  Data = {1, 2}
  ItemSize = 1
  LeafSpace = 5
  PtrSpace = 6
  Blocks = {1, 2, 3, 4, 5, 6, 7}
  MaxFaults = 1
  MaxFuse = 7
VIEW ShapeView
INVARIANTS
  TreeSound
  SearchFindsAll
PROPERTIES
  AllOrNothing
  ImplementsKeyMap

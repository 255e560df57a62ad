SPECIFICATION OrdinarySpec
CONSTANTS
  Names = {"a", "bb"}
  Hash <- Distinct
  NameLen <- Short
  MaxInodes = 2
  MaxIndex = 4
  MaxFaults = 1
  Fuses = {0, 1, 2, 3, 4, 5, 6, 7}
VIEW Items
INVARIANTS
  NamesUnique
PROPERTIES
  OtherNamesUntouched

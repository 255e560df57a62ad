SPECIFICATION OrdinarySpec
CONSTANTS
  Names = {"a", "bb"}
  Hash <- Distinct
  NameLen <- Short
  MaxInodes = 3
  MaxIndex = 4
  MaxFaults = 0
  Fuses = {0}
VIEW Items
INVARIANTS
  RecordsAgree
  LinksCounted
  AllReachable
PROPERTIES
  ImplementsNameTree

SPECIFICATION Spec
CONSTANTS
  Names = {"a", "bb"}
  Hash <- Distinct
  NameLen <- Short
  MaxInodes = 2
  MaxIndex = 5
  MaxFaults = 0
  Fuses = {0}
VIEW Items
PROPERTIES
  RenameKeepsInode

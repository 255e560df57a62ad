SPECIFICATION ApartSpec
CONSTANTS
  Names = {"user.a", "user.b"}
  Hash <- MCHash
  Values = {1}
  Labels = {"old", "new"}
  Copies = {0, 1}
  MaxInode = 2
  MaxCalls = 5
  MaxFaults = 1
INVARIANTS
  AttributesReadBack
  LabelsAgree
PROPERTIES
  ChangesAreDated

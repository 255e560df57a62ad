SPECIFICATION Spec
CONSTANTS
  Images <- Translated
  StripeLen = 2
  Lengths = {1, 2}
  MaxWrites = 1
  MaxFaults = 0
CHECK_DEADLOCK FALSE
INVARIANTS
  ReadsAreRight

SPECIFICATION Spec
CONSTANTS
  Images <- MCImages
  StripeLen = 2
  Lengths = {1, 5}
  MaxWrites = 2
  MaxFaults = 2
CHECK_DEADLOCK FALSE
INVARIANTS
  ReadsAreRight
  ErrorMeansNoCopy
  PoolClosedOnce
PROPERTIES
  CallsReturn

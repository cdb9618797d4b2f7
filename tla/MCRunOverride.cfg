CONSTANTS
  NumPairs = 2
  MaxChanges = 0
SPECIFICATION Spec
INVARIANT OverrideDropsClient
CHECK_DEADLOCK FALSE

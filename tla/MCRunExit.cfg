CONSTANTS
  NumPairs = 2
  MaxChanges = 0
SPECIFICATION Spec
INVARIANT ExitTable
CHECK_DEADLOCK FALSE

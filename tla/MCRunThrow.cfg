CONSTANTS
  NumPairs = 2
  MaxChanges = 0
SPECIFICATION Spec
INVARIANT NoUnhandledException
CHECK_DEADLOCK FALSE

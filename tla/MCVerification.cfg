CONSTANTS
  Objects <- SwitchThenPort
  NumAttributes = 3
  Meta <- Table
  MaxLines = 1
  MaxReconfigs = 1
SPECIFICATION Spec
INVARIANTS
  TypeOK
  Accounting
  CappedButExact
  CacheIsOfThisObject
  ReadOnce
PROPERTIES
  NoFalseContradiction
  ContradictionIsBacked
  VerificationEnds
CHECK_DEADLOCK FALSE

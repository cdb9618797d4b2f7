CONSTANTS
  Objects <- SwitchThenPort
  NumAttributes = 3
  Meta <- Table
  MaxLines = 1
  MaxReconfigs = 1
SPECIFICATION Spec
PROPERTIES
  NoFalsePositive
CHECK_DEADLOCK FALSE

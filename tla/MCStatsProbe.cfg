CONSTANTS
  NumStats = 3
  Markers <- LastIsMarker
  Declarations <- AFewDeclarations
  PortLists <- UpToTwoPorts
SPECIFICATION Spec
INVARIANTS
  TypeOK
  CountsAddUp
  NoFalseContradiction
  ClearedByEntry
PROPERTIES
  OneDeclaration
  ContradictionIsDeclared
  ProbeEnds
CHECK_DEADLOCK FALSE

CONSTANTS
  NumPairs = 2
  MaxChanges = 1
SPECIFICATION Spec
INVARIANTS
  TypeOK
  ExitCodes
  SessionClosed
  OneDocument
  PreflightIsRight
  TakenIsAnnounced
PROPERTY RunEnds
CHECK_DEADLOCK FALSE

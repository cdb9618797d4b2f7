CONSTANTS
  Plain <- PlainChars
  Code <- Codes
  Numerals = {"7"}
  MaxDepth = 4
  Keys <- TwoKeys
  Scalars <- SomeScalars
  MaxCalls = 6
SPECIFICATION Spec
INVARIANT ReadsBack
CHECK_DEADLOCK FALSE

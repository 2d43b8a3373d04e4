SPECIFICATION Spec
CONSTANTS
  IntWidth = 2
  DoubleWidth = 2
  Alphabet = {0, 200}
  Widths = {1, 2, 3}
  MaxLen = 3
INVARIANTS
  ReadsBack
  LooksAgree
PROPERTIES
  StreamSteps
  BoundsKept

\* Plain vectors of the same or of different sizes.
CONSTANTS
  NULL = NULL
  Monitors <- PlainVectors
  Numbers = {1, 2}
  Texts <- MCTexts
  Evaluate <- Arithmetic
  MaxChildren = 2
  MaxClock = 2
SPECIFICATION Spec
INVARIANTS
  VectorOperationsComputed

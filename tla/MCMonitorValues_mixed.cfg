\* Two instants, two numbers, a vector of up to two elements.
CONSTANTS
  NULL = NULL
  Monitors <- Mixed
  Numbers = {1, 2}
  Texts <- MCTexts
  Evaluate <- Arithmetic
  MaxChildren = 2
  MaxClock = 2
SPECIFICATION Spec
INVARIANTS
  TypeOK
  HeapExact
  ConsumersUpToDate
  OperationsUpToDate
PROPERTIES
  UnchangedReadingSentOnce

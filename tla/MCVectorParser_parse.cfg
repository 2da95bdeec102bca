\* Every answer of up to four elements, both sources, every kind of monitor.
CONSTANTS
  NULL = NULL
  Alphabet <- MCAlphabet
  MaxLength = 4
  Now = 9
SPECIFICATION MCSpec
INVARIANTS
  TypeOK
  ParsedByPosition
  MeanWithinElements
  StampedElementsKept

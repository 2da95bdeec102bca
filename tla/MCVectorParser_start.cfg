\* Answers of up to three elements.
CONSTANTS
  NULL = NULL
  Alphabet <- MCAlphabet
  MaxLength = 3
  Now = 9
SPECIFICATION MCSpec
INVARIANTS
  BlankStartKeepsTheRest

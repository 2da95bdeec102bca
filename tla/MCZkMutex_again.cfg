SPECIFICATION FairSpec
CONSTANTS
  a = a
  b = b
  Procs = {a, b}
  Releases = TRUE
  MaxMutexes = 2
  MaxNodes = 5
  MaxFaults = 0
PROPERTIES
  LockedAgain
CHECK_DEADLOCK FALSE

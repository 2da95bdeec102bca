SPECIFICATION LeaderFairSpec
CONSTANTS
  a = a
  b = b
  Procs = {a, b}
  Releases = FALSE
  MaxMutexes = 1
  MaxNodes = 10
  MaxFaults = 2
  NPushed = 2
  MaxCalls = 1
INVARIANTS
  LeaderTypeOK
  SinglePusher
  AtRestSomeoneHolds
PROPERTIES
  LeaderUnlessOrphaned
  SensorsPushed
CHECK_DEADLOCK FALSE

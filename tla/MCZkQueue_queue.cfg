SPECIFICATION QueueSpec
CONSTANTS
  a = a
  b = b
  Procs = {a, b}
  Releases = TRUE
  MaxMutexes = 3
  MaxNodes = 3
  MaxFaults = 2
  MaxElements = 2
SYMMETRY Instances
INVARIANTS
  LoopInv
  MutualExclusion
  NoElementLost
  DeliveredInOrder
  DuplicatesExplained
  PollLoopAlive
  NothingStuck
  AtRestQueueEmpty
PROPERTIES
  ImplementsLock
  ImplementsFifo
CHECK_DEADLOCK FALSE

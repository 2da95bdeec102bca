\* Two workers race for one or two sensors whose copies fill the queue.
CONSTANTS
  NSensors = 2
  NMonitors = 2
  Workers = {w1, w2}
  NoWorker = NoWorker
  Addressed = {1, 2}
  MaxQueue = 2
  MaxOutq = 1
SPECIFICATION Spec
SYMMETRY WorkerSymmetry
INVARIANTS
  ReferencesExact
  NoUseAfterFree
  ExclusiveProcessing
  SessionOfOwnSensor
  OneSensorAfterSignal
  CleanExit
  PoolInv
PROPERTIES
  OrderedMessages
  ImplementsService

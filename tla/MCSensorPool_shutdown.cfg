\* Shutdown with messages in flight, a full Kafka queue and a backlog.
CONSTANTS
  NSensors = 1
  NMonitors = 2
  Workers = {w1, w2}
  NoWorker = NoWorker
  Addressed = {1}
  MaxQueue = 2
  MaxOutq = 1
SPECIFICATION FairSpec
PROPERTIES
  SignalEndsProgram

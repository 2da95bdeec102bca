\* Scheduling: the workers meet on a sensor and one skips it, wait for each
\* other at the SNMP session mutex, and find one sensor without an address.
\* The monitors send nothing here.
CONSTANTS
  NSensors = 3
  NMonitors = 0
  Workers = {w1, w2}
  NoWorker = NoWorker
  Addressed = {1, 2}
  MaxQueue = 1
  MaxOutq = 1
SPECIFICATION FairSpec
PROPERTIES
  EverySensorServed
  IterationsEnd

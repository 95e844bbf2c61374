SPECIFICATION Spec
CONSTANTS
  Machines = {m1, m2}
  MaxInFlight = 1
  Backends = {b1, b2}
  NoBackend = NoBackend
  Buffer = 1
INVARIANTS
  OnlyCutSessionsRejected
PROPERTIES
  CapacityFreed
  FinishedJobsComplete

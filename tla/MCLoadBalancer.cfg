SPECIFICATION Spec
CONSTANTS
  Clients = {c1, c2}
  b1 = b1
  b2 = b2
  b3 = b3
  Addr = {b1, b2, b3}
  Configs <- MCConfigs
  CursorSpace = 4
  NoBackend = NoBackend
INVARIANTS
  TypeOK
  CountsMatchHolders
  OpenSessionsCounted
  NoSocketLeak
  DrainedOnReturn
PROPERTIES
  SelectNeverWidens
  ImplementsLeastConnections
  ShutdownCompletes

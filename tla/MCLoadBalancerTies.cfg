SPECIFICATION TiesSpec
CONSTANTS
  Clients = {c1, c2, c3}
  b1 = b1
  b2 = b2
  Addr = {b1, b2}
  Configs <- TwoBackends
  CursorSpace = 4
  NoBackend = NoBackend
PROPERTIES
  TiesRotate

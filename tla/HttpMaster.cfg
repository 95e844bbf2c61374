SPECIFICATION Spec
CONSTANTS
  Conns = {c1, c2}
  Browsers = {c1}
INVARIANTS
  RefusedCallExplained
  InStep
PROPERTIES
  MasterExits
  CallsSettle
  QuickCallsInTime

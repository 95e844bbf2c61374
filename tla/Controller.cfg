SPECIFICATION Spec
CONSTANTS
  MaxTarget = 2
  MaxManual = 2
INVARIANTS
  ManagedBounded
  ShutdownEndsLoad
PROPERTIES
  ExcessStopped
  LoadSustained
  ShutdownCompletes

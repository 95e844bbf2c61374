SPECIFICATION Spec
CONSTANTS
  IdleTimeout = 2
  Window = 1
  Rate = 1
  TalkerSets = {{"client"}}
PROPERTIES
  ActiveSessionKept

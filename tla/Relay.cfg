SPECIFICATION Spec
CONSTANTS
  IdleTimeout = 3
  Window = 1
  Rate = 1
  TalkerSets = {{"client"}, {"client", "backend"}}
INVARIANTS
  CleanCloseLosesNothing
  IdleMeansSilent
  SilentBackendCapsSession
PROPERTIES
  SessionEnds
  RelaysFollow

SPECIFICATION Spec
CONSTANTS
  Machines = {m1, m2}
  MaxInFlight = 1
INVARIANTS
  OutcomesTell
  SlotsConserved
PROPERTIES
  DrainIsGraceful
  NoHelloAfterRequest
  ImplementsMachineTask

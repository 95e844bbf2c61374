SPECIFICATION Safety
CONSTANTS
  Conns = {c1}
  m1 = m1
  m2 = m2
  cnc = cnc
  oven = oven
  temperature = temperature
  power = power
  Machines = {m1, m2}
  MachineTypes = {cnc, oven}
  Metrics = {temperature, power}
  AllowedMetrics <- MCAllowed
  Missing = Missing
  Garbage = Garbage
  Lines <- AllLines
  MaxTelemetry = 1
INVARIANTS
  SessionReportsItsMachine

SPECIFICATION Spec
CONSTANTS
  m1 = m1
  m2 = m2
  Motors = {m1, m2}
  StartupTicks = 1
  TrajectoryTicks = 2
  ReturnTicks = 2
  MaxOverrun = 2
  MaxInputs = 3
INVARIANTS
  LogsAreAccounted
PROPERTIES
  StopsAreObeyed
  RunEnds

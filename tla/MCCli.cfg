SPECIFICATION Spec
CONSTANTS
  m1 = m1
  m2 = m2
  a1 = a1
  a2 = a2
  Motors = {m1, m2}
  Buses = {b1, b2}
  Adapters = {a1, a2}
  AdapterOf <- MCAdapterOf
  ReadyPolls = 2
  Delays <- MCDelays
  LongDelay = 100
  MinPackets = 3
  MaxDrops = 2
  RateNum = 1
  RateDen = 3
  MaxSamples = 4
  MaxRounds = 2
INVARIANTS
  TypeOK
  TerminalIsRestored
  ExitTellsOutcome
  DriveIsAllOrNothing
  ScanIsJoined
  BenchVerdict
  ReportsAreTrue
PROPERTIES
  CommandsEnd

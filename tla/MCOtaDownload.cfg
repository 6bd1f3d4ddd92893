SPECIFICATION Spec
CONSTANTS
  g1 = g1
  g2 = g2
  Boards = {g1, g2}
  Target = g1
  p1 = p1
  p2 = p2
  Paths = {p1, p2}
  VersionLimit = 2
  MaxPolls = 2
  MaxPowerCuts = 2
INVARIANTS
  OnlyTargetIsWritten
  RebootsOnlyIfInstallable
PROPERTIES
  NoEarlyGiveUp
  DownloadEnds
  KeepsPromise

SPECIFICATION Spec
CONSTANTS
  b1 = b1
  b2 = b2
  Boards = {b1, b2}
  Target = b1
  MaxSends = 2
  MaxRestarts = 1
INVARIANTS
  OneBoardIsConfigured
  SuccessIsSaved
PROPERTIES
  ConfigEnds
  KeepsOrder

SPECIFICATION Spec
CONSTANTS
  Motors = {m1, m2}
  NoMotor = NoMotor
  Modes = {Speed}
  None = None
  MaxSelections = 3
INVARIANTS
  SettledFramesAreOwn
  RangesAreOfSelected
PROPERTIES
  AdoptedCommandIsKept
  LateFrameAtMostOnce
  QuietAfterStop
  AppliedCommandIsSent

SPECIFICATION Spec
CONSTANTS
  Types = {Position, Speed}
  None = None
  MaxDataPoints = 3
  MaxSelections = 3
INVARIANTS
  GraphIsOfOneMotor
  OddPointIsOldest

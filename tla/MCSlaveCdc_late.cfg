SPECIFICATION Spec
CONSTANTS
  MaxRuns = 2
  AnswersLate = TRUE
INVARIANTS
  SaveFailurePreventsReboot

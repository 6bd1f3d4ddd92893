SPECIFICATION Spec
CONSTANTS
  MaxRuns = 5
  AnswersLate = FALSE
PROPERTIES
  KeepsOrder

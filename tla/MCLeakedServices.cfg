SPECIFICATION Spec
CONSTANTS
  NumServices = 2
  MaxGenerations = 1
INVARIANTS
  NoServiceOutlivesRun
CHECK_DEADLOCK FALSE

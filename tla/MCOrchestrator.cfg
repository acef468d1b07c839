SPECIFICATION FairSpec
CONSTANTS
  NumServices = 2
  MaxGenerations = 2
INVARIANTS
  TypeOK
  OneGenerationAtATime
  NoServiceAfterStepDown
  OnlyLateServicesOutliveRun
PROPERTIES
  RunReturns
  DeposedServicesStop
CHECK_DEADLOCK FALSE

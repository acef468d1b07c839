SPECIFICATION FairSpec
CONSTANTS
  MaxIndex = 2
  Terms <- MCTerms
  MaxVote = 1
  MaxBatch = 2
  MaxCrashes = 1
  MaxUnsynced = 3
INVARIANTS
  TypeOK
  NoPromiseLost
  VoteDurable
  LogHasNoGap
PROPERTIES
  EveryWriteIsAnswered
CHECK_DEADLOCK FALSE

SPECIFICATION StorageSpec
CONSTANTS
  MaxIndex = 2
  Terms <- MCTerms
  MaxVote = 0
  MaxBatch = 2
  MaxCrashes = 1
  MaxUnsynced = 1
  Normal <- MCNormal
  Member <- MCMember
  MaxAhead = 0
INVARIANTS
  StorageTypeOK
  OnlyOvertakingUncovers
  RestartReplaysAcked
  ApplyFindsItsEntries
CHECK_DEADLOCK FALSE

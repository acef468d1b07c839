SPECIFICATION StorageSpec
CONSTANTS
  MaxIndex = 2
  Terms <- MCTerms
  MaxVote = 0
  MaxBatch = 2
  MaxCrashes = 1
  MaxUnsynced = 2
  Normal <- MCNormal
  Member <- MCMember
  MaxAhead = 0
INVARIANTS
  SnapshotCoversPurged
CHECK_DEADLOCK FALSE

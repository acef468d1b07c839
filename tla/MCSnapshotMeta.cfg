SPECIFICATION SMSpec
CONSTANTS
  MaxIndex = 4
  Terms <- MCTerms
  MaxVote = 0
  MaxCrashes = 2
  MaxUnsynced = 2
  Normal <- MCNormal
  Member <- MCMember
  MaxAhead = 0
INVARIANTS
  SnapshotMatchesMeta
CHECK_DEADLOCK FALSE

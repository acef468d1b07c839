SPECIFICATION SMSpec
CONSTANTS
  MaxIndex = 4
  Terms <- MCTerms
  MaxVote = 0
  MaxCrashes = 2
  MaxUnsynced = 2
  Normal <- MCNormal
  Member <- MCMember
  MaxAhead = 4
INVARIANTS
  SMTypeOK
  NothingAppliedIsLost
  MembershipMatchesLog
  OverwritesConverge
CHECK_DEADLOCK FALSE

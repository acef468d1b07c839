SPECIFICATION Spec
CONSTANTS
  n1 = n1
  n2 = n2
  n3 = n3
  Node <- MCNode
  Quorum <- MCQuorum
  MaxTerm = 2
  MaxIndex = 1
  MaxCampaigns = 2
  MaxCalls = 1
  MaxFaults = 1
SYMMETRY Nodes
INVARIANTS
  TypeOK
  OneLeaderPerTerm
  MatchedIsDurable
PROPERTIES
  OneHistory
CHECK_DEADLOCK FALSE

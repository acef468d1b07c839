SPECIFICATION FairSpec
CONSTANTS
  MaxCalls = 1
  MaxChunks = 1
  Ours = {1}
PROPERTIES
  SnapshotCallEnds
CHECK_DEADLOCK FALSE

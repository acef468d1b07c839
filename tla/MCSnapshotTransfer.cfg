SPECIFICATION Spec
CONSTANTS
  MaxCalls = 2
  MaxChunks = 2
  Ours = {2}
INVARIANTS
  TypeOK
  InstalledSnapshotIsWhole
CHECK_DEADLOCK FALSE

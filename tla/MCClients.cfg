CONSTANTS
  n1 = n1
  n2 = n2
  w1 = w1
  s1 = s1
  i1 = i1
  c1 = c1
  Node <- MCNode
  First <- MCFirst
  Writes <- MCWrites
  SafeReads <- MCSafeReads
  Inits <- MCInits
  Changes <- MCChanges
  MaxLength = 3
  MaxTerm = 3
  MaxStops = 1
SPECIFICATION Spec
INVARIANTS
  TypeOK
  ReadsOwnWrites
  JointConfigsSurvive
  NoCallIsStuck
PROPERTIES
  Linearizable
CHECK_DEADLOCK FALSE

CONSTANTS
  n1 = n1
  n2 = n2
  w1 = w1
  s1 = s1
  i1 = i1
  c1 = c1
  Node <- MCNode
  First <- MCFirst
  Writes <- MCWrites
  SafeReads <- MCSafeReads
  Inits <- MCInits
  Changes <- MCChanges
  MaxLength = 3
  MaxTerm = 2
  MaxStops = 1
SPECIFICATION Spec
INVARIANT MembershipChangesAnswered
CHECK_DEADLOCK FALSE

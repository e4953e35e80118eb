SPECIFICATION Spec
CONSTANTS
  None = None
  s1 = s1
  s2 = s2
  c1 = c1
  c2 = c2
  c3 = c3
  n1 = n1
  n2 = n2
  Slots <- MCSlots
  Conns <- MCConns
  Cnts <- MCCnts
  NEntries = 2
INVARIANTS AnswersGoHome AwaitedHasEntry
CONSTRAINT Unmixed
SYMMETRY Symmetric
CHECK_DEADLOCK FALSE

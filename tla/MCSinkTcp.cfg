SPECIFICATION Spec
CONSTANTS
  NSlots = 2
  c1 = c1  c2 = c2  c3 = c3
  f1 = f1  f2 = f2  f3 = f3
  Conns <- MCConns
  Fds <- MCFds
  None = None
INVARIANTS OwnSocket NoSocketLost SlotServed
PROPERTIES EndedIsFreed
CHECK_DEADLOCK FALSE

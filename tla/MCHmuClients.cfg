SPECIFICATION HCSpec
CONSTANTS
  Slots = {s1}
  Conns = {c1, c2}
  Fds = {f1, f2}
  Other = Other
  None = None
INVARIANTS OwnConnection AtMostOneLateHello LostOnlyIfRaced
PROPERTIES Greeted SlotsComeBack
CHECK_DEADLOCK FALSE

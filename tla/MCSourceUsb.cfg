SPECIFICATION Spec
CONSTANTS
  Senders = {t1, t2}
  QLen = 2
  Backlog = 2
  Stick = stick_task
  None = None
INVARIANTS ReadyMeansApp AtMostOneStrayTeardown AtMostOneStrayFrame
PROPERTY ComesBack
CHECK_DEADLOCK FALSE

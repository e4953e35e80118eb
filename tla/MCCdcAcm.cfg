SPECIFICATION Spec
CONSTANTS
  Pipes = {"in"}
  Sinks = {t1}
  Stick = stick_task
  None = None
INVARIANTS OkMeansSent BufferIsStill PolledOrTold
PROPERTIES LinkSpec GoneIsClosed
CHECK_DEADLOCK FALSE

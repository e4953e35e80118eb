SPECIFICATION Spec
CONSTANTS
  MaxRetry = 8
  MaxEvents = 2
  MaxLines = 2
  Offered = {"good", "bad"}
INVARIANTS NeverStranded SoftApHasRecovery
PROPERTIES Reachable Recovers
CHECK_DEADLOCK FALSE

SPECIFICATION Spec
CONSTANTS
  MaxRetry = 2
  MaxEvents = 2
  MaxLines = 2
  Offered = {}
PROPERTIES FallsBack
CHECK_DEADLOCK FALSE

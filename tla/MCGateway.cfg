SPECIFICATION GFairSpec
CONSTANTS
  usb = usb
  uart = uart
  hbrfeth = hbrfeth
  rawuart = rawuart
  Sources <- MCSources
  Sinks <- MCSinks
  SinkOrder <- MCSinkOrder
  Tasks <- MCTasks
  Who <- MCWho
  MaxSinks = 8
  IdleLimit = 0
  NoSource = NoSource
  NoSink = NoSink
INVARIANT AtMostOneStray
PROPERTIES CalmRounds Settles
CHECK_DEADLOCK FALSE

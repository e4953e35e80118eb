SPECIFICATION FairSpec
CONSTANTS
  usb = usb
  uart = uart
  hbrfeth = hbrfeth
  rawuart = rawuart
  Sources <- MCSources
  Sinks <- MCSinks
  Tasks <- MCTasks
  Who <- MCWho
  MaxSinks = 8
  IdleLimit = 2
  NoSource = NoSource
  NoSink = NoSink
INVARIANT AtMostOneLateChunk
PROPERTIES SwapDrains LeaseHonoured PinDrains Handover
CHECK_DEADLOCK FALSE

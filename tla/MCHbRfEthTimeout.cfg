SPECIFICATION Spec
CONSTANTS
  a1 = a1
  a2 = a2
  b1 = b1
  c1 = c1
  None = None
  NSlots = 2
  Addrs <- MCAddrs
  Ip <- MCIp
  Pumps <- MCPumps
  KaTimeout = 1
  MaxLag = 1
  Wrap = 256
PROPERTIES TimeoutMeansSilence
CHECK_DEADLOCK FALSE

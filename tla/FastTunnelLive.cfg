SPECIFICATION BusySpec
CONSTANTS
  Bridges = {b1}
  Conns = {c1, c2, c3}
  MaxNum = 3
  None = None
  MaxFaults = 2
  MaxCrashes = 0
  SilentFaults = TRUE
PROPERTIES ConvReclaimed TunnelComesUp
CHECK_DEADLOCK FALSE

SPECIFICATION Spec
CONSTANTS
  Bridges = {b1, b2}
  Conns = {c1, c2}
  MaxNum = 2
  None = None
  MaxFaults = 0
  MaxCrashes = 1
  SilentFaults = FALSE
INVARIANT ConvBindsOneConnection
CHECK_DEADLOCK FALSE

SPECIFICATION Spec
CONSTANTS
  SnMod = 16
  SndWnd = 2
  RcvWnd = 2
  FastResend = 2
  Mtu = 3
  MaxFrags = 2
  Lens <- OneUpAllDown
  MaxUnits <- OneUpThreeDown
  MaxNet <- TwoDown
  MaxAcks = 1
  MaxHeld = 2
  Reorders = TRUE
INVARIANTS WindowHolds
PROPERTY DownlinkIsFifo
CHECK_DEADLOCK FALSE

SPECIFICATION FairSpec
CONSTANTS
  SnMod = 16
  SndWnd = 1
  RcvWnd = 1
  FastResend = 1
  Mtu = 3
  MaxFrags = 1
  Lens <- OneOrTwo
  MaxUnits <- OneWay3
  MaxNet <- OneEach
  MaxAcks = 2
  MaxHeld = 0
  Reorders = FALSE
PROPERTIES UplinkIsFifo Settles
CHECK_DEADLOCK FALSE

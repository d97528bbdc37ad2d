SPECIFICATION FairDataSpec
CONSTANTS
  Bridges = {b1}
  Conns = {c1}
  MaxNum = 1
  None = None
  MaxFaults = 0
  MaxCrashes = 0
  SilentFaults = FALSE
  MaxUp = 2
  MaxDown = 1
  MaxData = 3
  LocalMayClose = FALSE
PROPERTY DownloadDelivered
CHECK_DEADLOCK FALSE

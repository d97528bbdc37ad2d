SPECIFICATION FairDataSpec
CONSTANTS
  Bridges = {b1}
  Conns = {c1, c2}
  MaxNum = 2
  None = None
  MaxFaults = 1
  MaxCrashes = 0
  SilentFaults = FALSE
  MaxUp = 3
  MaxDown = 2
  MaxData = 3
  LocalMayClose = TRUE
INVARIANTS UploadInOrder DownloadInOrder
PROPERTIES UploadIsFifo DownloadIsFifo UploadDelivered
CHECK_DEADLOCK FALSE

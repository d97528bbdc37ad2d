SPECIFICATION FairSpec
CONSTANTS
  Tunnels = {1, 2, 3}
  IsServer = TRUE
  Room = 1
  MaxGiven = 2
  This = 1
INVARIANTS
  WatchedWhileWaiting
PROPERTIES
  DatagramsInOrder
  NoneStarved

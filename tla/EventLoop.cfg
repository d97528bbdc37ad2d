SPECIFICATION FairSpec
CONSTANTS
  MaxBridges = 2
  MaxFds = 4
  FdSetSize = 4
  MaxTroubles = 3
  None = None
INVARIANTS TablesMatch OneOwner
PROPERTIES OnlyItsOwnEnd EndsAreNoticed
CHECK_DEADLOCK FALSE

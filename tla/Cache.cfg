SPECIFICATION Spec
CONSTANTS
  Lens = {1, 2}
  MaxInMem = 3
  MaxPackets = 5
  MaxDiskFaults = 2
INVARIANTS
  EmptyIsExact
  NeverTwice
PROPERTY IsFifo
CHECK_DEADLOCK FALSE

SPECIFICATION Spec
CONSTANTS
  Bridges = {b1, b2}
  Conns = {c1, c2, c3}
  MaxNum = 2
  None = None
  MaxFaults = 1
  MaxCrashes = 1
  SilentFaults = TRUE
SYMMETRY Symmetric
INVARIANTS
  TypeOK
  ConvPartition
  CreateFindsNoTunnel
  EndsAgree
  ConfirmedMeansRegistered
CHECK_DEADLOCK FALSE

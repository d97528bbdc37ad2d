SPECIFICATION Spec
CONSTANTS
  None = None
  ClockMod = 36
  Interval = 1
  Slap = 5
  Rtos <- MCRtos
  MaxRto = 3
  ProbeInit = 2
  ProbeLimit = 3
  MaxWait = 2
  HeartBeat = 4
  ConnCheck = 4
  MaxWork = 1
  MaxSegs = 2
  MaxAge = 34
  Naps <- MCNaps
INVARIANTS FlushesInTime ResendsInTime AsksInTime HeartBeatInTime SilenceIsNoticed
PROPERTY OnlySilentIsGivenUp

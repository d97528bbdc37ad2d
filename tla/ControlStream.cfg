SPECIFICATION FairControlSpec
CONSTANTS
  MaxSent = 4
  MaxPacket = 3
  Room = 2
  Block = 2
  Limit = 6
  MaxArrived = 10
  Base = 2
  HeadLen = 2
  MaxLen = 2
  Payloads <- MCPayloads
  MaxMsgs = 2
  Leftovers <- MCLeftovers
  Rests <- MCRests
INVARIANTS EventsMatch NothingWithheld
PROPERTIES StreamIsFifo DeliversInOrder Drains EndIsTold
CHECK_DEADLOCK FALSE

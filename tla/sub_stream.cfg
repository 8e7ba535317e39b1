SPECIFICATION FairSpec
CONSTANTS
  Length = 5
  Malformed = {4}
  MaxBuffer = 2
  Capacities = {0, 1}
  Owners = {u1, u2}
INVARIANTS
  TypeOK
  Gapless
  ErrChannelSafe
  EndIsTold
PROPERTIES
  StreamSpec
  OverflowMeansSlow
  DeliverReturns
  KeptUp
CHECK_DEADLOCK FALSE

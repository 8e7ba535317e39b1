SPECIFICATION Spec
CONSTANTS
  Length = 5
  Malformed = {4}
  MaxBuffer = 2
  Capacities = {0, 1}
  Owners = {u1}
INVARIANT OverflowIsTold
CHECK_DEADLOCK FALSE

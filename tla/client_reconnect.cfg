SPECIFICATION Spec
CONSTANTS
  x = x
  y = y
  z = z
  s1 = s1
  k1 = k1
  k2 = k2
  Calls = {x, y, z}
  Width <- MCWidth
  Subs = {}
  Cancellable <- MCNoCancel
  Unsubscribed = {}
  Faulty = {}
  MaxConns = 2
  MaxExtra = 0
  Closers = {k1}
INVARIANTS ReadEndSignalsOps
CHECK_DEADLOCK FALSE

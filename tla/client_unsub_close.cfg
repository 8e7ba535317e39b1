SPECIFICATION FairSpec
CONSTANTS
  x = x
  y = y
  z = z
  s1 = s1
  k1 = k1
  k2 = k2
  Calls = {}
  Width <- MCWidth
  Subs = {s1}
  Cancellable <- MCNoCancel
  Unsubscribed = {s1}
  Faulty = {}
  MaxConns = 1
  MaxExtra = 0
  Closers = {k1}
PROPERTIES CloseReturns
CHECK_DEADLOCK FALSE

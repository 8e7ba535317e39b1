SPECIFICATION FairSpec
CONSTANTS
  x = x
  y = y
  z = z
  s1 = s1
  k1 = k1
  k2 = k2
  Calls = {x}
  Width <- MCWidth
  Subs = {s1}
  Cancellable <- MCNoCancel
  Unsubscribed = {}
  Faulty = {}
  MaxConns = 1
  MaxExtra = 1
  Closers = {k1}
PROPERTIES CloseReturns CloseAborts LossReleasesOps LossReachesSubs
INVARIANTS ReadEndSignalsOps
CHECK_DEADLOCK FALSE

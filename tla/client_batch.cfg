SPECIFICATION Spec
CONSTANTS
  x = x
  y = y
  z = z
  s1 = s1
  k1 = k1
  k2 = k2
  Calls = {y, z}
  Width <- MCWidth
  Subs = {}
  Cancellable <- MCCancellable
  Unsubscribed = {}
  Faulty = {}
  MaxConns = 2
  MaxExtra = 1
  Closers = {k1, k2}
INVARIANTS AnsweredOnce NoLostWakeup
CHECK_DEADLOCK FALSE

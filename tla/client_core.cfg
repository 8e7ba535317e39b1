SPECIFICATION Spec
CONSTANTS
  x = x
  y = y
  z = z
  s1 = s1
  k1 = k1
  k2 = k2
  Calls = {x}
  Width <- MCWidth
  Subs = {s1}
  Cancellable <- MCCancellable
  Unsubscribed = {s1}
  Faulty = {s1}
  MaxConns = 2
  MaxExtra = 1
  Closers = {k1}
INVARIANTS TypeOK WriteLock NoPanicOnResp OkIsAnswered OneReader ErrChannelSafe NoConnLeak QuitIsClean
PROPERTIES CallSpec
CHECK_DEADLOCK FALSE

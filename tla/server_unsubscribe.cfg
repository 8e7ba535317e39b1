SPECIFICATION Spec
CONSTANTS
  m1 = m1
  m2 = m2
  m3 = m3
  s1 = s1
  u1 = u1
  u2 = u2
  k1 = k1
  c1 = c1
  h1 = h1
  None = None
  Conns = {c1, h1}
  Single = {h1}
  Msgs = {m1, m2, m3}
  Reqs = {s1, u1, u2, k1}
  Body <- MCBody
  MsgOf <- MCMsgOf
  Kind <- MCKind
  Target <- MCTarget
INVARIANTS UnsubscribeCancels
CHECK_DEADLOCK FALSE

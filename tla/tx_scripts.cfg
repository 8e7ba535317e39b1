SPECIFICATION Spec
CONSTANTS
  Scripts = {"tool", "transfer", "callsol", "adder"}
  MaxNonce = 4
  StopCap = 10
  TxNum = 3
  Adds = 4
INVARIANTS NoGap GapStaysOpen DrainNeverBlocks PaidOnce
CHECK_DEADLOCK FALSE

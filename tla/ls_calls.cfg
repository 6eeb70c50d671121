SPECIFICATION Spec
CONSTANTS
  c1 = c1
  c2 = c2
  b1 = b1
  b2 = b2
  w1 = w1
  w2 = w2
  NoCaller = NoCaller
  NoBlock = NoBlock
  Callers = {c1, c2}
  Workers = {w1, w2}
  Blocks = {b1, b2}
  BlockOrder <- Order
  Blocking = {b1}
  owner <- Owner
  mayCall <- Calls
  MaxCalls = 4
  HooksThrow = TRUE
  ConnectFails = TRUE
CHECK_DEADLOCK FALSE
INVARIANTS StopReachesEveryBlock ErrorLeavesNothingRunning

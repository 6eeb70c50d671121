SPECIFICATION FairSpec
CONSTANTS
  c1 = c1
  c2 = c2
  b1 = b1
  b2 = b2
  w1 = w1
  w2 = w2
  NoCaller = NoCaller
  NoBlock = NoBlock
  Callers = {c1, c2}
  Workers = {w1, w2}
  Blocks = {b1, b2}
  BlockOrder <- Order
  Blocking = {b1}
  owner <- Owner
  mayCall <- InPairs
  MaxCalls = 3
  HooksThrow = FALSE
  ConnectFails = FALSE
CHECK_DEADLOCK FALSE
INVARIANT EveryChildOrNone
PROPERTY EveryCallReturns

SPECIFICATION WorkersSpec
CONSTANTS
  w1 = w1
  w2 = w2
  b1 = b1
  b2 = b2
  b3 = b3
  c1 = c1
  NoWorker = NoWorker
  NoBlock = NoBlock
  NoThread = NoThread
  Workers = {w1, w2}
  Blocks = {b1, b2, b3}
  initial <- Initial
  Blocking = {b1}
  StartFails = TRUE
  MaxEdits = 3
  MayStop = TRUE
  ParkWorkers = {w1, w2}
  NextOf <- MCNextOf
  Clients = {c1}
  Setups <- MCSetups
  MaxMessages = 1
  MaxCalls = 2
  MaxRuns = 2
CHECK_DEADLOCK FALSE
INVARIANTS OneHolderPerBlock NothingWaitsForParked

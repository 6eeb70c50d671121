SPECIFICATION Spec
CONSTANTS
  LockThreads = {t1, t2, t3}
  BitThreads = {b1, b2}
  BitsPerWord = 2
  BitSize = 5
  HistoryValues = {a, b}
  Blank = Blank
  Capacities = {1, 2, 3}
  RangeLengths = {2}
  SegReaders = {r1, r2}
  SegSizes = {2}
  SegmentSlots = 1
  InitialLength = 1
  MaxPosition = 3
  PoolCallers = {s1, s2}
  Ids = {1, 2, 3}
  PoolBounds <- MCPoolBounds
  Priorities = {0, 1}
  Policies = {"other", "fifo"}
  MaxTasks = 2
  MaxSets = 1
  MaxRefusals = 1
SYMMETRY MCSymmetry
CHECK_DEADLOCK FALSE
INVARIANTS LockExcludes BitsAsCalled ReadsHistory SegmentsKept PoolAccounted

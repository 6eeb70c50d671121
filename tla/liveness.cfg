SPECIFICATION LiveSpec
CONSTANTS
  in1 = in1
  in2 = in2
  Ins = {in1, in2}
  Configs <- LiveConfigs
  TagRing = 3
  StallLimit = 2
  MaxBurst = 2
  MaxTags = 2
  TakesSilently = FALSE
  PoolCallers = {s1, s2}
  Ids = {1, 2, 3}
  PoolBounds <- MCPoolBounds
  Priorities = {0}
  Policies = {"other"}
  MaxTasks = 2
  MaxSets = 1
  MaxRefusals = 1
  w1 = w1
  w2 = w2
  x = x
  y = y
  outer = outer
  sub = sub
  NoThread = NoThread
  Workers = {w1, w2}
  Outside = {x}
  Schedulers = {outer}
  home <- OneHome
  SubsOf <- NoSubs
  Reach <- OwnOnly
  Edits = TRUE
CHECK_DEADLOCK FALSE
INVARIANT NoWorkDuringPlainRequest
PROPERTIES StreamEnds PoolCallsReturn GrantSeesOnlyCallers WorkersReturn

SPECIFICATION FairSpec
CONSTANTS
  w1 = w1
  w2 = w2
  x = x
  y = y
  outer = outer
  sub = sub
  NoThread = NoThread
  Workers = {w1, w2}
  Outside = {x}
  Schedulers = {outer, sub}
  home <- NestHome
  SubsOf <- Nested
  Reach <- OwnOnly
  Edits = TRUE
CHECK_DEADLOCK FALSE
PROPERTY EveryRequestIsGranted

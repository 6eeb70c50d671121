SPECIFICATION ContentionSpec
CONSTANTS
  p1 = p1
  p2 = p2
  r1 = r1
  r2 = r2
  Producers = {p1, p2}
  Readers = {r1}
  Residents = {r1}
  Blocking = {p1}
  Size = 2
  PartialPublish = FALSE
  MaxCursor = 4
  t1 = t1
  t2 = t2
  w1 = w1
  w2 = w2
  Nobody = Nobody
INVARIANTS TypeOK ClaimsKeepResidents UnreadSamplesIntact NothingLeftUnpublished GraphIsLeftAlone StopHolds
PROPERTY ImplementsLog

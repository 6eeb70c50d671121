SPECIFICATION Spec
CONSTANTS
  p1 = p1
  p2 = p2
  r1 = r1
  r2 = r2
  Producers = {p1}
  Readers = {r1, r2}
  Residents = {}
  Blocking = {p1}
  Size = 2
  PartialPublish = TRUE
  MaxCursor = 4
INVARIANTS CachedMinIsLowerBound
SYMMETRY Symmetry

SPECIFICATION Spec
CONSTANTS
  Keys = {"x"}
  Values = {0, 1, 2}
  Fields = {0, 2}
  Forbidden = {2}
  Contexts = {"c"}
  Appliers = {"work", "caller"}
  MaxTime = 2
  MaxContexts = 2
  MaxPending = 1
  MaxCalls = 3
  SameInstant = FALSE
  p = p
  q = q
  r = r
  a = a
  b = b
  c = c
  x = x
  y = y
  None = None
  Blocks = {p, q, r}
  Outs = {a, b, c}
  Ins = {x, y}
  Holder <- MCHolder
  Pairs <- MCPairs
  Optional = {c}
  Namings = {"index", "name"}
  Removable = {r}
  Replaceable = {q}
  ResumeIntoEnded = FALSE
  MaxEdits = 4
  u = u
  i = i
  d = d
  g = g
  o1 = o1
  o2 = o2
  Nodes <- MCNodes
  Outputs = {o1, o2}
  Takes <- MCTakes
  Gives <- MCGives
  Graphs <- MCGraphs
  Capacity = 4
  MaxPrimings = 2
  MaxThreads = 4
CHECK_DEADLOCK FALSE
INVARIANTS SettingsCoherent SetStopsFollowing WiringKept NoLoopStarves JobListsShareBlocks
PROPERTY PresentSetKept

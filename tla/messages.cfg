SPECIFICATION Spec
CONSTANTS
  c1 = c1
  Children = {c1}
  MessageSlots = 1
  Requests <- MCRequests
  MaxSends = 2
  MaxNotes = 1
  MaxConnects = 2
  NoThread = NoThread
  ChunkSize = 2
  MaxLate = 1
  MaxClock = 8
  MaxPauses = 1
  NoTick = NoTick
CHECK_DEADLOCK FALSE
INVARIANTS RequestsAnsweredInOrder TaskBelongsToRun

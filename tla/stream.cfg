SPECIFICATION SceneSpec
CONSTANTS
  e1 = e1
  e2 = e2
  c1 = c1
  c2 = c2
  NoEvent = NoEvent
  Emitters = {e1, e2}
  Clients = {c1, c2}
  MaxTurns = 2
  MaxChunks = 2
  Faults = {"store", "drop", "timeout"}
INVARIANTS
  TypeOK
  EndsCompletely
  CatchesUp
CHECK_DEADLOCK FALSE
PROPERTIES
  ChatStreamEnds

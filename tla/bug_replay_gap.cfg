SPECIFICATION SceneSpec
CONSTANTS
  e1 = e1
  e2 = e2
  c1 = c1
  c2 = c2
  NoEvent = NoEvent
  Emitters = {e1, e2}
  Clients = {c1, c2}
  MaxTurns = 1
  MaxChunks = 2
  Faults = {"drop"}
INVARIANTS
  NothingMissed
CHECK_DEADLOCK FALSE

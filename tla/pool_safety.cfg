SPECIFICATION Spec
CONSTANTS
  Ids = {i1}
  Objs = {o1, o2}
  NoObj = NoObj
  NoId = NoId
  u1 = u1
  Users = {u1}
  Owner <- OneOwner
  MaxSessions = 2
  MaxPerUser = 2
  MaxQueue = 1
  Events = {"shutdown", "delete", "die", "interrupt"}
SYMMETRY ObjSymmetry
INVARIANTS
  TypeOK
  ReaperSparesWork
PROPERTIES
  KeepsLife
  DeletedStaysHidden
CHECK_DEADLOCK FALSE

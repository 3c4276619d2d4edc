SPECIFICATION FairSpec
CONSTANTS
  Ids = {i1}
  Objs = {o1}
  NoObj = NoObj
  NoId = NoId
  u1 = u1
  Users = {u1}
  Owner <- OneOwner
  MaxSessions = 2
  MaxPerUser = 2
  MaxQueue = 2
  Events = {"shutdown"}
PROPERTIES
  ShutdownReturns
CHECK_DEADLOCK FALSE

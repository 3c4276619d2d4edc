SPECIFICATION FairSpec
CONSTANTS
  Ids = {i1}
  Objs = {o1, o2, o3}
  NoObj = NoObj
  NoId = NoId
  u1 = u1
  Users = {u1}
  Owner <- OneOwner
  MaxSessions = 2
  MaxPerUser = 2
  MaxQueue = 2
  Events = {}
INVARIANTS
  SingleServer
PROPERTIES
  AcceptedIsProcessed

SPECIFICATION FairSpec
CONSTANTS
  Untouched = 2
  MaxCalls = 2
  MaxSubs = 3
  MaxEdits = 2
  MaxQueue = 2
  MaxIter = 1
INVARIANTS
  TypeOK
  RequestIsPaired
  RunsOnlyAllowed
PROPERTIES
  RunsOnce
  EndsOnce
  InterruptEndsTurn
CHECK_DEADLOCK FALSE

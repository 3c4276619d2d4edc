SPECIFICATION Spec
CONSTANTS
  Untouched = 2
  MaxCalls = 1
  MaxSubs = 3
  MaxEdits = 1
  MaxQueue = 1
  MaxIter = 1
PROPERTIES
  AbandonKeepsHistory
CHECK_DEADLOCK FALSE

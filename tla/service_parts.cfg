SPECIFICATION PartsSpec
CONSTANTS
  Dests = {"d1", "d2"}
  ToolDests = {"d1"}
  AutoDests = {"d1", "d2"}
  Defer = TRUE
  Retries = 1
  MaxRequests = 4
  CreateCalls = {"c"}
  Enders = {"evict"}
  Restorers = {"r"}
  MaxSpaces = 2
  SandboxTries = 1
  Savers = {"loop", "thread"}
  Formats = {"row", "personal"}
  Procs <- SomeProcs
  UploadTries = 1
  MaxVersion = 2
  MaxSaves = 2
  Commands = {"input", "undo", "compact", "local"}
  MaxTyped = 3
INVARIANTS
  PartsTypeOK
  NoSpaceIsLost
  SuccessIsCurrent
  PromptMeansIdle
PROPERTIES
  KeepsPromise
  CloseReturns
  QuitEnds
CHECK_DEADLOCK FALSE

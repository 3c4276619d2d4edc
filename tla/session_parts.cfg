SPECIFICATION PartsSpec
CONSTANTS
  Prices = {0, 1, 2}
  Caps = {0, 1, 3}
  Default = 2
  MaxBatch = 2
  MaxSpent = 3
  GuardedCalls <- SomeCalls
  MaxParallel = 2
  MaxTurns = 1
  MaxIterations = 3
  MinBudget = 2
  Challenges = 1
  Threshold = 3
  Lookback = 10
  MaxRecords = 2
  Alphabet = {"-", "en-dash", "zero-width space", "blank", "line break"}
  MaxContent = 3
  MaxPattern = 2
  Callers = {"c1", "c2"}
  HttpAttempts = 2
  MaxCalls = 3
  LlmSessions = {"s1"}
  LlmModels = {"custom", "plain", "router"}
  Custom = {"custom"}
  LlmAttempts = 3
  MaxLlmCalls = 1
  Cascade <- Efforts
  Surface <- KnownEfforts
  Accepts <- AcceptedEfforts
  ApiKey <- Keys
  Writers = {"turn", "route", "reaper"}
  Edits = {"append", "undo", "compact"}
  Faults = {"write", "crash"}
  MaxLen = 2
  MaxMsg = 3
  SkillNames = {"a"}
  SkillSessions = {"s1", "s2", "s3"}
  RunningSessions = {"s1", "s2"}
  SkillRequests = {"r1", "r2"}
  Docker = TRUE
  MaxChanges = 2
  SaveInterval = 2
  Reflects = TRUE
  MaxTurnsTaken = 2
  MaxChats = 3
  MaxLogs = 2
  ToolCalls = {"c1", "c2"}
  ScriptThreads = {"x"}
  MaxTexts = 2
  MaxHubOps = 3
INVARIANTS
  PartsTypeOK
  AckedPrefixSurvives
  SettledIsSaved
  RepeatersAreTold
  WholeLinesAgree
  LocalEditsStay
  ReplaysForRepairs
  HealSuffices
  DisabledIsHidden
  KnownIsMarked
PROPERTIES
  CapHolds
  LedgerDropsOldest
  EventsSurvive
CHECK_DEADLOCK FALSE

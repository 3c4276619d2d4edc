SPECIFICATION Spec
CONSTANTS
  Writers = {"route", "turn", "reaper"}
  Edits = {"append", "undo", "compact"}
  Faults = {}
  MaxLen = 3
  MaxMsg = 4
PROPERTIES
  EvictedSnapshotLanded
CHECK_DEADLOCK FALSE

SPECIFICATION LiveSpec
CONSTANTS
  Planners = {}
  Manual = {}
  Tools = {"t1", "t2"}
  Bytes = {"x"}
  MaxFiles = 3
  Edits = 0
  Faults = 2
  Built = FALSE
  LostAnswer = FALSE
  NoOne = NoOne
INVARIANTS
  GaplessHistory
PROPERTIES
  LockIsFreed
CHECK_DEADLOCK FALSE

SPECIFICATION Spec
CONSTANTS
  Planners = {}
  Manual = {}
  Tools = {"t"}
  Bytes = {"x"}
  MaxFiles = 2
  Edits = 0
  Faults = 1
  Built = FALSE
  LostAnswer = FALSE
  NoOne = NoOne
INVARIANTS
  AfterShowsCommitted
CHECK_DEADLOCK FALSE

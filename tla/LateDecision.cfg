SPECIFICATION Spec
CONSTANTS
  NodeCount = 2
  Versions = {1}
  Plan <- Whole
  Kind <- GateFirst
  Attempts <- Once
  Jump <- Straight
  Action <- Defaults
  Timed = {1}
  Pinned = FALSE
  MaxExecs = 1
  Callers = {c1}
  Routes = {"decide"}
  MaxLost = 0
  MaxReplays = 0
  MaxKids = 0
CHECK_DEADLOCK FALSE
INVARIANTS DecisionOnRecord

SPECIFICATION Spec
CONSTANTS
  NodeCount = 1
  Versions = {1}
  Plan <- Whole
  Kind <- OneTool
  Attempts <- Once
  Jump <- Straight
  Action <- Defaults
  Timed = {}
  Pinned = FALSE
  MaxExecs = 3
  Callers = {c1, c2}
  Routes = {"recover"}
  MaxLost = 1
  MaxReplays = 0
  MaxKids = 0
CHECK_DEADLOCK FALSE
PROPERTIES CompletedNodesStay

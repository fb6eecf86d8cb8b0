\* A gate, a child workflow that can be cancelled, too, and a tool, with a recovery.
SPECIFICATION Spec
CONSTANTS
  NodeCount = 3
  Versions = {1}
  Plan <- Whole
  Kind <- GateChildTool
  Attempts <- Twice
  Jump <- Straight
  Action <- Defaults
  Timed = {1}
  Pinned = TRUE
  MaxExecs = 2
  Callers = {c1}
  Routes = {"cancel","decide","recover"}
  MaxLost = 1
  MaxReplays = 0
  MaxKids = 3
INVARIANTS
  GateHolds
  OncePerExecution
  CompletedOnChild
  CompletedRunIsWhole
  AcknowledgedOnce
CHECK_DEADLOCK FALSE

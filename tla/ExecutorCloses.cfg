\* Liveness of a definition with a loop, an approval and a repeated ledger call.
SPECIFICATION LiveSpec
CONSTANTS
  NodeCount = 3
  Versions = {1, 2}
  Plan <- TailOfNew
  Kind <- Looping
  Attempts <- FirstTwice
  Jump <- JumpBack
  Action <- Defaults
  Timed = {3}
  Pinned = FALSE
  MaxExecs = 2
  Callers = {c1}
  Routes = {"decide", "terminate", "publish", "retry"}
  MaxLost = 1
  MaxReplays = 1
  MaxKids = 0
PROPERTIES
  EveryExecutionCloses
CHECK_DEADLOCK FALSE

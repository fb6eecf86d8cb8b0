SPECIFICATION Spec
CONSTANTS
  Workers = {w1, w2}
  Operators = {o1}
  Schedules = {1}
  Commands = {"queue"}
  MaxConcurrent = 1
  MaxDue = 1
  Interval = 1
  MaxTime = 1
  MaxCommands = 0
  MaxRuns = 2
  MaxLosses = 0
INVARIANTS
  RespectsConcurrency
CHECK_DEADLOCK FALSE

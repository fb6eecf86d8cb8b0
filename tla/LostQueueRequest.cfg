SPECIFICATION Spec
CONSTANTS
  Workers = {w1}
  Operators = {o1}
  Schedules = {1}
  Commands = {"queue"}
  MaxConcurrent = 1
  MaxDue = 1
  Interval = 1
  MaxTime = 1
  MaxCommands = 1
  MaxRuns = 1
  MaxLosses = 0
PROPERTIES
  QueueRequestIsServed
CHECK_DEADLOCK FALSE

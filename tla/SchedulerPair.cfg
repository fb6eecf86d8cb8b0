\* Two nodes on two schedules, with an operator who withdraws one.
SPECIFICATION DueSpec
CONSTANTS
  Workers = {w1, w2}
  Operators = {o1}
  Schedules = {1, 2}
  Commands = {"disable", "delete"}
  MaxConcurrent = 1
  MaxDue = 2
  Interval = 1
  MaxTime = 1
  MaxCommands = 1
  MaxRuns = 3
  MaxLosses = 1
SYMMETRY WorkerSymmetry
INVARIANTS
  OverlapIsBounded
  OrphansAreLosses
  FailedIsNotified
PROPERTIES
  NoRunAfterWithdrawal
CHECK_DEADLOCK FALSE

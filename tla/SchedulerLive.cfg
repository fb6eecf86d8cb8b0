SPECIFICATION FairSpec
CONSTANTS
  Workers = {w1}
  Operators = {o1}
  Schedules = {1, 2}
  Commands = {"queue","unqueue","disable"}
  MaxConcurrent = 1
  MaxDue = 1
  Interval = 1
  MaxTime = 1
  MaxCommands = 1
  MaxRuns = 4
  MaxLosses = 0
PROPERTIES
  DueIsClaimed
  ClaimedRunEnds
CHECK_DEADLOCK FALSE

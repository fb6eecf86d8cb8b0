SPECIFICATION Spec
CONSTANTS
  Dispatchers = {d1}
  MaxMains = 2
  MaxRecoveries = 0
  MaxAttempts = 1
  MaxFaults = 1
  RunCases = {"provider"}
  StopRoutes = {}
INVARIANT OneExecutionPerRun
CHECK_DEADLOCK FALSE

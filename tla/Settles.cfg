\* Liveness under fair dispatchers and executions.
SPECIFICATION FairSpec
CONSTANTS
  Dispatchers = {d1}
  MaxMains = 2
  MaxRecoveries = 0
  MaxAttempts = 2
  MaxFaults = 1
  RunCases = {"provider", "user-input-success"}
  StopRoutes = {"run", "root"}
PROPERTIES
  EventuallySettles

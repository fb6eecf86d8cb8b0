SPECIFICATION Spec
CONSTANTS
  Dispatchers = {d1}
  MaxMains = 1
  MaxRecoveries = 1
  MaxAttempts = 1
  MaxFaults = 1
  RunCases = {"provider"}
  StopRoutes = {}
INVARIANT MissingEvidenceNeverCompletes
CHECK_DEADLOCK FALSE

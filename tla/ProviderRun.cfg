\* Every outcome of a provider run and of a fixture run, with one recovery.
SPECIFICATION Spec
CONSTANTS
  Dispatchers = {d1}
  MaxMains = 2
  MaxRecoveries = 1
  MaxAttempts = 2
  MaxFaults = 1
  RunCases = {"provider","persistent-delayed-usage", "ephemeral-absent-usage", "ambiguous-send",
              "rejected-before-acceptance", "user-input-success"}
  StopRoutes = {"run", "root"}
INVARIANTS
  SubmittedAtMostOnce
  QuiescentWhenReleased
  CompletedOnlyOnEvidence
  CompletedOnlyIfAnswered
  NoAuthorityAfterEnd
PROPERTIES
  ImplementsLifecycle

\* One approval-gated effect: two attempts, two calls, two faults.
SPECIFICATION FairSpec
CONSTANTS
  Kinds <- AllKinds
  MaxAttempts = 2
  MaxCalls = 2
  MaxFaults = 2
INVARIANTS
  RefusedIsNotDispatchable
  StartedOnlyIfApproved
  StartedAtMostOnce
PROPERTIES
  ImplementsEffect
  WorkflowEnds
CHECK_DEADLOCK FALSE

\* An upgrade, a reviewed plan and a file applied by hand on one database.
SPECIFICATION Spec
CONSTANTS
  Planners = {"p"}
  Manual = {"m"}
  Tools = {"t"}
  Bytes = {"x", "y"}
  MaxFiles = 2
  Edits = 1
  Faults = 1
  Built = TRUE
  LostAnswer = TRUE
  NoOne = NoOne
INVARIANTS
  OutcomesTrue
  DoneIsDone
  FailedIsNotLedgered
  ReviewedOnly
PROPERTIES
  OnKnownGround
CHECK_DEADLOCK FALSE

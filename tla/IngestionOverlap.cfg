\* Two ordinary commands and a recovery that may overlap.
SPECIFICATION IngestionSpec
CONSTANTS
  Assets = {1}
  Loaders = {"c1","c2"}
  Recoverers = {"r1"}
  Tracked = {"c1"}
  Width = 1
  Values = {5}
  MaxDate = 2
  Moves = 2
  MaxTries = 1
  BlockRegression = TRUE
  Overlap = TRUE
  Faults = 1
INVARIANTS
  RecoveredForReal
  SuccessIsLoaded
  NeverBehind
CHECK_DEADLOCK FALSE

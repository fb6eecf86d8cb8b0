SPECIFICATION IngestionSpec
CONSTANTS
  Assets = {1}
  Loaders = {"c1"}
  Recoverers = {}
  Tracked = {}
  Width = 2
  Values = {5, 6}
  MaxDate = 2
  Moves = 1
  MaxTries = 1
  BlockRegression = FALSE
  Overlap = FALSE
  Faults = 1
INVARIANTS
  ChangesAudited
CHECK_DEADLOCK FALSE

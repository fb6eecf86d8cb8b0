SPECIFICATION LiveSpec
CONSTANTS
  Assets = {1}
  Loaders = {"c1"}
  Recoverers = {"r1"}
  Tracked = {"r1"}
  Width = 2
  Values = {5, 6}
  MaxDate = 2
  Moves = 0
  MaxTries = 1
  BlockRegression = FALSE
  Overlap = FALSE
  Faults = 1
PROPERTIES
  RecoveryCloses
CHECK_DEADLOCK FALSE

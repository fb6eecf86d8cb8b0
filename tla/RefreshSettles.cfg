SPECIFICATION LiveSpec
CONSTANTS
  a = a
  b = b
  x = x
  K = "TEMPORAL"
  Starts = {a, b}
  Readers = {r1}
  Others = {}
  Controllers = {}
  Kind <- KindOf
  Key <- OneKey
  MaxGen = 2
  Crashes = 0
  Faults = 0
  Stops = 1
PROPERTIES
  AcceptedSettles
CHECK_DEADLOCK FALSE

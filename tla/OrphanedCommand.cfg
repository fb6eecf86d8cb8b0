SPECIFICATION Spec
CONSTANTS
  a = a
  b = b
  x = x
  K = "SERVICES"
  Starts = {a}
  Readers = {r1}
  Others = {x}
  Controllers = {k1}
  Kind <- KindOf
  Key <- OneKey
  MaxGen = 1
  Crashes = 1
  Faults = 0
  Stops = 0
INVARIANTS
  OneCommand
CHECK_DEADLOCK FALSE

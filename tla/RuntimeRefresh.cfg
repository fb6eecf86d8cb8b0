\* Two refreshes, a control of the operator's and a restarted Supervisor.
SPECIFICATION Spec
CONSTANTS
  a = a
  b = b
  x = x
  K = "SERVICES"
  Starts = {a, b}
  Readers = {r1}
  Others = {x}
  Controllers = {k1}
  Kind <- Mixed
  Key <- OneKey
  MaxGen = 2
  Crashes = 1
  Faults = 0
  Stops = 1
INVARIANTS
  DispatchedOnce
  SucceededOnRecord
PROPERTIES
  TerminalStays
CHECK_DEADLOCK FALSE

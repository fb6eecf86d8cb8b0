\* A session opened, continued, archived and recovered.
SPECIFICATION Spec
CONSTANTS
  k1 = k1
  k2 = k2
  k3 = k3
  k4 = k4
  s1 = s1
  s2 = s2
  c1 = c1
  c2 = c2
  Sessions = {s1}
  Keys = {k1, k3}
  Opens <- OpenKeys
  Target <- TargetOf
  Callers = {c1}
  Routes = {"cancel", "recover", "revalidate", "archive"}
  MaxGen = 1
  MaxFaults = 1
INVARIANTS
  FreeRunIsIdle
PROPERTIES
  ContinuesOnCertainty
  ArchivedStaysQuiet
CHECK_DEADLOCK FALSE

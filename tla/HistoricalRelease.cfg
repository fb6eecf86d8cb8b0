\* A quarantined turn of an earlier runtime generation, released by an operator.
SPECIFICATION Spec
CONSTANTS
  k1 = k1
  k2 = k2
  k3 = k3
  k4 = k4
  s1 = s1
  s2 = s2
  c1 = c1
  c2 = c2
  Sessions = {s1}
  Keys = {k1, k3}
  Opens <- OpenKeys
  Target <- TargetOf
  Callers = {c1}
  Routes = {"cancel", "revalidate", "release", "residue", "archive"}
  MaxGen = 2
  MaxFaults = 1
INVARIANTS
  NoAuthorityAfterRelease
CHECK_DEADLOCK FALSE

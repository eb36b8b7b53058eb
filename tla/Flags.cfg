CONSTANTS
  i1 = i1
  i2 = i2
  k1 = k1
  k2 = k2
  p1 = p1
  p2 = p2
  p3 = p3
  NoProc = NoProc
  Ids = {i1, i2}
  Keys = {k1, k2}
  Procs = {p1, p2}
  Full = 3
  BackOffice = TRUE
SPECIFICATION Spec
SYMMETRY Symmetry
INVARIANTS
  KeysAreUnique
  RolloutIsExact
PROPERTIES
  ServiceChangesAreExact
  RolloutIsSticky
CHECK_DEADLOCK FALSE

CONSTANTS
  k1 = k1
  k2 = k2
  u1 = u1
  u2 = u2
  n1 = n1
  p1 = p1
  p2 = p2
  p3 = p3
  NoKey = NoKey
  Keys = {k1}
  Users = {u1, u2}
  Names = {n1}
  Procs = {p1, p2}
  Tables <- SmallTables
  Requests <- Changes
SPECIFICATION Spec
SYMMETRY Symmetry
INVARIANTS
  RevocationIsEffective
  IssuedIsScoped
PROPERTIES
  RevocationSticks
CHECK_DEADLOCK FALSE

CONSTANTS
  u1 = u1
  u2 = u2
  NoUser = NoUser
  Seeder = Seeder
  c1 = c1
  r1 = r1
  r2 = r2
  r3 = r3
  Users = {u1, u2}
  Cases = {c1}
  Requests = {r1, r2, r3}
SPECIFICATION Spec
SYMMETRY Symmetry
INVARIANTS
  HolderMatchesState
  TrailEndsAtTheRow
  NobodySignsOffTheirOwnWork
  ButtonsMatchService
PROPERTIES
  ChangeIsAudited
  AtomicUnlessStale
  RulesHoldUnlessStale
CHECK_DEADLOCK FALSE

CONSTANTS
  u1 = u1
  u2 = u2
  t1 = t1
  t2 = t2
  t3 = t3
  p1 = p1
  p2 = p2
  p3 = p3
  NoProc = NoProc
  Users = {u1}
  Tickets = {t1, t2, t3}
  Procs = {p1, p2}
  MaxPerDay = 1
SPECIFICATION FairSpec
INVARIANTS
  RowTellsWhatWasPaid
  NobodyWaitsForDevin
PROPERTIES
  KeepsDailyLimit
  KeepsPromise
  EveryRequestEnds
  ClaimIsSettled
CHECK_DEADLOCK FALSE

SPECIFICATION Spec
CONSTANTS
  u1 = u1
  b1 = b1
  p1 = p1
  p2 = p2
  p3 = p3
  NoUser = NoUser
  NoSession = NoSession
  AdminPerm = "platform.admin"
  Perms = {"platform.admin", "tool"}
  Users = {u1}
  Browsers = {b1}
  Procs = {p1, p2, p3}
  Grants <- SomeGrants
  Plans <- SignIns
INVARIANTS
  AccessIsCurrent
  EntriesAreRecorded
  LogoutIsFinal
CHECK_DEADLOCK FALSE

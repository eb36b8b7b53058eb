CONSTANTS
  p1 = p1
  p2 = p2
  p3 = p3
  Procs = {p1, p2, p3}
  Limit = 1
  Period = 2
  Backends = {"redis", "memcached"}
  Configured = "closed"
  Policies = {"closed"}
  Patience = 2
  Retries = 1
  MaxClock = 4
SPECIFICATION Spec
SYMMETRY Symmetry
INVARIANTS
  StragglersOnRedis
  RefusalsAreEarned
PROPERTIES
  KeepsQuota
CHECK_DEADLOCK FALSE

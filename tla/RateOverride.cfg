CONSTANTS
  p1 = p1
  p2 = p2
  Procs = {p1, p2}
  Limit = 1
  Period = 2
  Backends = {"redis"}
  Configured = "closed"
  Policies = {"open", "closed"}
  Patience = 2
  Retries = 0
  MaxClock = 1
SPECIFICATION Spec
SYMMETRY Symmetry
INVARIANT
  OverridesAreTemporary
CHECK_DEADLOCK FALSE

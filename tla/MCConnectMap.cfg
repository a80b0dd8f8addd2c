SPECIFICATION Spec
CONSTANTS
  Threads = {t1, t2}
  Servers = {1, 2}
  Fds = {3, 4}
  Config <- MCConfig
  ResourceMax = 2
  ModuleMax = 2
  SockMax = 2
  HealthLine = 1
  RetryLine = 2
  Boundary = 3
  Magic = 29
  Punish = TRUE
  Deadline = 0
  Interval = 1
  SeedMod = 2
  MaxTime = 1
  MaxDels = 1
SYMMETRY Symmetry
INVARIANTS OwnSocket NeverGivenUp
CHECK_DEADLOCK FALSE

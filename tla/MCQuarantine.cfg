SPECIFICATION Spec
CONSTANTS
  Ips = {a, b, c}
  Durations = {1, 2}
  MaxEntries = 1
  QueueCapacity = 1
  Threads = {t1, t2}
  Fails = TRUE
  MaxOps = 3
  MaxTime = 1
SYMMETRY Symmetry
INVARIANT TableBound
INVARIANT BanHolds
INVARIANT HostFollowsTable
CHECK_DEADLOCK FALSE

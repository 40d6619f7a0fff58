SPECIFICATION Spec
CONSTANTS
  Hosts = {h1, h2}
  WideOf <- MCWideOf
  Prefixes = {"32"}
  DefaultPrefix = "32"
  Allowlist = {}
  Enforce = TRUE
  RateLimit = 2
  RateWindow = 1
  Ttls = {1}
  MaxEntries = 2
  SweepInterval = 2
  BootTime = 10
  Tasks = {t1}
  Inodes = {i1, i2, i3}
  MaxTime = 12
  MaxOps = 2
SYMMETRY Symmetry
INVARIANT ExpiredStopsMatching
CHECK_DEADLOCK FALSE

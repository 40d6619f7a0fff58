SPECIFICATION Spec
CONSTANTS
  Hosts = {h1, h2, h3}
  WideOf <- MCWideOf
  Prefixes = {"32", "wide", "default"}
  DefaultPrefix = "wide"
  Allowlist = {h2}
  Enforce = TRUE
  RateLimit = 2
  RateWindow = 1
  Ttls = {1}
  MaxEntries = 2
  SweepInterval = 1
  BootTime = 10
  Tasks = {t1, t2}
  Inodes = {i1, i2, i3}
  MaxTime = 13
  MaxOps = 3
SYMMETRY Symmetry
INVARIANT RateBound
INVARIANT DropsJustified
INVARIANT BlocksLast
CHECK_DEADLOCK FALSE

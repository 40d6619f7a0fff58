SPECIFICATION MCFairSpec
CONSTANTS
  Flows = {f1, f2}
  Predictions <- MCPredictions
  MinAttack = 9000
  MinBenign = 8000
  MinMargin = 1500
  SlaPolicy = "FailSecure"
  AutoContainAbove = 900
  SlaSeconds = 1
  MaxTime = 1
  MaxSeq = 2
  MaxCrashes = 1
  Hosts = {h1, h2, h3, h4}
  Slash32 <- MCSlash32
  V4 = {h1, h4}
  Allowlist = {h3, h4}
  MaxActions = 1
  Window = 2
  Capacity = 1
  Outcomes = {"Blocked", "Allowlisted", "RateLimited", "Error"}
  EditKinds = {"valid", "rejected", "unparseable"}
  MaxVerdicts = 2
  MaxEdits = 1
  MaxClock = 2
  MaxExits = 2
  MaxRestarts = 1
INVARIANT DecidedWithAuthority
INVARIANT PolicyHolds
PROPERTY TrailOnDisk
PROPERTY OpenItemsAreResolved
PROPERTY SyncHolds
PROPERTY HandledUnlessNsmHolds
CHECK_DEADLOCK FALSE

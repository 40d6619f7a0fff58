SPECIFICATION LanesFairSpec
CONSTANTS
  Hosts = {"a", "b"}
  Scores = {5, 12}
  Capacity = 1
  OutCapacity = 1
  MaxEvidence = 3
  MaxTracked = 2
  Window = 1
  SweepInterval = 1
  MaxTime = 2
  MaxEvents = 4
  Alerts <- MCAlerts
  Files = {"a"}
  MaxInputs = 2
INVARIANT ContainmentTraceable
INVARIANT GraphWhole
PROPERTY AlertsAreHandled
CHECK_DEADLOCK FALSE

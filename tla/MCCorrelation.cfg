SPECIFICATION Spec
CONSTANTS
  Hosts = {h1, h2}
  Scores = {5, 12}
  Capacity = 1
  OutCapacity = 1
  MaxEvidence = 2
  MaxTracked = 1
  Window = 1
  SweepInterval = 1
  MaxTime = 2
  MaxEvents = 3
CONSTRAINT Corner
SYMMETRY Symmetry
INVARIANT EvidenceCountsOnce
INVARIANT FusedWithinSweepLag
CHECK_DEADLOCK FALSE

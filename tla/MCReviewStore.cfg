SPECIFICATION StoreSpec
CONSTANTS
  Flows = {f1, f2, f3}
  Predictions <- MCPredictions
  MinAttack = 9000
  MinBenign = 8000
  MinMargin = 1500
  SlaPolicy = "FailSafe"
  AutoContainAbove = 900
  Procs = {p1, p2}
  Inodes = {i1, i2, i3, i4}
  MaxCommands = 3
SYMMETRY Symmetry
INVARIANT FileDecidedOnce
INVARIANT WholeWithoutClash
INVARIANT AckedKeptWithoutClash
CHECK_DEADLOCK FALSE

CONSTANTS
  W = 64
  L = 58
  MaxRun = 31
  InPage = 24
  PerBranch = 13
  LeafCap = 2
  LooseLimit = 4
  AugmentLimit = 1000
  DirtyLimit = 1000
  GrowStep = 16
  Upper = 400
  MaxLoops = 42
  FactorBits = 12
  INITIAL_TXNID = 3
  Lower = 16
  Loads = {1, 130}
  LargeSizes = {2}
  Patterns = {"odd", "all"}
  Modes = {TRUE, FALSE}
  MaxTxns = 3
  MaxOps = 3
  MaxSnaps = 2
SPECIFICATION Spec
CHECK_DEADLOCK FALSE
INVARIANTS PagesAccounted SnapshotsSafe NeverGivesUp

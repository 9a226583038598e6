CONSTANTS
  n1 = n1
  n2 = n2
  n3 = n3
  p1 = p1
  p2 = p2
  Names = {n1, n2, n3}
  Pods = {p1, p2}
  MaxNodes = 2
  PodsPerNode = 1
  BootTimeout = 0
  OrphanBootTimeout = 0
  BurstEnabled = {p1, p2}
  PoolLabels = TRUE
  TalosLabels = FALSE
  PodWrites = TRUE
  FaultKinds = {}
  MaxFaults = 0

SPECIFICATION ReconcilersSpec
SYMMETRY Symmetry
INVARIANTS
  StatusWithinMax
  TeardownOwned
  DrainedBeforeTerminate
PROPERTY RefinesLedger
CHECK_DEADLOCK FALSE

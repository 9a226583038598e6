CONSTANTS
  n1 = n1
  n2 = n2
  p1 = p1
  Names = {n1, n2}
  Pods = {p1}
  MaxNodes = 1
  PodsPerNode = 1
  BootTimeout = 0
  OrphanBootTimeout = 1
  BurstEnabled = {}
  PoolLabels = TRUE
  TalosLabels = FALSE
  PodWrites = TRUE
  FaultKinds = {"vanish", "flap", "launch", "lost", "status", "annotate", "terminate", "cordon", "drain", "delete", "crash"}
  MaxFaults = 1

SPECIFICATION Spec
SYMMETRY Symmetry
INVARIANTS
  TypeOK
  PendingExact
  ActiveCovers
  NoPodForgotten
PROPERTY RefinesLedger

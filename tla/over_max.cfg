CONSTANTS
  n1 = n1
  n2 = n2
  p1 = p1
  p2 = p2
  Names = {n1, n2}
  Pods = {p1, p2}
  MaxNodes = 1
  PodsPerNode = 1
  BootTimeout = 1
  OrphanBootTimeout = 1
  BurstEnabled = {p1, p2}
  PoolLabels = TRUE
  TalosLabels = FALSE
  PodWrites = TRUE
  FaultKinds = {}
  MaxFaults = 0

SPECIFICATION Spec
INVARIANT CloudWithinMax

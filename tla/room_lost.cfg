CONSTANTS
  n1 = n1
  p1 = p1
  Names = {n1}
  Pods = {p1}
  MaxNodes = 1
  PodsPerNode = 1
  BootTimeout = 1
  OrphanBootTimeout = 1
  BurstEnabled = {p1}
  PoolLabels = TRUE
  TalosLabels = FALSE
  PodWrites = TRUE
  FaultKinds = {}
  MaxFaults = 0

SPECIFICATION FairSpec
PROPERTY RoomReturned

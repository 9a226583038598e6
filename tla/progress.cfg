CONSTANTS
  n1 = n1
  p1 = p1
  Names = {n1}
  Pods = {p1}
  MaxNodes = 1
  PodsPerNode = 1
  BootTimeout = 1
  OrphanBootTimeout = 1
  BurstEnabled = {}
  PoolLabels = TRUE
  TalosLabels = FALSE
  PodWrites = FALSE
  FaultKinds = {"crash", "status", "lost", "launch"}
  MaxFaults = 1

SPECIFICATION FairSpec
INVARIANT LeaksVisible
PROPERTIES
  LeakReclaimed
  PodServed
  BootDecided
  IdleReaped

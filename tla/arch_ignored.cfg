\* Two pods and one pool with types of both architectures.
SPECIFICATION RoundSpec
CONSTANTS
  p1 = p1  p2 = p2
  Pods = {p1, p2}
  PoolSpec <- Pools
  InstanceCapacities <- Table
  PodShape <- Shapes
  InitialPools = {1}
  FaultKinds = {}
CHECK_DEADLOCK FALSE
INVARIANT ArchRespected

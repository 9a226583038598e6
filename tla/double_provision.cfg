\* Two pods and one pool.
SPECIFICATION RoundSpec
CONSTANTS
  p1 = p1  p2 = p2
  Pods = {p1, p2}
  PoolSpec <- Pools
  InstanceCapacities <- Table
  PodShape <- Shapes
  InitialPools = {1}
  FaultKinds = {}
CHECK_DEADLOCK FALSE
INVARIANT OneNodePerPod

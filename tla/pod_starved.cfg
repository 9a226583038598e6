\* One pod; launches may fail.
SPECIFICATION RoundFairSpec
CONSTANTS
  p1 = p1
  Pods = {p1}
  PoolSpec <- Pools
  InstanceCapacities <- Table
  PodShape <- Shapes
  InitialPools = {1, 2, 3}
  FaultKinds = {"launch"}
CHECK_DEADLOCK FALSE
PROPERTY PodGetsNode

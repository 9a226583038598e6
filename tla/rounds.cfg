\* Three pods of four shapes, two pools at the start and the least specific one created later.
SPECIFICATION RoundSpec
CONSTANTS
  p1 = p1  p2 = p2  p3 = p3
  Pods = {p1, p2, p3}
  PoolSpec <- Pools
  InstanceCapacities <- Table
  PodShape <- Shapes
  InitialPools = {2, 3}
  FaultKinds = {"read", "launch", "status", "annotate"}
SYMMETRY Symmetry
CHECK_DEADLOCK FALSE
INVARIANTS RoundTypeOK MostSpecific LaunchedFits RoundSuffices

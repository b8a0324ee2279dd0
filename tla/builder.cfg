SPECIFICATION Spec
CONSTANTS
  DIMS = 2
  LANES = 2
  KD_LEAF_SIZE = 2
  PAD = 0
  MaxVectors = 5
  Width = 2
  Inputs <- AllInputs
  CenterSets <- AllCenters
INVARIANTS
  EveryVectorStoredOnce
  BoxesEnclose
  TreesBalanced
  EveryVectorInOneCluster
  ClusterBoundsSound
  IndexesAsBuilt
CHECK_DEADLOCK FALSE

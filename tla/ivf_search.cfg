SPECIFICATION Spec
CONSTANTS
  Queries <- IndexQueries
  Points <- IndexPoints
  NoPoint = 0
  Labelings <- IndexLabelings
  K <- IndexK
  Cluster <- IndexCluster
  CentroidDist <- IndexCentroidDist
  Dist <- IndexDist
  Bound <- IndexBound
  MaxDist = 1000
  TOP_K = 3
  NPROBE = 1
  MAX_PROBES = 4
  REPAIR_MIN = 1
  REPAIR_MAX = 2
  EARLY_DIST = 9
INVARIANTS
  ProbesNearest
  CountedOnce
  InexactOnlyIfUnanimous
CHECK_DEADLOCK FALSE

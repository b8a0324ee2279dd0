SPECIFICATION FairSpec
CONSTANTS
  Queries <- IndexQueries
  Points <- IndexPoints
  NoPoint = 0
  Label <- IndexLabel
  Nodes <- IndexNodes
  NoNode = 0
  Left <- IndexLeft
  Right <- IndexRight
  Leaf <- IndexLeaf
  Under <- IndexUnder
  Height <- IndexHeight
  Parts <- IndexParts
  Root <- IndexRoot
  Primary <- IndexPrimary
  Dist <- IndexDist
  Bound <- IndexBound
  MaxDist = 1000
  TOP_K = 3
  STACK_DEPTH = 2
INVARIANTS
  NearestFound
  CountedOnce
  StackSuffices
PROPERTIES
  ImplementsKnn
CHECK_DEADLOCK FALSE

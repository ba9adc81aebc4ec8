CONSTANTS
  Sizes <- Boundaries
  SectorSizes = {512, 4096}
  Clusters = {1, 3, 8, 32}
  Roots = {1, 2}
SPECIFICATION Spec
INVARIANTS EveryClusterHasAnEntry ClustersFillThePartition NumbersAreNotMarkers OpenFindsTheFormat ReadersAgreeInsidePages

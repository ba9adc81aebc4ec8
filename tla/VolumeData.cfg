CONSTANTS
  D = 4
  N = 3
  Name = {"a", "b"}
  Path <- Flat
  Value = {"x"}
  Stale = "old"
  Sizes <- CrossingSize
  Writes <- CrossingWrite
  Kernel = TRUE
SPECIFICATION Spec
VIEW View
INVARIANTS ChainsAreSound SizesFitChains NoStaleData
PROPERTIES ClustersAreNotLost ImplementsFileTree

CONSTANTS
  D = 4
  N = 3
  Name = {"a", "b"}
  Path <- Nest
  Value = {"x"}
  Stale = "old"
  Sizes <- SmallSize
  Writes <- SmallWrite
  Kernel = TRUE
SPECIFICATION Spec
VIEW View
INVARIANTS TypeOK DirectoriesAreSound
PROPERTIES ClustersAreNotLost FailuresMeanFull ImplementsFileTree

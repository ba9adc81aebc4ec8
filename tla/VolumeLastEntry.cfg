CONSTANTS
  D = 4
  N = 2
  Name = {"a", "b"}
  Path <- Flat
  Value = {"x"}
  Stale = "old"
  Sizes <- SmallSize
  Writes <- SmallWrite
  Kernel = TRUE
SPECIFICATION Spec
VIEW View
PROPERTIES NewNodesLeaveFilesAlone

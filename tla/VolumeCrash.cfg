CONSTANTS
  D = 4
  N = 3
  Name = {"a", "b"}
  Path <- Crossing
  Value = {"x"}
  Stale = "old"
  Sizes <- CrashSize
  Writes <- CrashWrite
  Kernel = TRUE
  MaxCalls = 2
  Start <- Volumes
  MaxCrashes = 1
SPECIFICATION CrashSpec
VIEW CrashView
INVARIANTS  CrashLeavesDirectories

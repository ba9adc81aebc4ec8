\* A FAT of five entries and a window of two: the windows at indices 0..3
\* are full, the one at index 4 is clipped to the FAT's end.
CONSTANTS
  NumClusters = 4
  WindowSize = 2
  Entry = {e0, e1}
  Garbage = garbage
  Nothing = nothing
  ReadFaults = FALSE
  WriteFaults = TRUE
SPECIFICATION Spec
INVARIANTS  CacheHoldsTheFatWindow
PROPERTIES ReadOnlyLeavesTheDevice ImplementsStore

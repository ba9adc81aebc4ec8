CONSTANTS
  BytesPerCluster = 2
  Word = 16
  Files <- AllFiles
  Offsets <- SomeOffsets
  Lengths = {0, 1, 3, 6}
SPECIFICATION Spec
INVARIANTS CursorIsInTheChain ReadsTheFile
PROPERTIES ReadsEnd

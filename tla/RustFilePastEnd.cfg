CONSTANTS
  BytesPerCluster = 2
  Word = 16
  Files <- SoundFiles
  Offsets <- SomeOffsets
  Lengths = {0, 1, 3, 6}
SPECIFICATION Spec
INVARIANT ReadsEverySoundFile

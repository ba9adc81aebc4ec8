CONSTANTS
  a = a
  b = b
  Fs = {a, b}
  NoFs = nofs
  ClustersOf <- OtherSize
  Unset = unset
  Faults = {"read", "seek", "zero"}
SPECIFICATION FairAllocSpec
INVARIANTS ScannedIsTaken FatMatchesOwners
PROPERTIES FullMeansFull AllocationEndsFromInside

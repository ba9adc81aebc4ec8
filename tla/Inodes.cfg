CONSTANTS
  Listing <- Tree
  Labels <- Label
  Names = {"a", "b", "l"}
  Readers = {r1, r2}
  MaxPage = 2
SPECIFICATION Spec
INVARIANTS InodesStay EveryInodeIsFound ListingsAreWhole

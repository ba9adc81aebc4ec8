CONSTANTS
  Requests <- CommandLines
  Ends <- DiskEnds
  Contents <- Disks
  MaxRuns = 2
SPECIFICATION Spec
INVARIANTS SuccessMeansFormatted FormatGoesInOrder RetailClustersAre16K FrontEndsAgree
CHECK_DEADLOCK FALSE

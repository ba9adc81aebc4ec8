CONSTANTS
  Names <- Two
  Trees <- Volumes
  Paths <- Asked
SPECIFICATION Spec
INVARIANTS TypeOK LibraryFindsTheNode RustFindsTheNode 
PROPERTY LookupEnds

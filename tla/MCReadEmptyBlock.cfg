SPECIFICATION Spec
CONSTANTS
  Layouts <- MCLayouts
  LengthSize = 2
  MaxRecords = 3
  MaxLength = 1
  EmptyBlocks = TRUE
  MaxSample = 1
  MaxMissing = 0
INVARIANT ReadsAll

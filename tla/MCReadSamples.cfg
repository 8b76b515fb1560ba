SPECIFICATION Spec
CONSTANTS
  Layouts <- MCLayouts
  LengthSize = 2
  MaxRecords = 3
  MaxLength = 1
  EmptyBlocks = FALSE
  MaxSample = 2
  MaxMissing = 1
INVARIANTS TypeOK InSync StopsBehindRange
PROPERTY ImplementsFlat

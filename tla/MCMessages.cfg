SPECIFICATION MessageSpec
CONSTANTS
  Layouts <- MCLayouts
  LengthSize = 1
  MaxRecords = 5
  MaxLength = 1
  EmptyBlocks = FALSE
  MaxSample = 2
  MaxMissing = 1
  MainGroup = 1
  VlsdGroup = 2
INVARIANTS MessagesPaired MessagesComplete

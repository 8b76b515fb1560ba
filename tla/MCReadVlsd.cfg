SPECIFICATION Spec
CONSTANTS
  Layouts <- MCLayouts
  LengthSize = 2
  MaxRecords = 3
  MaxLength = 1
  EmptyBlocks = FALSE
  Links = {"CG", "SD", "DZ", "DL"}
INVARIANTS TypeOK OffsetInSync
PROPERTY ImplementsFlat

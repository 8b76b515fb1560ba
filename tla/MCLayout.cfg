SPECIFICATION LayoutSpec
CONSTANTS
  Word = 16
  PreTrig = 0
  DataGroups = {d1, d2}
  ChannelGroups = {g1, g2}
  WriterType = "Mdf4Basic"
  SavePeriodic = TRUE
  FirstTime = 1
  MaxTime = 2
  MaxSamples = 3
  MaxInits = 2
  ConcurrentSampling = FALSE
  DocumentedOrder = TRUE
  CompressData = FALSE
SYMMETRY Symmetry
INVARIANTS TypeOK FileExclusive RecordsReachable DataBlocksExact
PROPERTIES ImplementsRecorder FinishedGroupsStay
CHECK_DEADLOCK FALSE

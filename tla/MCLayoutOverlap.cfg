SPECIFICATION LayoutSpec
CONSTANTS
  Word = 16
  PreTrig = 2
  DataGroups = {d1, d2}
  ChannelGroups = {g1}
  WriterType = "Mdf4Basic"
  SavePeriodic = FALSE
  FirstTime = 3
  MaxTime = 5
  MaxSamples = 3
  MaxInits = 2
  ConcurrentSampling = FALSE
  DocumentedOrder = TRUE
  CompressData = FALSE
INVARIANT OwnDataOnly
CHECK_DEADLOCK FALSE

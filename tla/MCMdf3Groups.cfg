SPECIFICATION Spec
CONSTANTS
  Word = 16
  PreTrig = 1
  DataGroups = {d1, d2}
  ChannelGroups = {g1}
  WriterType = "Mdf3Basic"
  SavePeriodic = TRUE
  FirstTime = 2
  MaxTime = 3
  MaxSamples = 2
  MaxInits = 2
  ConcurrentSampling = FALSE
  DocumentedOrder = FALSE
  CompressData = FALSE
INVARIANT HeaderCounts
PROPERTY StopLosesNothing
CHECK_DEADLOCK FALSE

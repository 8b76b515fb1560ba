SPECIFICATION Spec
CONSTANTS
  Word = 16
  PreTrig = 1
  DataGroups = {d1}
  ChannelGroups = {g1}
  WriterType = "Mdf4Basic"
  SavePeriodic = TRUE
  FirstTime = 2
  MaxTime = 4
  MaxSamples = 2
  MaxInits = 1
  ConcurrentSampling = FALSE
  DocumentedOrder = TRUE
  CompressData = FALSE
INVARIANT RecordsRelative
CHECK_DEADLOCK FALSE

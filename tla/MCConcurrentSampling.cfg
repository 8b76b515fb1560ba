SPECIFICATION FairSpec
CONSTANTS
  Word = 16
  PreTrig = 1
  DataGroups = {d1}
  ChannelGroups = {g1}
  WriterType = "Mdf4Basic"
  SavePeriodic = TRUE
  FirstTime = 2
  MaxTime = 4
  MaxSamples = 4
  MaxInits = 1
  ConcurrentSampling = TRUE
  DocumentedOrder = TRUE
  CompressData = FALSE
INVARIANTS Fifo QueueRelative
PROPERTY StopReturns
CHECK_DEADLOCK FALSE

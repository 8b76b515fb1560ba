SPECIFICATION FairSpec
CONSTANTS
  Word = 16
  PreTrig = 1
  DataGroups = {d1}
  ChannelGroups = {g1}
  WriterType = "Mdf4Basic"
  SavePeriodic = TRUE
  FirstTime = 2
  MaxTime = 5
  MaxSamples = 4
  MaxInits = 1
  ConcurrentSampling = FALSE
  DocumentedOrder = TRUE
  CompressData = FALSE
INVARIANT PreTrigKept
PROPERTY QueuesDrain
CHECK_DEADLOCK FALSE

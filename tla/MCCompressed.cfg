SPECIFICATION CompressedFairSpec
CONSTANTS
  Word = 16
  PreTrig = 0
  DataGroups = {d1}
  ChannelGroups = {g1, g2}
  WriterType = "Mdf4Basic"
  SavePeriodic = TRUE
  FirstTime = 1
  MaxTime = 2
  MaxSamples = 4
  MaxInits = 2
  ConcurrentSampling = FALSE
  DocumentedOrder = TRUE
  CompressData = TRUE
  BufferMax = 6
  Shapes <- MCShapes
  IdSize = 1
  VlsdLength = 1
INVARIANTS CompressedTypeOK CompressedFifo OffsetsContiguous BlocksBelowMax SizeCoversQueue CompressedPreTrigKept HeaderCounts
PROPERTIES CompressedStopLosesNothing CompressedImplementsRecorder LongQueuesSaved
CHECK_DEADLOCK FALSE

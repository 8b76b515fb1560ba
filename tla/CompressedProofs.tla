------------------------- MODULE CompressedProofs -------------------------
(***************************************************************************)
(* The theorems about the compressed writer.  The first are about its data *)
(* blocks: the offsets in its DL blocks, and the size of a block.  The     *)
(* others are about its samples: it is the uncompressed writer of a file   *)
(* that also holds what the flush has collected, except that it may push a *)
(* sample back, and trims and begins to save in one step.                  *)
(***************************************************************************)
EXTENDS CompressedInvariants, MdfWriterProofs, DataInduction

-----------------------------------------------------------------------------
(* Samples whose length is known *)

LEMMA NumberedSamples == Sized \subseteq Samples
BY DEF Sized

LEMMA BytesType ==
  ASSUME QueueTypes, NEW s \in Sized
  PROVE  /\ Bytes(s) \in Nat /\ MaxBytes(s) \in Nat /\ Bytes(s) <= MaxBytes(s)
         /\ SampleSize(s) \in Nat
<1>1. shape[s.n] \in [record : Nat \ {0}, vlsd : Nat, storage : {"fixed", "cg", "sd"}]
  BY ShapesAssumption DEF QueueTypes, Sized
<1>2. VlsdBytes(s) \in Nat
  BY <1>1, ShapesAssumption DEF VlsdBytes
<1>3. SampleSize(s) \in Nat
  BY <1>1, ShapesAssumption DEF SampleSize
<1> QED
  BY <1>1, <1>2, <1>3, ShapesAssumption DEF Bytes, MaxBytes

LEMMA TrimNumbered ==
  ASSUME NEW q \in Seq(Sized), NEW start
  PROVE  TrimQueue(q, start) \in Seq(Sized)
<1>1. q \in Seq(Samples) /\ Len(q) \in Nat
  BY NumberedSamples
<1>2. Popped(q, start) \in Nat
  BY <1>1, PoppedType
<1>3. \A i \in Popped(q, start) + 1 .. Len(q) : q[i] \in Sized
  BY <1>1, <1>2
<1> QED
  BY <1>1, <1>2, <1>3, SubSeqProperties DEF TrimQueue

LEMMA RecalculateNumbered ==
  ASSUME NEW q \in Seq(Sized), NEW start \in Times
  PROVE  RecalculateTimeMaster(q, start) \in Seq(Sized)
<1>1. /\ Len(q) \in Nat /\ DOMAIN q = 1 .. Len(q)
      /\ \A i \in 1 .. Len(q) : q[i] \in Sized
  OBVIOUS
<1>2. \A i \in 1 .. Len(q) : Relative(q[i], start) \in Sized
  BY <1>1 DEF Relative, Sized, Samples
<1>3. RecalculateTimeMaster(q, start) \in [1 .. Len(q) -> Sized]
  BY <1>1, <1>2 DEF RecalculateTimeMaster
<1> QED
  BY <1>1, <1>3, SeqDef, Z3

LEMMA NewNumbered ==
  ASSUME NEW n \in 1 .. MaxSamples, NEW t \in Times, NEW start \in Times, NEW known \in BOOLEAN
  PROVE  RecalculateTime([n |-> n, ts |-> t, base |-> 0], known, start) \in Sized
<1>1. 0 \in Times /\ n \in Nat
  BY WordAssumption, BoundsAssumption DEF Times
<1> QED
  BY <1>1 DEF RecalculateTime, Relative, Sized, Samples

-----------------------------------------------------------------------------
(* QueueTypes *)

\* The client puts nothing into a block; offset_ goes with its queue.
LEMMA CompressedSteps ==
  ASSUME CompressedClient
  PROVE  /\ Client
         /\ UNCHANGED <<shape, hasDt, finalize, decision, buffer, dl, stored>>
         /\ \/ UNCHANGED <<offset, before>>
            \/ /\ InitExit \/ StopExit
               /\ offset' = [d \in DataGroups |-> 0]
               /\ before' = [d \in DataGroups |-> Len(stored[d])]
<1>1. Client
  BY DEF CompressedClient, CompressedCallContinues, CompressedSaveSample, Client, CallContinues
<1>2. UNCHANGED <<shape, hasDt, finalize, decision, buffer, dl, stored>>
  BY DEF CompressedClient, CompressedCallContinues, CompressedSaveSample, QueuesDestroyed,
         compressVars
<1>3. \/ UNCHANGED <<offset, before>>
      \/ /\ InitExit \/ StopExit
         /\ offset' = [d \in DataGroups |-> 0]
         /\ before' = [d \in DataGroups |-> Len(stored[d])]
  BY DEF CompressedClient, CompressedCallContinues, CompressedSaveSample, QueuesDestroyed,
         compressVars
<1> QED
  BY <1>1, <1>2, <1>3

LEMMA ClientQueueTypes ==
  ASSUME QueueTypes, Client, UNCHANGED <<shape, hasDt>>
  PROVE  QueueTypes'
<1> USE DEF QueueTypes, cacheVars, writerVars, queueVars, threadVars, fileVars
<1>0. 0 \in Times /\ Clock \subseteq Times /\ FirstTime .. MaxTime \subseteq Times
  <2>1. 0 \in Times /\ FirstTime .. MaxTime \subseteq Times
    BY TimesInRange
  <2>2. Clock \subseteq Times
    BY WordAssumption, PreTrigAssumption, ClockAssumption, BoundsAssumption DEF Times, Clock
  <2> QED
    BY <2>1, <2>2
<1>1. ASSUME ThreadJoined PROVE queue' \in [DataGroups -> Seq(Sized)]
  BY <1>1 DEF ThreadJoined
<1>2. CASE InitMeasurement
  BY <1>2 DEF InitMeasurement
<1>3. CASE InitExit
  BY <1>1, <1>3 DEF InitExit, ThreadJoined
<1>4. CASE InitFails
  BY <1>4 DEF InitFails
<1>5. CASE InitWrites
  <2>1. Active \subseteq DataGroups
    BY DEF Active, Configured
  <2> QED
    BY <1>0, <1>5, <2>1 DEF InitWrites
<1>6. ASSUME NEW t \in Clock, StartMeasurement(t) PROVE QueueTypes'
  BY <1>0, <1>6 DEF StartMeasurement
<1>7. CASE StartSetsTime
  BY <1>0, <1>7 DEF StartSetsTime
<1>8. ASSUME NEW d \in DataGroups, StartRecalculates(d) PROVE QueueTypes'
  <2>1. RecalculateTimeMaster(queue[d], start_time) \in Seq(Sized)
    BY RecalculateNumbered
  <2>2. queue' \in [DataGroups -> Seq(Sized)]
    BY <1>8, <2>1 DEF StartRecalculates
  <2> QED
    BY <1>8, <2>2 DEF StartRecalculates
<1>9. CASE StartReturns
  BY <1>9 DEF StartReturns
<1>10. ASSUME NEW t \in FirstTime .. MaxTime, StopMeasurement(t) PROVE QueueTypes'
  BY <1>0, <1>10 DEF StopMeasurement
<1>11. CASE StopExit
  BY <1>1, <1>11 DEF StopExit, ThreadJoined
<1>12. CASE FinalizeMeasurement
  BY <1>12 DEF FinalizeMeasurement
<1>13. CASE FinalizeWrites
  BY <1>13 DEF FinalizeWrites
<1>14. ASSUME NEW d \in DataGroups, CreateDataGroup(d) PROVE QueueTypes'
  <2>1. created' \in Seq(DataGroups)
    BY <1>14 DEF CreateDataGroup
  <2> QED
    BY <1>14, <2>1 DEF CreateDataGroup
<1>15. ASSUME NEW d \in DataGroups, NEW t \in Clock, SaveSample(d, t) PROVE QueueTypes'
  <2> DEFINE s(q) == RecalculateTime([n |-> saved + 1, ts |-> t, base |-> 0],
                                     q \in masters, start_time)
             Put(f, queues) == [q \in DataGroups |->
                                  IF q \in queues THEN AddSample(f[q], s(q)) ELSE f[q]]
  <2>1. saved < MaxSamples /\ saved + 1 \in 1 .. MaxSamples
        /\ t \in Times /\ start_time \in Times
    BY <1>0, <1>15, BoundsAssumption DEF SaveSample
  <2>2. PICK queues \in QueuesFor(d) : queue' = Put(queue, queues)
    BY <1>15 DEF SaveSample
  <2>3. \A q \in DataGroups : s(q) \in Sized
    <3>1. TAKE q \in DataGroups
    <3>2. (q \in masters) \in BOOLEAN
      OBVIOUS
    <3> QED
      BY ONLY <2>1, <3>2, NewNumbered
  <2>4. \A q \in DataGroups : AddSample(queue[q], s(q)) \in Seq(Sized)
    <3> HIDE DEF s
    <3> QED
      BY <2>3, AppendProperties DEF AddSample
  <2>5. queue' \in [DataGroups -> Seq(Sized)]
    <3> HIDE DEF s
    <3> QED
      BY <2>2, <2>4
  <2>6. /\ saved' = saved + 1 /\ now' = t
        /\ UNCHANGED <<writerVars, stop_thread, cache, masters, threadVars, fileVars,
                      call, argument, remaining, created, inits>>
    BY <1>15 DEF SaveSample
  <2>7. saved' \in 0 .. MaxSamples
    BY <2>1, <2>6, BoundsAssumption
  <2> HIDE DEF s, Put
  <2> QED
    BY <2>1, <2>5, <2>6, <2>7
<1> QED
  BY <1>2, <1>3, <1>4, <1>5, <1>6, <1>7, <1>8, <1>9, <1>10, <1>11, <1>12, <1>13,
     <1>14, <1>15
     DEF Client, CallContinues

\* The steps of the thread that put no record into a block
Quiet ==
  /\ \/ (Wake \/ CleanAll \/ EndRound) /\ UNCHANGED compressVars
     \/ \E d \in DataGroups :
          \/ SkipStep(d) /\ UNCHANGED compressVars
          \/ CompressedTrimStep(d) \/ CompressedResetStep(d)
          \/ CleanStep(d) \/ CleanFails(d) \/ PeriodicStep(d)
     \/ (OpenFile \/ OpenFails \/ EndDrain) /\ UNCHANGED compressVars
     \/ BeginBuffer \/ TakeFromQueue \/ FindsFull \/ PushBack
  /\ UNCHANGED clientVars

LEMMA WorkCases ==
  CompressedWork => \/ Quiet
                    \/ (AppendSample \/ PurgeBuffer \/ StoreBlocks) /\ UNCHANGED clientVars
BY DEF CompressedWork, CompressedThread, CompressedSaveSteps, Quiet

LEMMA WorkQueueTypes ==
  ASSUME QueueTypes, VisitInv, CompressedWork
  PROVE  QueueTypes'
<1> USE DEF QueueTypes, writerVars, queueVars, threadVars, fileVars, clientVars, compressVars
<1>c. UNCHANGED <<now, argument, saved, created>>
  BY DEF CompressedWork
<1>t. UNCHANGED <<start_time, cache, shape, hasDt>>
  BY DEF CompressedWork, CompressedThread, CompressedSaveSteps, Wake, CleanAll, EndRound,
         SkipStep, CompressedTrimStep, TrimStep, CompressedResetStep, ResetStep, CleanStep,
         PeriodicStep, OpenFile, OpenFails, EndDrain, BeginBuffer, LockAndTrim,
         TakeFromQueue, TakeSample, AppendSample, PurgeBuffer, Appends, FindsFull, PushBack,
         StoreBlocks, UpdateAndCloseFile, cacheVars, CleanFails
<1>0. ASSUME NEW d \in DataGroups, NEW q \in Seq(Sized), queue' = [queue EXCEPT ![d] = q]
      PROVE  queue' \in [DataGroups -> Seq(Sized)]
  BY <1>0
<1>1. CASE Wake \/ CleanAll \/ EndRound
  BY <1>c, <1>t, <1>1 DEF Wake, CleanAll, EndRound
<1>2. ASSUME NEW d \in DataGroups, SkipStep(d) PROVE QueueTypes'
  BY <1>c, <1>t, <1>2 DEF SkipStep, Visit
<1>3. ASSUME NEW d \in DataGroups, CompressedTrimStep(d) PROVE QueueTypes'
  <2>1. queue' \in [DataGroups -> Seq(Sized)]
    BY <1>0, <1>3, TrimNumbered DEF CompressedTrimStep, TrimStep
  <2> QED
    BY <1>c, <1>t, <1>3, <2>1 DEF CompressedTrimStep, TrimStep
<1>4. ASSUME NEW d \in DataGroups, CompressedResetStep(d) PROVE QueueTypes'
  <2>1. queue' \in [DataGroups -> Seq(Sized)]
    BY <1>4 DEF CompressedResetStep, ResetStep
  <2> QED
    BY <1>c, <1>t, <1>4, <2>1 DEF CompressedResetStep, ResetStep
<1>5. ASSUME NEW d \in DataGroups, CleanStep(d) PROVE QueueTypes'
  BY <1>c, <1>t, <1>5 DEF CleanStep, SkipsQueue, BeginsToSave, Visit
<1>13. ASSUME NEW d \in DataGroups, CleanFails(d) PROVE QueueTypes'
  BY <1>c, <1>t, <1>13 DEF CleanFails, SkipsQueue, Visit
<1>14. CASE FindsFull
  BY <1>c, <1>t, <1>14 DEF FindsFull, cacheVars
<1>6. ASSUME NEW d \in DataGroups, PeriodicStep(d) PROVE QueueTypes'
  <2>1. queue' \in [DataGroups -> Seq(Sized)]
    BY <1>0, <1>6, TrimNumbered DEF PeriodicStep
  <2>2. UNCHANGED <<hand, nof>> /\ current' \in DataGroups /\ pc' # "write"
    BY <1>6 DEF PeriodicStep, SkipsQueue, BeginsToSave, Visit
  <2> QED
    BY <1>c, <1>t, <2>1, <2>2
<1>7. CASE OpenFile \/ OpenFails \/ EndDrain
  BY <1>c, <1>t, <1>7 DEF OpenFile, OpenFails, EndDrain
<1>8. CASE BeginBuffer
  <2>1. queue' \in [DataGroups -> Seq(Sized)]
    BY <1>0, <1>8, TrimNumbered DEF BeginBuffer, LockAndTrim
  <2> QED
    BY <1>c, <1>t, <1>8, <2>1 DEF BeginBuffer, LockAndTrim
<1>9. CASE TakeFromQueue
  <2> DEFINE q == queue[current]
  <2>1. q \in Seq(Sized) /\ q # <<>> /\ Head(q) \in Sized /\ Tail(q) \in Seq(Sized)
    BY <1>9, HeadTailProperties DEF TakeFromQueue, TakeSample
  <2>2. queue' \in [DataGroups -> Seq(Sized)]
    BY <1>0, <1>9, <2>1 DEF TakeFromQueue, TakeSample
  <2>3. (hand' = <<>> /\ pc' = "close") \/ (hand' = <<Head(q)>> /\ pc' = "write")
    BY <1>9 DEF TakeFromQueue, TakeSample
  <2>4. hand' \in Seq(Sized) /\ (pc' = "write" => Len(hand') = 1)
    <3> HIDE DEF q
    <3>1. <<Head(q)>> \in Seq(Sized) /\ Len(<<Head(q)>>) = 1
      BY <2>1
    <3>2. <<>> \in Seq(Sized)
      OBVIOUS
    <3>3. "close" # "write"
      OBVIOUS
    <3> QED
      BY <2>3, <3>1, <3>2, <3>3, Zenon
  <2> QED
    BY <1>c, <1>t, <1>9, <2>2, <2>4 DEF TakeFromQueue, TakeSample
<1>10. CASE AppendSample \/ PurgeBuffer
  <2>1. \E b : Appends(b)
    BY <1>10 DEF AppendSample, PurgeBuffer
  <2>2. nof' = [nof EXCEPT ![current] = @ + 1] /\ hand' = <<>> /\ pc' = "drain"
        /\ UNCHANGED <<queue, current>>
    BY <2>1 DEF Appends
  <2>3. nof' \in [DataGroups -> Nat]
    BY <2>2
  <2> QED
    BY <1>c, <1>t, <2>2, <2>3
<1>11. CASE PushBack
  <2>1. hand \in Seq(Sized) /\ Len(hand) = 1 /\ pc = "write"
    BY <1>11 DEF PushBack
  <2>2. InHand \in Sized
    <3>1. Len(hand) # 0
      BY <2>1
    <3>2. hand # <<>>
      BY <3>1
    <3> QED
      BY <2>1, <3>2, HeadTailProperties DEF InHand
  <2>3. Pushes(queue[current], InHand) \in Seq(Sized)
    BY <2>2 DEF Pushes
  <2>4. queue' \in [DataGroups -> Seq(Sized)]
    BY <1>0, <1>11, <2>3 DEF PushBack
  <2> QED
    BY <1>c, <1>t, <1>11, <2>4 DEF PushBack
<1>12. CASE StoreBlocks
  BY <1>c, <1>t, <1>12 DEF StoreBlocks, UpdateAndCloseFile
<1> QED
  BY <1>1, <1>2, <1>3, <1>4, <1>5, <1>6, <1>7, <1>8, <1>9, <1>10, <1>11, <1>12, <1>13,
     <1>14
     DEF CompressedWork, CompressedThread, CompressedSaveSteps

-----------------------------------------------------------------------------
(* VisitInv *)

\* A quiet step stores nothing and does not end a flush.
LEMMA QuietSteps ==
  ASSUME Quiet
  PROVE  /\ UNCHANGED <<cache, call, nof, offset, stored, before>>
         /\ pc \in InFlush => pc' \in InFlush /\ UNCHANGED <<current, todo>>
         /\ UNCHANGED <<buffer, dl>> \/ (dl' = <<>> /\ buffer' = EmptyBuffer /\ pc = "lock")
<1> USE DEF Quiet, InFlush, Wake, CleanAll, EndRound, SkipStep, CompressedTrimStep, TrimStep,
            CompressedResetStep, ResetStep, CleanStep, PeriodicStep, SkipsQueue,
            BeginsToSave, Visit, OpenFile, OpenFails, EndDrain, BeginBuffer, LockAndTrim,
            TakeFromQueue, TakeSample, FindsFull, PushBack, CleanFails, clientVars,
            compressVars, cacheVars, writerVars, queueVars, threadVars, fileVars
<1>1. UNCHANGED <<cache, call, nof, offset, stored, before>>
  OBVIOUS
<1>2. pc \in InFlush => pc' \in InFlush /\ UNCHANGED <<current, todo>>
  OBVIOUS
<1>3. UNCHANGED <<buffer, dl>> \/ (dl' = <<>> /\ buffer' = EmptyBuffer /\ pc = "lock")
  OBVIOUS
<1> QED
  BY <1>1, <1>2, <1>3

LEMMA QuietVisits ==
  ASSUME VisitInv, Quiet
  PROVE  VisitInv'
<1>1. UNCHANGED <<cache, call, offset>>
  BY QuietSteps
<1>2. /\ todo' \subseteq cache
      /\ pc' \in {"none", "wait", "clean"} => todo' = {}
      /\ pc' \in InFlush \union {"open", "lock"} => current' \in todo'
      /\ pc = "none" => pc' = "none"
  BY DEF VisitInv, Quiet, InFlush, Wake, CleanAll, EndRound, SkipStep, CompressedTrimStep,
         TrimStep, CompressedResetStep, ResetStep, CleanStep, PeriodicStep, SkipsQueue,
         BeginsToSave, Visit, OpenFile, OpenFails, EndDrain, BeginBuffer, LockAndTrim,
         TakeFromQueue, TakeSample, FindsFull, PushBack, CleanFails, clientVars,
         compressVars, cacheVars, writerVars, queueVars, threadVars, fileVars
<1> QED
  BY <1>1, <1>2 DEF VisitInv

LEMMA StoringVisits ==
  ASSUME QueueTypes, VisitInv, AppendSample \/ PurgeBuffer \/ StoreBlocks, UNCHANGED clientVars
  PROVE  VisitInv'
<1>1. CASE AppendSample \/ PurgeBuffer
  <2>1. \E b : Appends(b)
    BY <1>1 DEF AppendSample, PurgeBuffer
  <2>2. UNCHANGED <<cache, todo, current, call>> /\ pc' = "drain" /\ pc = "write"
    BY <1>1, <2>1 DEF Appends, AppendSample, PurgeBuffer, queueVars, clientVars
  <2> QED
    BY <2>2 DEF VisitInv, InFlush
<1>2. CASE StoreBlocks
  <2>1. UNCHANGED <<cache, call>> /\ todo' = todo \ {current} /\ pc' = "round" /\ pc = "close"
    BY <1>2 DEF StoreBlocks, UpdateAndCloseFile, queueVars, clientVars
  <2> QED
    BY <2>1 DEF VisitInv, InFlush
<1> QED
  BY <1>1, <1>2

LEMMA ClientVisits ==
  ASSUME VisitInv, CompressedClient
  PROVE  VisitInv'
<1>2. /\ UNCHANGED <<todo, current>>
      /\ pc' = pc \/ (pc = "none" /\ pc' = "wait")
      /\ cache' = cache \/ pc = "none"
      /\ call' = "initOpen" => pc' = pc /\ pc = "none" 
  <2>1. Client
    BY CompressedSteps
  <2> QED
    BY <2>1 DEF VisitInv, Client, CallContinues, InitExit, InitFails, InitWrites,
       StartSetsTime, StartReturns, StopExit, ThreadJoined, StartRecalculates,
       InitMeasurement, FinalizeMeasurement, StartMeasurement, StopMeasurement,
       CreateDataGroup, SaveSample, FinalizeWrites, cacheVars, threadVars, queueVars
<1> QED
  BY <1>2 DEF VisitInv, InFlush

-----------------------------------------------------------------------------
(* BlockTypes *)

Buffers == [data : Seq(Sized), length : Nat]

LEMMA EmptyBufferType == EmptyBuffer \in Buffers
BY DEF EmptyBuffer, Buffers

LEMMA HandType ==
  ASSUME QueueTypes, pc = "write"
  PROVE  /\ hand \in Seq(Sized) /\ Len(hand) = 1 /\ InHand \in Sized
         /\ Bytes(InHand) \in Nat /\ MaxBytes(InHand) \in Nat /\ Bytes(InHand) <= MaxBytes(InHand)
<1>1. hand \in Seq(Sized) /\ Len(hand) = 1
  BY DEF QueueTypes
<1>2. Len(hand) # 0
  BY <1>1
<1>3. hand # <<>>
  BY <1>2
<1>4. InHand \in Sized
  BY <1>1, <1>3, HeadTailProperties DEF InHand
<1> QED
  BY <1>1, <1>4, BytesType

\* A buffer with the sample in hand
LEMMA Appended ==
  ASSUME QueueTypes, pc = "write", NEW b \in Buffers, Appends(b)
  PROVE  /\ buffer' \in Buffers /\ buffer'.data # <<>>
         /\ buffer'.length = b.length + Bytes(InHand)
         /\ b.data = <<>> => Len(buffer'.data) = 1
<1>1. /\ hand \in Seq(Sized) /\ Len(hand) = 1 /\ Bytes(InHand) \in Nat
      /\ b.data \in Seq(Sized) /\ Len(b.data) \in Nat /\ b.length \in Nat
  BY HandType DEF Buffers
<1>2. buffer' = [data |-> b.data \o hand, length |-> b.length + Bytes(InHand)]
  BY DEF Appends
<1>3. b.data \o hand \in Seq(Sized) /\ Len(b.data \o hand) = Len(b.data) + 1
  <2>1. Len(b.data \o hand) = Len(b.data) + Len(hand)
    BY <1>1, ConcatProperties
  <2>2. b.data \o hand \in Seq(Sized)
    BY <1>1, ConcatProperties
  <2> QED
    BY <1>1, <2>1, <2>2
<1>4. b.data \o hand # <<>>
  <2>1. Len(b.data \o hand) # 0
    BY <1>1, <1>3
  <2> QED
    BY <2>1
<1>5. b.data = <<>> => Len(b.data \o hand) = 1
  BY <1>1, <1>3
<1> QED
  BY <1>1, <1>2, <1>3, <1>4, <1>5 DEF Buffers

LEMMA NewBlock ==
  ASSUME QueueTypes, BlockTypes
  PROVE  Block(buffer, offset[current]) \in DataBlocks
BY DEF QueueTypes, BlockTypes, Block, DataBlocks

LEMMA WorkBlockTypes ==
  ASSUME QueueTypes, BlockTypes, CompressedWork
  PROVE  BlockTypes'
<1>1. /\ offset \in [DataGroups -> Nat] /\ buffer \in Buffers /\ dl \in Seq(DataBlocks)
      /\ stored \in [DataGroups -> Seq(DataBlocks)] /\ current \in DataGroups
      /\ buffer.length \in Nat /\ offset[current] \in Nat
      /\ before \in [DataGroups -> Nat]
  BY DEF BlockTypes, Buffers, QueueTypes
<1>2. EmptyBuffer \in Buffers
  BY EmptyBufferType
<1>3. CASE Quiet
  <2>1. UNCHANGED <<offset, stored, before>>
    BY <1>3, QuietSteps
  <2>2. UNCHANGED <<buffer, dl>> \/ (dl' = <<>> /\ buffer' = EmptyBuffer)
    BY <1>3, QuietSteps
  <2>3. <<>> \in Seq(DataBlocks)
    OBVIOUS
  <2>4. dl' \in Seq(DataBlocks) /\ buffer' \in Buffers
    BY <1>1, <1>2, <2>2, <2>3, Zenon
  <2> QED
    BY <1>1, <2>1, <2>4 DEF BlockTypes, Buffers
<1>4. CASE AppendSample
  <2>1. pc = "write" /\ Appends(buffer) /\ UNCHANGED <<offset, dl, stored, before>>
    BY <1>4 DEF AppendSample, Appends
  <2> QED
    BY <1>1, <2>1, Appended DEF BlockTypes, Buffers
<1>5. CASE PurgeBuffer
  <2>1. /\ pc = "write" /\ Appends(EmptyBuffer) /\ UNCHANGED <<stored, before>>
        /\ dl' = Append(dl, Block(buffer, offset[current]))
        /\ offset' = [offset EXCEPT ![current] = @ + buffer.length]
    BY <1>5 DEF PurgeBuffer, Appends
  <2>2. buffer' \in Buffers
    BY <1>2, <2>1, Appended
  <2>3. dl' \in Seq(DataBlocks) /\ offset' \in [DataGroups -> Nat]
    BY <1>1, <2>1, NewBlock
  <2> QED
    BY <1>1, <2>1, <2>2, <2>3 DEF BlockTypes, Buffers
<1>6. CASE StoreBlocks
  <2>1. /\ buffer' = EmptyBuffer /\ dl' = <<>> /\ UNCHANGED before
        /\ stored' = [stored EXCEPT ![current] = @ \o Blocks]
        /\ offset' = [offset EXCEPT ![current] = @ + buffer.length]
    BY <1>6 DEF StoreBlocks
  <2>2. Blocks \in Seq(DataBlocks)
    BY <1>1, NewBlock DEF Blocks
  <2>3. stored[current] \o Blocks \in Seq(DataBlocks)
    BY <1>1, <2>2
  <2>4. stored' \in [DataGroups -> Seq(DataBlocks)] /\ offset' \in [DataGroups -> Nat]
    BY <1>1, <2>1, <2>3
  <2> QED
    BY <1>2, <2>1, <2>4 DEF BlockTypes, Buffers
<1> QED
  BY <1>3, <1>4, <1>5, <1>6, WorkCases

LEMMA ClientBlockTypes ==
  ASSUME BlockTypes, CompressedClient
  PROVE  BlockTypes'
<1>1. \A d \in DataGroups : Len(stored[d]) \in Nat
  BY DEF BlockTypes
<1>2. before' \in [DataGroups -> Nat] /\ offset' \in [DataGroups -> Nat]
  BY <1>1, CompressedSteps DEF BlockTypes
<1> QED
  BY <1>2, CompressedSteps DEF BlockTypes

-----------------------------------------------------------------------------
(* BlockInv *)

LEMMA ConcatAppend ==
  ASSUME NEW S, NEW s \in Seq(S), NEW t \in Seq(S), NEW e \in S
  PROVE  s \o Append(t, e) = Append(s \o t, e)
<1>1. <<e>> \in Seq(S) /\ s \o t \in Seq(S)
  OBVIOUS
<1>2. Append(t, e) = t \o <<e>> /\ Append(s \o t, e) = (s \o t) \o <<e>>
  BY <1>1, AppendIsConcat
<1>3. s \o (t \o <<e>>) = (s \o t) \o <<e>>
  BY <1>1, ConcatAssociative
<1> QED
  BY <1>2, <1>3

\* One more block, at the end of the others
LEMMA AppendBlock ==
  ASSUME NEW bs \in Seq(DataBlocks), NEW b \in DataBlocks, NEW n \in Nat, n <= Len(bs),
         Contiguous(bs, n), b.offset = EndOffset(bs, n)
  PROVE  /\ Contiguous(Append(bs, b), n)
         /\ EndOffset(Append(bs, b), n) = b.offset + b.length
<1> DEFINE e == Append(bs, b)
<1>1. PICK k \in Nat : k = Len(bs)
  BY LenProperties
<1>2. e \in Seq(DataBlocks) /\ Len(e) = k + 1 /\ e[k + 1] = b
  BY <1>1, AppendProperties
<1>3. \A i \in 1 .. k : e[i] = bs[i]
  BY <1>1, AppendProperties
<1>4. DOMAIN e = 1 .. k + 1 /\ DOMAIN bs = 1 .. k
  BY <1>1, <1>2, LenProperties
<1>6. EndOffset(e, n) = b.offset + b.length
  <2>1. ~(Len(e) <= n)
    BY <1>1, <1>2
  <2> HIDE DEF e
  <2>2. EndOffset(e, n) = e[Len(e)].offset + e[Len(e)].length
    BY <2>1, Zenon DEF EndOffset
  <2> QED
    BY <1>2, <2>2
<1> HIDE DEF e
<1>7. ASSUME NEW i \in 1 .. k + 1, i > n
      PROVE  e[i].offset = IF i = n + 1 THEN 0 ELSE e[i - 1].offset + e[i - 1].length
  <2>1. CASE i \in 1 .. k
    <3>1. e[i] = bs[i]
      BY <1>3, <2>1
    <3>2. i # n + 1 => e[i - 1] = bs[i - 1]
      <4>1. i # n + 1 => i - 1 \in 1 .. k
        BY <1>7, <2>1
      <4> QED
        BY <1>3, <4>1
    <3>3. bs[i].offset = IF i = n + 1 THEN 0 ELSE bs[i - 1].offset + bs[i - 1].length
      BY <1>4, <1>7, <2>1, Zenon DEF Contiguous
    <3> QED
      BY <3>1, <3>2, <3>3, Zenon
  <2>2. CASE i = k + 1 /\ k = n
    <3>1. e[i] = b /\ i = n + 1 /\ Len(bs) <= n
      BY <1>1, <1>2, <2>2
    <3>2. EndOffset(bs, n) = 0
      BY <3>1, Zenon DEF EndOffset
    <3> QED
      BY <3>1, <3>2, Zenon
  <2>3. CASE i = k + 1 /\ k # n
    <3>1. i # n + 1 /\ i - 1 = k /\ k \in 1 .. k
      BY <1>1, <2>3
    <3>2. ~(Len(bs) <= n)
      BY <1>1, <2>3
    <3>3. EndOffset(bs, n) = bs[Len(bs)].offset + bs[Len(bs)].length
      BY <3>2, Zenon DEF EndOffset
    <3>4. e[i] = b /\ e[i - 1] = bs[Len(bs)]
      BY <1>1, <1>2, <1>3, <2>3, <3>1, Zenon
    <3> QED
      BY <3>1, <3>3, <3>4, Zenon
  <2>4. i \in 1 .. k \/ i = k + 1
    OBVIOUS
  <2> QED
    BY ONLY <2>1, <2>2, <2>3, <2>4, Zenon
<1>5. Contiguous(e, n)
  BY <1>4, <1>7, Zenon DEF Contiguous
<1> QED
  BY <1>5, <1>6 DEF e

LEMMA BlocksOfType ==
  ASSUME BlockTypes, NEW d \in DataGroups
  PROVE  BlocksOf(d) \in Seq(DataBlocks) /\ (dl = <<>> => BlocksOf(d) = stored[d])
<1>1. stored[d] \in Seq(DataBlocks) /\ dl \in Seq(DataBlocks)
  BY DEF BlockTypes
<1>2. stored[d] \o <<>> = stored[d]
  BY <1>1, ConcatEmptySeq
<1>3. stored[d] \o dl \in Seq(DataBlocks)
  BY <1>1
<1>4. BlocksOf(d) = stored[d] \/ BlocksOf(d) = stored[d] \o dl
  BY DEF BlocksOf
<1> QED
  BY <1>1, <1>2, <1>3, <1>4


\* The blocks from before are stored
LEMMA BeforeType ==
  ASSUME BlockTypes, BlockInv, NEW d \in DataGroups
  PROVE  /\ before[d] \in Nat /\ Len(stored[d]) \in Nat /\ Len(BlocksOf(d)) \in Nat
         /\ before[d] <= Len(stored[d]) /\ Len(stored[d]) <= Len(BlocksOf(d))
<1>1. stored[d] \in Seq(DataBlocks) /\ dl \in Seq(DataBlocks) /\ before[d] \in Nat
  BY DEF BlockTypes
<1>2. Len(stored[d]) \in Nat /\ Len(dl) \in Nat
  BY <1>1, LenProperties
<1>3. Len(stored[d] \o dl) = Len(stored[d]) + Len(dl)
  BY <1>1, ConcatProperties
<1> QED
  BY <1>1, <1>2, <1>3 DEF BlocksOf, BlockInv

\* A step that stores nothing
LEMMA BlocksUnchanged ==
  ASSUME BlockTypes, BlockInv,
         UNCHANGED <<buffer, dl, stored, offset, before>>,
         pc \in InFlush => pc' \in InFlush /\ current' = current
  PROVE  BlockInv'
<1>1. current' = current \/ (dl = <<>> /\ buffer = EmptyBuffer)
  BY DEF BlockInv
<1>2. ASSUME NEW d \in DataGroups PROVE BlocksOf(d)' = BlocksOf(d)
  <2>1. CASE current' = current
    BY <2>1 DEF BlocksOf
  <2>2. CASE dl = <<>>
    <3>1. stored[d] \o <<>> = stored[d]
      BY ConcatEmptySeq DEF BlockTypes
    <3> QED
      BY <2>2, <3>1 DEF BlocksOf
  <2> QED
    BY <1>1, <2>1, <2>2
<1>4. OffsetsContiguous' /\ BlocksBelowMax'
  BY <1>2 DEF BlockInv, OffsetsContiguous, BlocksBelowMax, Contiguous
<1>5. pc' \notin InFlush => dl' = <<>> /\ buffer' = EmptyBuffer
  BY DEF BlockInv, EmptyBuffer
<1>6. \A d \in DataGroups : offset'[d] = EndOffset(BlocksOf(d)', before'[d])
  BY <1>2 DEF BlockInv
<1>7. /\ buffer'.data = <<>> => buffer'.length = 0
      /\ buffer'.length < BufferMax \/ Len(buffer'.data) = 1
      /\ \A d \in DataGroups : before'[d] <= Len(stored'[d])
  BY DEF BlockInv
<1> QED
  BY <1>4, <1>5, <1>6, <1>7 DEF BlockInv, EndOffset

\* A step that leaves the blocks of the other groups alone and appends the
\* buffer to those of the current one, or nothing
LEMMA BlocksAppended ==
  ASSUME QueueTypes, BlockTypes, BlockInv, NEW bs,
         UNCHANGED <<current, before>>,
         \/ bs = BlocksOf(current) /\ offset'[current] = offset[current]
         \/ /\ bs = Append(BlocksOf(current), Block(buffer, offset[current]))
            /\ offset'[current] = offset[current] + buffer.length,
         \A d \in DataGroups \ {current} :
           BlocksOf(d)' = BlocksOf(d) /\ offset'[d] = offset[d],
         BlocksOf(current)' = bs
  PROVE  /\ OffsetsContiguous' /\ BlocksBelowMax'
         /\ \A d \in DataGroups : offset'[d] = EndOffset(BlocksOf(d)', before'[d])
<1> DEFINE old == BlocksOf(current)
           b == Block(buffer, offset[current])
           n == before[current]
<1>1. current \in DataGroups
  BY DEF QueueTypes
<1>2. old \in Seq(DataBlocks) /\ b \in DataBlocks /\ n \in Nat /\ n <= Len(old)
  <2>1. Len(stored[current]) \in Nat /\ Len(old) \in Nat
        /\ n \in Nat /\ n <= Len(stored[current]) /\ Len(stored[current]) <= Len(old)
    BY <1>1, BeforeType
  <2>2. old \in Seq(DataBlocks) /\ b \in DataBlocks
    BY <1>1, BlocksOfType, NewBlock
  <2> QED
    BY <2>1, <2>2
<1>3. Contiguous(old, n) /\ offset[current] = EndOffset(old, n)
  BY <1>1 DEF BlockInv, OffsetsContiguous
<1>4. \A i \in DOMAIN old : old[i].length < BufferMax \/ Len(old[i].data) = 1
  BY <1>1 DEF BlockInv, BlocksBelowMax
<1>5. /\ Contiguous(bs, n) /\ offset'[current] = EndOffset(bs, n)
      /\ \A i \in DOMAIN bs : bs[i].length < BufferMax \/ Len(bs[i].data) = 1
  <2>1. CASE bs = old /\ offset'[current] = offset[current]
    BY <1>3, <1>4, <2>1
  <2>2. CASE bs = Append(old, b) /\ offset'[current] = offset[current] + buffer.length
    <3>1. b.offset = offset[current] /\ b.length = buffer.length /\ b.data = buffer.data
      BY DEF Block
    <3>0. b.offset = EndOffset(old, n)
      BY <1>3, <3>1
    <3>2. Contiguous(bs, n) /\ EndOffset(bs, n) = b.offset + b.length
      <4> HIDE DEF old, b, n
      <4> QED
        BY <1>2, <1>3, <2>2, <3>0, AppendBlock
    <3>3. b.length < BufferMax \/ Len(b.data) = 1
      BY <3>1 DEF BlockInv
    <3>4. \A i \in DOMAIN bs : (i \in DOMAIN old /\ bs[i] = old[i]) \/ bs[i] = b
      <4> HIDE DEF old, b
      <4> QED
        BY <1>2, <2>2
    <3> QED
      BY <1>4, <2>2, <3>1, <3>2, <3>3, <3>4
  <2> QED
    BY <2>1, <2>2
<1>9. before'[current] = n
  OBVIOUS
<1> HIDE DEF old, b, n
<1>6. OffsetsContiguous'
  <2> SUFFICES ASSUME NEW d \in DataGroups PROVE Contiguous(BlocksOf(d)', before'[d])
    BY DEF OffsetsContiguous, Contiguous
  <2>1. CASE d = current
    BY <1>5, <1>9, <2>1
  <2>2. CASE d # current
    BY <2>2 DEF BlockInv, OffsetsContiguous
  <2> QED
    BY <2>1, <2>2
<1>7. BlocksBelowMax'
  BY <1>5 DEF BlockInv, BlocksBelowMax
<1>8. \A d \in DataGroups : offset'[d] = EndOffset(BlocksOf(d)', before'[d])
  <2> TAKE d \in DataGroups
  <2>1. CASE d = current
    BY <1>5, <1>9, <2>1
  <2>2. CASE d # current
    BY <2>2 DEF BlockInv
  <2> QED
    BY <2>1, <2>2
<1> QED
  BY <1>6, <1>7, <1>8

LEMMA WorkBlockInv ==
  ASSUME QueueTypes, BlockTypes, BlockInv, CompressedWork
  PROVE  BlockInv'
<1>1. /\ current \in DataGroups
      /\ offset \in [DataGroups -> Nat] /\ buffer \in Buffers /\ dl \in Seq(DataBlocks)
      /\ stored \in [DataGroups -> Seq(DataBlocks)]
      /\ buffer.length \in Nat /\ offset[current] \in Nat
  BY DEF QueueTypes, BlockTypes, Buffers
<1>2. CASE Quiet
  <2>1. /\ UNCHANGED <<offset, stored, before>>
        /\ pc \in InFlush => pc' \in InFlush /\ current' = current
    BY <1>2, QuietSteps
  <2>2. UNCHANGED <<buffer, dl>>
    BY <1>2, QuietSteps DEF BlockInv, InFlush
  <2> QED
    BY <2>1, <2>2, BlocksUnchanged
<1>3. ASSUME NEW b \in Buffers, Appends(b), pc = "write", (b = buffer /\ Fits) \/ b = EmptyBuffer
      PROVE  /\ pc' \in InFlush
             /\ UNCHANGED <<current, stored, before>>
             /\ buffer'.data # <<>>
             /\ buffer'.length < BufferMax \/ Len(buffer'.data) = 1
  <2>1. /\ buffer'.data # <<>> /\ buffer'.length = b.length + Bytes(InHand)
        /\ b.data = <<>> => Len(buffer'.data) = 1
    BY <1>3, Appended
  <2>2. buffer'.length < BufferMax \/ Len(buffer'.data) = 1
    <3>1. CASE b = buffer /\ Fits
      <4>1. /\ Bytes(InHand) \in Nat /\ MaxBytes(InHand) \in Nat
            /\ Bytes(InHand) <= MaxBytes(InHand)
        BY <1>3, HandType
      <4>2. buffer.length + MaxBytes(InHand) < BufferMax
        BY <3>1 DEF Fits
      <4> QED
        BY <1>1, <2>1, <3>1, <4>1, <4>2, BufferAssumption
    <3>2. CASE b = EmptyBuffer
      BY <2>1, <3>2 DEF EmptyBuffer
    <3> QED
      BY <1>3, <3>1, <3>2
  <2>3. pc' = "drain" /\ UNCHANGED <<current, stored, before>>
    BY <1>3 DEF Appends
  <2> QED
    BY <2>1, <2>2, <2>3 DEF InFlush
<1>4. CASE AppendSample
  <2>1. pc = "write" /\ Fits /\ Appends(buffer) /\ UNCHANGED <<offset, dl>>
    BY <1>4 DEF AppendSample
  <2>2. /\ pc' \in InFlush
        /\ UNCHANGED <<current, stored, before>>
        /\ buffer'.data # <<>>
        /\ buffer'.length < BufferMax \/ Len(buffer'.data) = 1
    BY <1>1, <1>3, <2>1
  <2>3. \A d \in DataGroups : BlocksOf(d)' = BlocksOf(d)
    BY <2>1, <2>2 DEF BlocksOf
  <2>4. /\ OffsetsContiguous' /\ BlocksBelowMax'
        /\ \A d \in DataGroups : offset'[d] = EndOffset(BlocksOf(d)', before'[d])
    BY <1>1, <2>1, <2>2, <2>3, BlocksAppended
  <2>5. \A d \in DataGroups : before'[d] <= Len(stored'[d])
    BY <2>2 DEF BlockInv
  <2> QED
    BY <2>2, <2>4, <2>5 DEF BlockInv, EndOffset
<1>5. CASE PurgeBuffer
  <2>1. /\ pc = "write" /\ Appends(EmptyBuffer)
        /\ dl' = Append(dl, Block(buffer, offset[current]))
        /\ offset' = [offset EXCEPT ![current] = @ + buffer.length]
    BY <1>5 DEF PurgeBuffer
  <2>2. /\ pc' \in InFlush
        /\ UNCHANGED <<current, stored, before>>
        /\ buffer'.data # <<>>
        /\ buffer'.length < BufferMax \/ Len(buffer'.data) = 1
    BY <1>3, <2>1, EmptyBufferType
  <2>3. BlocksOf(current)' = Append(BlocksOf(current), Block(buffer, offset[current]))
    <3>1. BlocksOf(current)' = stored[current] \o Append(dl, Block(buffer, offset[current]))
      BY <2>1, <2>2 DEF BlocksOf
    <3>2. stored[current] \in Seq(DataBlocks) /\ Block(buffer, offset[current]) \in DataBlocks
      BY <1>1, NewBlock
    <3>3. stored[current] \o Append(dl, Block(buffer, offset[current]))
            = Append(stored[current] \o dl, Block(buffer, offset[current]))
      BY <1>1, <3>2, ConcatAppend
    <3>4. BlocksOf(current) = stored[current] \o dl
      BY DEF BlocksOf
    <3> QED
      BY <3>1, <3>3, <3>4, Zenon
  <2>4. \A d \in DataGroups \ {current} : BlocksOf(d)' = BlocksOf(d) /\ offset'[d] = offset[d]
    BY <1>1, <2>1, <2>2 DEF BlocksOf
  <2>5. offset'[current] = offset[current] + buffer.length
    BY <1>1, <2>1
  <2>6. /\ OffsetsContiguous' /\ BlocksBelowMax'
        /\ \A d \in DataGroups : offset'[d] = EndOffset(BlocksOf(d)', before'[d])
    BY <2>2, <2>3, <2>4, <2>5, BlocksAppended
  <2>7. \A d \in DataGroups : before'[d] <= Len(stored'[d])
    BY <2>2 DEF BlockInv
  <2> QED
    BY <2>2, <2>6, <2>7 DEF BlockInv, EndOffset
<1>6. CASE StoreBlocks
  <2>1. /\ pc' = "round" /\ pc' \notin InFlush
        /\ UNCHANGED <<current, before>> /\ dl' = <<>> /\ buffer' = EmptyBuffer
        /\ stored' = [stored EXCEPT ![current] = @ \o Blocks]
        /\ offset' = [offset EXCEPT ![current] = @ + buffer.length]
    BY <1>6 DEF StoreBlocks, UpdateAndCloseFile, InFlush
  <2>0. /\ Blocks \in Seq(DataBlocks)
        /\ stored'[current] = stored[current] \o Blocks /\ stored'[current] \in Seq(DataBlocks)
    <3>1. Blocks \in Seq(DataBlocks)
      BY <1>1, NewBlock DEF Blocks
    <3> QED
      BY <1>1, <2>1, <3>1
  <2>2. BlocksOf(current)' = stored[current] \o Blocks
    <3>3. stored'[current] \o <<>> = stored'[current]
      BY <2>0, ConcatEmptySeq
    <3> QED
      BY <2>0, <2>1, <3>3 DEF BlocksOf
  <2>3. offset'[current] = offset[current] + buffer.length
    BY <1>1, <2>1
  <2>4. \A d \in DataGroups \ {current} : BlocksOf(d)' = BlocksOf(d) /\ offset'[d] = offset[d]
    BY <1>1, <2>1 DEF BlocksOf
  <2>5. \/ BlocksOf(current)' = BlocksOf(current) /\ offset'[current] = offset[current]
        \/ /\ BlocksOf(current)' = Append(BlocksOf(current), Block(buffer, offset[current]))
           /\ offset'[current] = offset[current] + buffer.length
    <3>1. CASE buffer.data = <<>>
      <4>1. buffer.length = 0
        BY <3>1 DEF BlockInv
      <4>2. offset'[current] = offset[current]
        BY <1>1, <2>3, <4>1
      <4>3. BlocksOf(current) = stored[current] \o dl /\ Blocks = dl
        BY <3>1 DEF Blocks, BlocksOf
      <4> QED
        BY <2>2, <4>2, <4>3, Zenon
    <3>2. CASE buffer.data # <<>>
      <4>2. stored[current] \in Seq(DataBlocks) /\ Block(buffer, offset[current]) \in DataBlocks
        BY <1>1, NewBlock
      <4>3. BlocksOf(current)' = Append(BlocksOf(current), Block(buffer, offset[current]))
        <5>1. Blocks = Append(dl, Block(buffer, offset[current]))
          BY <3>2 DEF Blocks
        <5>2. stored[current] \o Append(dl, Block(buffer, offset[current]))
                = Append(stored[current] \o dl, Block(buffer, offset[current]))
          BY <1>1, <4>2, ConcatAppend
        <5>3. BlocksOf(current) = stored[current] \o dl
          BY DEF BlocksOf
        <5> QED
          BY <2>2, <5>1, <5>2, <5>3, Zenon
      <4> QED
        BY <2>3, <4>3
    <3> QED
      BY <3>1, <3>2
  <2>6. /\ OffsetsContiguous' /\ BlocksBelowMax'
        /\ \A d \in DataGroups : offset'[d] = EndOffset(BlocksOf(d)', before'[d])
    BY <2>1, <2>4, <2>5, BlocksAppended
  <2>7. \A d \in DataGroups : before'[d] <= Len(stored'[d])
    <3> TAKE d \in DataGroups
    <3>1. CASE d = current
      <4>1. /\ Len(stored[current]) \in Nat /\ Len(Blocks) \in Nat
            /\ Len(stored[current] \o Blocks) = Len(stored[current]) + Len(Blocks)
        BY <1>1, <2>0, ConcatProperties, LenProperties
      <4>2. before[current] \in Nat /\ before[current] <= Len(stored[current])
        BY <1>1, BeforeType
      <4> QED
        BY <2>0, <2>1, <3>1, <4>1, <4>2
    <3>2. CASE d # current
      BY <1>1, <2>1, <3>2 DEF BlockInv
    <3> QED
      BY <3>1, <3>2
  <2>8. buffer'.data = <<>> /\ buffer'.length = 0 /\ buffer'.length < BufferMax
    BY <2>1, BufferAssumption DEF EmptyBuffer
  <2> QED
    BY <2>1, <2>6, <2>7, <2>8 DEF BlockInv, EndOffset
<1> QED
  BY <1>2, <1>4, <1>5, <1>6, WorkCases

LEMMA ClientBlockInv ==
  ASSUME QueueTypes, VisitInv, BlockTypes, BlockInv, CompressedClient
  PROVE  BlockInv'
<1>1. /\ Client /\ UNCHANGED <<buffer, dl, stored>>
      /\ \/ UNCHANGED <<offset, before>>
         \/ /\ InitExit \/ StopExit
            /\ offset' = [d \in DataGroups |-> 0]
            /\ before' = [d \in DataGroups |-> Len(stored[d])]
  BY CompressedSteps
<1>2. UNCHANGED current /\ (pc' = pc \/ pc = "none")
  BY <1>1 DEF VisitInv, Client, CallContinues, InitExit, InitFails, InitWrites, StartSetsTime,
     StartReturns, StopExit, ThreadJoined, StartRecalculates, InitMeasurement,
     FinalizeMeasurement, StartMeasurement, StopMeasurement, CreateDataGroup,
     SaveSample, FinalizeWrites, cacheVars, threadVars, queueVars, fileVars
<1>3. CASE UNCHANGED <<offset, before>>
  BY <1>1, <1>2, <1>3, BlocksUnchanged DEF InFlush
<1>4. CASE /\ InitExit \/ StopExit
           /\ offset' = [d \in DataGroups |-> 0]
           /\ before' = [d \in DataGroups |-> Len(stored[d])]
  <2>1. pc = "none" /\ pc' = "none"
    BY <1>4 DEF InitExit, StopExit, ThreadJoined, threadVars
  <2>2. dl = <<>> /\ buffer = EmptyBuffer
    BY <2>1 DEF BlockInv, InFlush
  <2>3. ASSUME NEW d \in DataGroups PROVE BlocksOf(d)' = BlocksOf(d) /\ BlocksOf(d) = stored[d]
    BY <1>1, <1>2, <2>2, BlocksOfType DEF BlocksOf
  <2>4. ASSUME NEW d \in DataGroups
        PROVE  /\ before'[d] = Len(stored[d]) /\ Len(stored[d]) \in Nat
               /\ DOMAIN stored[d] = 1 .. Len(stored[d])
    BY <1>4 DEF BlockTypes
  <2>5. OffsetsContiguous'
    <3> SUFFICES ASSUME NEW d \in DataGroups PROVE Contiguous(BlocksOf(d)', before'[d])
      BY DEF OffsetsContiguous, Contiguous
    <3>1. \A i \in DOMAIN stored[d] : ~(i > before'[d])
      BY <2>4
    <3> QED
      BY <2>3, <3>1 DEF Contiguous
  <2>6. BlocksBelowMax'
    BY <2>3 DEF BlockInv, BlocksBelowMax
  <2>7. \A d \in DataGroups : offset'[d] = EndOffset(BlocksOf(d)', before'[d])
    BY <1>4, <2>3, <2>4 DEF EndOffset
  <2>8. \A d \in DataGroups : before'[d] <= Len(stored'[d])
    BY <1>1, <2>4
  <2> QED
    BY <1>1, <2>1, <2>2, <2>5, <2>6, <2>7, <2>8 DEF BlockInv, EndOffset, EmptyBuffer
<1> QED
  BY <1>1, <1>3, <1>4

-----------------------------------------------------------------------------
(* The theorems *)

BlocksInv == QueueTypes /\ VisitInv /\ BlockTypes /\ BlockInv

LEMMA InitBlocksInv == CompressedInit => BlocksInv
<1> SUFFICES ASSUME CompressedInit PROVE BlocksInv
  OBVIOUS
<1> USE DEF CompressedInit, Init
<1>1. QueueTypes
  BY TimesInRange, BoundsAssumption DEF QueueTypes
<1>2. VisitInv
  BY DEF VisitInv, InFlush
<1>3. BlockTypes
  BY EmptyBufferType DEF BlockTypes, Buffers
<1>4. \A d \in DataGroups : BlocksOf(d) = <<>>
  BY DEF BlocksOf
<1>5. BlockInv
  <2>1. OffsetsContiguous /\ BlocksBelowMax
    BY <1>4 DEF OffsetsContiguous, Contiguous, BlocksBelowMax
  <2> QED
    BY <1>4, <2>1, BufferAssumption, Len(<<>>) = 0 DEF BlockInv, EmptyBuffer, InFlush, EndOffset
<1> QED
  BY <1>1, <1>2, <1>3, <1>5 DEF BlocksInv

LEMMA NextBlocksInv == BlocksInv /\ [CompressedNext]_cvars => BlocksInv'
<1> SUFFICES ASSUME BlocksInv, [CompressedNext]_cvars PROVE BlocksInv'
  OBVIOUS
<1>0. QueueTypes /\ VisitInv /\ BlockTypes /\ BlockInv
  BY DEF BlocksInv
<1>1. CASE CompressedWork
  <2>1. QueueTypes' /\ VisitInv'
    BY <1>0, <1>1, WorkQueueTypes, WorkCases, QuietVisits, StoringVisits
  <2>2. BlockTypes' /\ BlockInv'
    BY <1>0, <1>1, WorkBlockTypes, WorkBlockInv
  <2> QED
    BY <2>1, <2>2 DEF BlocksInv
<1>2. CASE CompressedClient
  <2>1. QueueTypes' /\ VisitInv'
    BY <1>0, <1>2, CompressedSteps, ClientQueueTypes, ClientVisits
  <2>2. BlockTypes' /\ BlockInv'
    BY <1>0, <1>2, ClientBlockTypes, ClientBlockInv
  <2> QED
    BY <2>1, <2>2 DEF BlocksInv
<1>3. CASE UNCHANGED cvars
  <2> USE <1>0, <1>3 DEF cvars, compressVars, vars, cacheVars, clientVars, writerVars,
                         queueVars, threadVars, fileVars
  <2>1. QueueTypes' /\ VisitInv' /\ BlockTypes'
    BY DEF QueueTypes, VisitInv, BlockTypes
  <2>2. BlockInv'
    BY BlocksUnchanged DEF QueueTypes
  <2> QED
    BY <2>1, <2>2 DEF BlocksInv
<1> QED
  BY <1>1, <1>2, <1>3 DEF CompressedNext

\* Over all flushes of a measurement the offsets in the DL blocks of a data group
\* are the number of data bytes the measurement has stored before each block, for
\* samples of any shapes, any block size and any interleaving of the client with
\* the thread: offset_ is updated when a buffer is purged and when a flush ends,
\* and is not changed for a sample that is pushed back.  Every queue begins with
\* offset 0, so that the blocks of a data group that gets a queue in two
\* measurements, as one with an empty channel group does, start from 0 twice.
THEOREM OffsetsAddUp == CompressedSpec => []OffsetsContiguous
<1>1. BlocksInv => OffsetsContiguous
  BY DEF BlocksInv, BlockInv
<1> QED
  BY <1>1, InitBlocksInv, NextBlocksInv, PTL DEF CompressedSpec

\* No data block, on disk or in a DL block being built, reaches buffer_max,
\* unless it holds a single sample: neither a purge nor the end of a flush
\* makes a block larger, whichever samples it has taken: what is appended is at
\* most what a block was checked to have room for.
THEOREM BlocksStayBelowMax == CompressedSpec => []BlocksBelowMax
<1>1. BlocksInv => BlocksBelowMax
  BY DEF BlocksInv, BlockInv
<1> QED
  BY <1>1, InitBlocksInv, NextBlocksInv, PTL DEF CompressedSpec
-----------------------------------------------------------------------------
(* SizeOf *)

LEMMA SizeSum ==
  ASSUME NEW q, NEW n \in Nat, \A i \in 1 .. n : SampleSize(q[i]) \in Nat
  PROVE  \E g, v : /\ v \in [1 .. n -> Nat] /\ IsSum(g, v, n)
                   /\ \A i \in 1 .. n : v[i] = SampleSize(q[i])
                   /\ SizeOf(q, n) = g[n]
<1> DEFINE IsBytes(g) == g = [i \in 0 .. n |-> IF i = 0 THEN 0 ELSE g[i - 1] + SampleSize(q[i])]
           bytes == CHOOSE g : IsBytes(g)
<1>1. PICK v \in [1 .. n -> Nat] : \A i \in 1 .. n : v[i] = SampleSize(q[i])
  <2> DEFINE w == [i \in 1 .. n |-> SampleSize(q[i])]
  <2>1. w \in [1 .. n -> Nat] /\ \A i \in 1 .. n : w[i] = SampleSize(q[i])
    OBVIOUS
  <2> QED
    BY <2>1
<1>2. ASSUME NEW g PROVE IsBytes(g) <=> IsSum(g, v, n)
  <2>1. \A i \in 0 .. n : i # 0 => v[i] = SampleSize(q[i])
    BY <1>1
  <2>2. [i \in 0 .. n |-> IF i = 0 THEN 0 ELSE g[i - 1] + SampleSize(q[i])]
          = [i \in 0 .. n |-> IF i = 0 THEN 0 ELSE g[i - 1] + v[i]]
    BY <2>1
  <2> QED
    BY <2>2 DEF IsSum
<1>3. \E g : IsBytes(g)
  <2>1. \E g : IsSum(g, v, n)
    BY SumExists
  <2> QED
    BY <1>2, <2>1
<1>4. IsBytes(bytes)
  <2> HIDE DEF IsBytes
  <2> QED
    BY <1>3, Zenon
<1>5. SizeOf(q, n) = bytes[n]
  BY DEF SizeOf
<1> HIDE DEF IsBytes, bytes
<1> QED
  BY <1>1, <1>2, <1>4, <1>5

\* The bytes of a queue depend on the lengths of its samples.
LEMMA SizeSame ==
  ASSUME NEW q, NEW r, NEW n \in Nat,
         \A i \in 1 .. n : SampleSize(q[i]) \in Nat /\ SampleSize(r[i]) = SampleSize(q[i])
  PROVE  SizeOf(r, n) = SizeOf(q, n) /\ SizeOf(q, n) \in Nat
<1>1. PICK g, v : /\ v \in [1 .. n -> Nat] /\ IsSum(g, v, n)
                  /\ \A i \in 1 .. n : v[i] = SampleSize(q[i])
                  /\ SizeOf(q, n) = g[n]
  BY SizeSum
<1>2. PICK h, w : /\ w \in [1 .. n -> Nat] /\ IsSum(h, w, n)
                  /\ \A i \in 1 .. n : w[i] = SampleSize(r[i])
                  /\ SizeOf(r, n) = h[n]
  BY SizeSum
<1>3. n \in 0 .. n /\ n <= n /\ \A i \in 1 .. n : v[i] = w[i]
  BY <1>1, <1>2
<1>4. \A i \in 0 .. n : g[i] = h[i]
  BY <1>1, <1>2, <1>3, SumSame
<1>5. g \in [0 .. n -> Nat]
  BY <1>1, SumValues
<1> QED
  BY <1>1, <1>2, <1>3, <1>4, <1>5

LEMMA SizeZero ==
  ASSUME NEW q
  PROVE  SizeOf(q, 0) = 0
<1>1. 0 \in Nat /\ \A i \in 1 .. 0 : SampleSize(q[i]) \in Nat
  OBVIOUS
<1>2. PICK g, v : v \in [1 .. 0 -> Nat] /\ IsSum(g, v, 0) /\ SizeOf(q, 0) = g[0]
  BY <1>1, SizeSum
<1> QED
  BY <1>1, <1>2, SumValues

\* One more sample
LEMMA SizeStep ==
  ASSUME NEW q, NEW n \in Nat, \A i \in 1 .. n + 1 : SampleSize(q[i]) \in Nat
  PROVE  SizeOf(q, n + 1) = SizeOf(q, n) + SampleSize(q[n + 1])
<1>0. PICK m \in Nat : m = n + 1
  OBVIOUS
<1>1. m \in Nat /\ m \in 1 .. m /\ m - 1 = n /\ n \in 0 .. n /\ n <= m
  BY <1>0
<1>2. \A i \in 1 .. n : i \in 1 .. m
  BY <1>0
<1>3. \A i \in 1 .. m : SampleSize(q[i]) \in Nat
  BY <1>0
<1>4. PICK g, v : /\ v \in [1 .. m -> Nat] /\ IsSum(g, v, m)
                  /\ \A i \in 1 .. m : v[i] = SampleSize(q[i])
                  /\ SizeOf(q, m) = g[m]
  BY <1>1, <1>3, SizeSum
<1>5. PICK h, w : /\ w \in [1 .. n -> Nat] /\ IsSum(h, w, n)
                  /\ \A i \in 1 .. n : w[i] = SampleSize(q[i])
                  /\ SizeOf(q, n) = h[n]
  BY <1>2, <1>3, SizeSum
<1>6. \A i \in 1 .. n : w[i] = v[i]
  BY <1>2, <1>4, <1>5
<1>7. \A i \in 0 .. n : h[i] = g[i]
  <2>1. w \in [1 .. n -> Nat] /\ IsSum(h, w, n) /\ v \in [1 .. m -> Nat] /\ IsSum(g, v, m)
    BY <1>4, <1>5
  <2>2. n <= m
    BY <1>1
  <2> QED
    BY ONLY n \in Nat, m \in Nat, <1>6, <2>1, <2>2, SumSame, SMTT(30)
<1>8. g[m] = g[m - 1] + v[m]
  BY <1>1, <1>4, SumValues
<1> QED
  BY <1>1, <1>4, <1>5, <1>7, <1>8, <1>0

\* The samples behind the first k have the other bytes.
LEMMA SizeSplit ==
  ASSUME NEW q, NEW n \in Nat, NEW k \in 0 .. n, NEW r,
         \A i \in 1 .. n : SampleSize(q[i]) \in Nat,
         \A i \in 1 .. n - k : r[i] = q[k + i]
  PROVE  SizeOf(q, n) = SizeOf(q, k) + SizeOf(r, n - k)
<1> DEFINE m == n - k
           T == {i \in 0 .. m : SizeOf(q, k + i) = SizeOf(q, k) + SizeOf(r, i)}
<1>1. m \in Nat /\ k \in Nat /\ n = k + m
  OBVIOUS
<1>2. \A i \in 1 .. m : r[i] = q[k + i] /\ k + i \in 1 .. n /\ SampleSize(r[i]) \in Nat
  BY <1>1
<1> HIDE DEF m
<1>3. \A i \in 0 .. n : SizeOf(q, i) \in Nat
  <2> TAKE i \in 0 .. n
  <2>1. i \in Nat /\ \A j \in 1 .. i : SampleSize(q[j]) \in Nat
    OBVIOUS
  <2> QED
    BY <2>1, SizeSame
<1>4. 0 \in T
  <2>1. SizeOf(r, 0) = 0
    BY SizeZero
  <2>2. k + 0 = k /\ SizeOf(q, k) \in Nat
    BY <1>3
  <2> QED
    BY <1>1, <2>1, <2>2
<1>5. ASSUME NEW i \in 0 .. m, i # m, i \in T PROVE i + 1 \in T
  <2>1. i \in Nat /\ i + 1 \in 1 .. m /\ k + i \in Nat /\ k + i + 1 \in 1 .. n /\ k + i \in 0 .. n
        /\ k + (i + 1) = k + i + 1
    BY <1>1, <1>5
  <2>2. SizeOf(r, i + 1) = SizeOf(r, i) + SampleSize(r[i + 1])
    <3>1. \A j \in 1 .. i + 1 : SampleSize(r[j]) \in Nat
      BY <1>1, <1>2, <2>1
    <3> QED
      BY <2>1, <3>1, SizeStep
  <2>3. SizeOf(q, k + i + 1) = SizeOf(q, k + i) + SampleSize(q[k + i + 1])
    <3>1. \A j \in 1 .. k + i + 1 : SampleSize(q[j]) \in Nat
      BY <2>1
    <3> QED
      BY <2>1, <3>1, SizeStep
  <2>4. r[i + 1] = q[k + i + 1] /\ SampleSize(r[i + 1]) \in Nat
    BY <1>2, <2>1
  <2>5. SizeOf(q, k + i) = SizeOf(q, k) + SizeOf(r, i)
    BY <1>5
  <2>6. SizeOf(r, i) \in Nat /\ SizeOf(q, k) \in Nat
    <3>1. \A j \in 1 .. i : SampleSize(r[j]) \in Nat /\ SampleSize(r[j]) = SampleSize(r[j])
      BY <1>1, <1>2, <2>1
    <3> QED
      BY <1>3, <2>1, <3>1, SizeSame
  <2> HIDE DEF T
  <2>7. SizeOf(q, k + (i + 1)) = SizeOf(q, k) + SizeOf(r, i + 1)
    BY <2>1, <2>2, <2>3, <2>4, <2>5, <2>6
  <2> QED
    BY <2>1, <2>7 DEF T
<1> HIDE DEF T
<1>6. 0 .. m \subseteq T
  BY <1>1, <1>4, <1>5, SetInduction
<1>7. m \in T
  BY <1>1, <1>6
<1> QED
  BY <1>1, <1>7 DEF T, m

-----------------------------------------------------------------------------
(* What a flush has collected *)

LEMMA NoData == DataOf(<<>>) = <<>>
<1>1. [i \in DOMAIN <<>> |-> <<>>[i].data] = <<>>
  OBVIOUS
<1> QED
  BY <1>1, FlattenEmpty DEF DataOf

LEMMA DataTypes ==
  ASSUME NEW bs \in Seq(DataBlocks)
  PROVE  /\ [i \in DOMAIN bs |-> bs[i].data] \in Seq(Seq(Sized))
         /\ DataOf(bs) \in Seq(Sized)
<1>1. /\ Len(bs) \in Nat /\ DOMAIN bs = 1 .. Len(bs)
      /\ \A i \in 1 .. Len(bs) : bs[i].data \in Seq(Sized)
  <2>1. \A b \in DataBlocks : b.data \in Seq(Sized)
    BY DEF DataBlocks
  <2>2. Len(bs) \in Nat /\ DOMAIN bs = 1 .. Len(bs) /\ \A i \in 1 .. Len(bs) : bs[i] \in DataBlocks
    OBVIOUS
  <2> QED
    BY <2>1, <2>2
<1>2. [i \in DOMAIN bs |-> bs[i].data] \in [1 .. Len(bs) -> Seq(Sized)]
  BY <1>1
<1>3. [i \in DOMAIN bs |-> bs[i].data] \in Seq(Seq(Sized))
  BY <1>1, <1>2, SeqDef, Z3
<1> QED
  BY <1>3, FlattenType DEF DataOf

LEMMA DataAppend ==
  ASSUME NEW bs \in Seq(DataBlocks), NEW b \in DataBlocks
  PROVE  DataOf(Append(bs, b)) = DataOf(bs) \o b.data
<1> DEFINE s == [i \in DOMAIN bs |-> bs[i].data]
           t == [i \in DOMAIN Append(bs, b) |-> Append(bs, b)[i].data]
<1>1. s \in Seq(Seq(Sized)) /\ b.data \in Seq(Sized)
  BY DataTypes DEF DataBlocks
<1>2. t = Append(s, b.data)
  <2>1. /\ Len(bs) \in Nat /\ DOMAIN bs = 1 .. Len(bs)
        /\ DOMAIN Append(bs, b) = 1 .. Len(bs) + 1
        /\ Append(bs, b)[Len(bs) + 1] = b
        /\ \A i \in 1 .. Len(bs) : Append(bs, b)[i] = bs[i]
    OBVIOUS
  <2>2. Len(s) = Len(bs) /\ \A i \in 1 .. Len(bs) : s[i] = bs[i].data
    BY <2>1
  <2>3. /\ DOMAIN t = 1 .. Len(bs) + 1 /\ t = [i \in DOMAIN t |-> t[i]]
        /\ \A i \in 1 .. Len(bs) : t[i] = bs[i].data
        /\ t[Len(bs) + 1] = b.data
    BY <2>1
  <2> HIDE DEF s, t
  <2>4. /\ Append(s, b.data) \in Seq(Seq(Sized)) /\ Len(Append(s, b.data)) = Len(bs) + 1
        /\ \A i \in 1 .. Len(bs) : Append(s, b.data)[i] = bs[i].data
        /\ Append(s, b.data)[Len(bs) + 1] = b.data
    BY <1>1, <2>2, AppendProperties
  <2>5. /\ DOMAIN Append(s, b.data) = 1 .. Len(bs) + 1
        /\ Append(s, b.data) = [i \in DOMAIN Append(s, b.data) |-> Append(s, b.data)[i]]
    BY <2>4
  <2>6. \A i \in 1 .. Len(bs) + 1 : t[i] = Append(s, b.data)[i]
    BY <2>1, <2>3, <2>4
  <2> QED
    BY <2>3, <2>5, <2>6
<1> HIDE DEF s, t
<1>3. FlattenSeq(t) = FlattenSeq(s) \o b.data
  BY <1>1, <1>2, FlattenAppend
<1> QED
  BY <1>3 DEF DataOf, s, t

LEMMA CollectedTypes ==
  ASSUME BlockTypes, BlockInv, NEW d \in DataGroups
  PROVE  /\ DataOf(dl) \in Seq(Sized) /\ buffer.data \in Seq(Sized)
         /\ Collected(d) \in Seq(Sized)
         /\ pc \notin InFlush => Collected(d) = <<>>
<1>1. DataOf(dl) \in Seq(Sized) /\ buffer.data \in Seq(Sized)
  BY DataTypes DEF BlockTypes
<1>2. Collected(d) \in Seq(Sized)
  BY <1>1 DEF Collected
<1>3. ASSUME pc \notin InFlush PROVE Collected(d) = <<>>
  <2>1. DataOf(dl) = <<>> /\ buffer.data = <<>>
    BY <1>3, NoData DEF BlockInv, EmptyBuffer
  <2> QED
    BY <2>1, ConcatEmptySeq DEF Collected
<1> QED
  BY <1>1, <1>2, <1>3

\* A step that takes no sample from the hand leaves what was collected.
LEMMA CollectedUnchanged ==
  ASSUME BlockTypes, BlockInv, BlockTypes', BlockInv', UNCHANGED <<dl, buffer>>,
         pc \in InFlush => pc' \in InFlush /\ current' = current,
         NEW d \in DataGroups
  PROVE  Collected(d)' = Collected(d)
<1>1. CASE current' = current
  BY <1>1 DEF Collected, DataOf
<1>2. CASE pc \notin InFlush
  <2>1. DataOf(dl) = <<>> /\ buffer.data = <<>> /\ dl' = <<>> /\ buffer'.data = <<>>
    BY <1>2, NoData DEF BlockInv, EmptyBuffer
  <2>2. Collected(d) = <<>>
    BY <2>1, ConcatEmptySeq DEF Collected
  <2>3. Collected(d)' = <<>>
    BY <2>1, NoData, ConcatEmptySeq DEF Collected, DataOf
  <2> QED
    BY <2>2, <2>3
<1> QED
  BY <1>1, <1>2

-----------------------------------------------------------------------------
(* The uncompressed writer behind the compressed one *)

\* The writer whose file holds what a flush has collected as well
Whole == INSTANCE MdfWriterProofs WITH file <- WholeFile

LEMMA WholeFinite == Whole!IsFiniteSet(DataGroups)
BY DataGroupsAssumption DEF Whole!IsFiniteSet, IsFiniteSet

LEMMA SameCardinality == \A S : Whole!Cardinality(S) = Cardinality(S)
BY DEF Whole!Cardinality, Cardinality

LEMMA SameTypes == Whole!Times = Times /\ Whole!Samples = Samples /\ Whole!Clock = Clock
BY DEF Whole!Times, Times, Whole!Samples, Samples, Whole!Clock, Clock

LEMMA SameTrim == \A q, s : Whole!TrimQueue(q, s) = TrimQueue(q, s)
BY SameCardinality DEF Whole!TrimQueue, TrimQueue, Whole!Popped, Popped, Whole!StopsTrim,
   StopsTrim, Whole!Minus, Minus

LEMMA ClientIsPlain ==
  ASSUME Client, WholeFile' = WholeFile
  PROVE  Whole!Client
<1> USE DEF cacheVars, Whole!cacheVars, writerVars, Whole!writerVars,
            queueVars, Whole!queueVars, threadVars, Whole!threadVars, fileVars,
            Whole!fileVars, MayCall, Whole!MayCall
<1>1. CASE InitMeasurement
  <2>1. Whole!InitMeasurement
    BY <1>1 DEF InitMeasurement, Whole!InitMeasurement, AskThreadToStop, Whole!AskThreadToStop
  <2> QED
    BY <2>1 DEF Whole!Client
<1>2. CASE FinalizeMeasurement
  <2>1. Whole!FinalizeMeasurement
    BY <1>2 DEF FinalizeMeasurement, Whole!FinalizeMeasurement
  <2> QED
    BY <2>1 DEF Whole!Client
<1>3. CASE InitExit
  <2>1. Whole!InitExit
    BY <1>3 DEF InitExit, Whole!InitExit, ThreadJoined, Whole!ThreadJoined
  <2> QED
    BY <2>1 DEF Whole!Client, Whole!CallContinues
<1>4. CASE InitWrites
  <2>1. Whole!Active = Active /\ Whole!ActiveList = ActiveList
    BY DEF Active, Whole!Active, Configured, Whole!Configured, ActiveList, Whole!ActiveList
  <2>2. Whole!KeepsKindOfQueue
    BY <1>4, <2>1, SameCardinality DEF InitWrites, KeepsKindOfQueue, Whole!KeepsKindOfQueue
  <2>3. Whole!InitWrites
    BY <1>4, <2>1, <2>2 DEF InitWrites, Whole!InitWrites
  <2> QED
    BY <2>3 DEF Whole!Client, Whole!CallContinues
<1>5. CASE InitFails
  <2>1. Whole!InitFails
    BY <1>5 DEF InitFails, Whole!InitFails
  <2> QED
    BY <2>1 DEF Whole!Client, Whole!CallContinues
<1>6. CASE StartSetsTime
  <2>1. Whole!StartSetsTime
    BY <1>6 DEF StartSetsTime, Whole!StartSetsTime
  <2> QED
    BY <2>1 DEF Whole!Client, Whole!CallContinues
<1>7. CASE StartReturns
  <2>1. Whole!StartReturns
    BY <1>7 DEF StartReturns, Whole!StartReturns
  <2> QED
    BY <2>1 DEF Whole!Client, Whole!CallContinues
<1>8. ASSUME NEW d \in DataGroups, StartRecalculates(d) PROVE Whole!Client
  <2>1. Whole!StartRecalculates(d)
    BY <1>8 DEF StartRecalculates, Whole!StartRecalculates, RecalculateTimeMaster,
       Whole!RecalculateTimeMaster, Relative, Whole!Relative
  <2> QED
    BY <2>1 DEF Whole!Client, Whole!CallContinues
<1>9. CASE StopExit
  <2>1. Whole!StopExit
    BY <1>9 DEF StopExit, Whole!StopExit, ThreadJoined, Whole!ThreadJoined
  <2> QED
    BY <2>1 DEF Whole!Client, Whole!CallContinues
<1>10. CASE FinalizeWrites
  <2>1. Whole!FinalizeWrites
    BY <1>10 DEF FinalizeWrites, Whole!FinalizeWrites
  <2> QED
    BY <2>1 DEF Whole!Client, Whole!CallContinues
<1>11. ASSUME NEW t \in Clock, StartMeasurement(t) PROVE Whole!Client
  <2>1. Whole!StartMeasurement(t)
    BY <1>11 DEF StartMeasurement, Whole!StartMeasurement
  <2> QED
    BY <2>1, SameTypes DEF Whole!Client
<1>12. ASSUME NEW t \in FirstTime .. MaxTime, StopMeasurement(t) PROVE Whole!Client
  <2>1. Whole!StopMeasurement(t)
    BY <1>12 DEF StopMeasurement, Whole!StopMeasurement, AskThreadToStop, Whole!AskThreadToStop
  <2> QED
    BY <2>1 DEF Whole!Client
<1>13. ASSUME NEW d \in DataGroups, CreateDataGroup(d) PROVE Whole!Client
  <2>1. Whole!CreateDataGroup(d)
    BY <1>13 DEF CreateDataGroup, Whole!CreateDataGroup, Configured, Whole!Configured
  <2> QED
    BY <2>1 DEF Whole!Client
<1>14. ASSUME NEW d \in DataGroups, NEW t \in Clock, SaveSample(d, t) PROVE Whole!Client
  <2>1. Whole!SaveSample(d, t)
    BY <1>14, SameCardinality DEF SaveSample, Whole!SaveSample, Configured, Whole!Configured,
       QueuesFor, Whole!QueuesFor, RecalculateTime, Whole!RecalculateTime, AddSample,
       Whole!AddSample, Relative, Whole!Relative
  <2> QED
    BY <2>1, SameTypes DEF Whole!Client
<1> QED
  BY <1>1, <1>2, <1>3, <1>4, <1>5, <1>6, <1>7, <1>8, <1>9, <1>10, <1>11, <1>12,
     <1>13, <1>14 DEF Client, CallContinues

LEMMA WholeFileTypes ==
  ASSUME BlockTypes, BlockInv, FinalizeInv
  PROVE  /\ WholeFile \in [DataGroups -> Seq(Samples)]
         /\ \A d \in DataGroups : Collected(d) \in Seq(Samples)
         /\ pc \notin InFlush => WholeFile = file
<1>1. ASSUME NEW d \in DataGroups
      PROVE  /\ file[d] \in Seq(Samples) /\ Collected(d) \in Seq(Samples)
             /\ WholeFile[d] = file[d] \o Collected(d)
             /\ pc \notin InFlush => Collected(d) = <<>>
  <2>1. Collected(d) \in Seq(Sized) /\ (pc \notin InFlush => Collected(d) = <<>>)
    BY CollectedTypes
  <2>2. file[d] \in Seq(Samples)
    BY DEF FinalizeInv
  <2> QED
    BY <2>1, <2>2, NumberedSamples DEF WholeFile
<1>2. WholeFile \in [DataGroups -> Seq(Samples)]
  BY <1>1 DEF WholeFile
<1>3. ASSUME pc \notin InFlush PROVE WholeFile = file
  <2>1. \A d \in DataGroups : WholeFile[d] = file[d]
    BY <1>1, <1>3, ConcatEmptySeq
  <2> QED
    BY <2>1 DEF WholeFile, FinalizeInv
<1> QED
  BY <1>1, <1>2, <1>3

\* A quiet step stores and collects nothing.
LEMMA QuietWhole ==
  ASSUME BlockTypes, BlockInv, BlockTypes', BlockInv', Quiet
  PROVE  WholeFile' = WholeFile
<1>1. UNCHANGED file
  BY DEF Quiet, Wake, CleanAll, EndRound, SkipStep, CompressedTrimStep, TrimStep,
         CompressedResetStep, ResetStep, CleanStep, CleanFails, PeriodicStep, OpenFile,
         OpenFails, EndDrain, BeginBuffer, LockAndTrim, TakeFromQueue, TakeSample, FindsFull,
         PushBack, cacheVars, fileVars
<1>2. UNCHANGED <<dl, buffer>>
  BY QuietSteps DEF BlockInv, InFlush
<1>3. \A d \in DataGroups : Collected(d)' = Collected(d)
  BY <1>2, QuietSteps, CollectedUnchanged
<1> QED
  BY <1>1, <1>3 DEF WholeFile

\* The sample in the hand is collected.
LEMMA AppendsCollected ==
  ASSUME QueueTypes, BlockTypes, BlockInv, FinalizeInv, AppendSample \/ PurgeBuffer
  PROVE  /\ UNCHANGED <<file, current>> /\ current \in DataGroups
         /\ hand \in Seq(Samples) /\ file[current] \in Seq(Samples)
         /\ Collected(current)' = Collected(current) \o hand
         /\ \A d \in DataGroups : d # current => Collected(d)' = Collected(d)
<1>1. /\ UNCHANGED <<file, current>> /\ current \in DataGroups
      /\ hand \in Seq(Sized)
      /\ dl \in Seq(DataBlocks) /\ buffer.data \in Seq(Sized)
      /\ file[current] \in Seq(Samples)
  BY DEF AppendSample, PurgeBuffer, Appends, QueueTypes, BlockTypes, FinalizeInv
<1>2. DataOf(dl) \in Seq(Sized)
  BY <1>1, DataTypes
<1>3. Collected(current)' = Collected(current) \o hand
  <2>1. CASE AppendSample
    <3>1. buffer'.data = buffer.data \o hand /\ dl' = dl
      BY <2>1 DEF AppendSample, Appends
    <3>2. PICK a \in Seq(Sized), b \in Seq(Sized), c \in Seq(Sized) :
            a = DataOf(dl) /\ b = buffer.data /\ c = hand
      BY <1>1, <1>2
    <3>3. (a \o b) \o c = a \o (b \o c)
      BY ConcatAssociative
    <3> QED
      BY <1>1, <3>1, <3>2, <3>3 DEF Collected, DataOf
  <2>2. CASE PurgeBuffer
    <3> DEFINE b == Block(buffer, offset[current])
    <3>1. /\ buffer'.data = <<>> \o hand /\ dl' = Append(dl, b) /\ b.data = buffer.data
      BY <2>2 DEF PurgeBuffer, Appends, EmptyBuffer, Block
    <3>2. b \in DataBlocks
      BY NewBlock
    <3> HIDE DEF b
    <3>3. DataOf(Append(dl, b)) = DataOf(dl) \o buffer.data
      BY <1>1, <3>1, <3>2, DataAppend
    <3>4. <<>> \o hand = hand
      BY <1>1, ConcatEmptySeq
    <3>5. DataOf(dl)' = DataOf(Append(dl, b))
      BY <3>1 DEF DataOf
    <3> QED
      BY <1>1, <3>1, <3>3, <3>4, <3>5 DEF Collected
  <2> QED
    BY <2>1, <2>2
<1>4. \A d \in DataGroups : d # current => Collected(d)' = Collected(d)
  BY <1>1 DEF Collected
<1> QED
  BY <1>1, <1>3, <1>4, NumberedSamples

LEMMA AppendsWhole ==
  ASSUME QueueTypes, BlockTypes, BlockInv, FinalizeInv, AppendSample \/ PurgeBuffer
  PROVE  WholeFile' = [WholeFile EXCEPT ![current] = @ \o hand]
<1>1. /\ UNCHANGED <<file, current>> /\ current \in DataGroups
      /\ hand \in Seq(Samples) /\ file[current] \in Seq(Samples)
      /\ Collected(current)' = Collected(current) \o hand
      /\ \A d \in DataGroups : d # current => Collected(d)' = Collected(d)
  BY AppendsCollected
<1>2. WholeFile[current] = file[current] \o Collected(current)
      /\ WholeFile'[current] = file[current] \o (Collected(current) \o hand)
  BY <1>1 DEF WholeFile
<1>3. file[current] \o (Collected(current) \o hand) = (file[current] \o Collected(current)) \o hand
  <2>1. Collected(current) \in Seq(Samples)
    BY <1>1, WholeFileTypes
  <2>2. PICK a \in Seq(Samples), b \in Seq(Samples), c \in Seq(Samples) :
          a = file[current] /\ b = Collected(current) /\ c = hand
    BY <1>1, <2>1
  <2>3. (a \o b) \o c = a \o (b \o c)
    BY ConcatAssociative
  <2> QED
    BY <2>2, <2>3
<1>4. \A d \in DataGroups : d # current => WholeFile'[d] = WholeFile[d]
  BY <1>1 DEF WholeFile
<1> QED
  BY <1>1, <1>2, <1>3, <1>4 DEF WholeFile

\* What has been collected goes to the file.
LEMMA StoreCollected ==
  ASSUME QueueTypes, BlockTypes, BlockInv, FinalizeInv, StoreBlocks
  PROVE  /\ \A d \in DataGroups : Collected(d)' = <<>>
         /\ \A d \in DataGroups : file'[d] \in Seq(Samples) /\ file'[d] = file[d] \o Collected(d)
<1>1. /\ UNCHANGED current /\ current \in DataGroups
      /\ dl' = <<>> /\ buffer' = EmptyBuffer
      /\ file' = [file EXCEPT ![current] = @ \o DataOf(Blocks)]
      /\ file \in [DataGroups -> Seq(Samples)]
      /\ dl \in Seq(DataBlocks) /\ buffer.data \in Seq(Sized)
  BY DEF StoreBlocks, UpdateAndCloseFile, QueueTypes, BlockTypes, FinalizeInv
<1>2. DataOf(dl) \in Seq(Sized)
  BY <1>1, DataTypes
<1>3. DataOf(Blocks) = Collected(current)
  <2>1. CASE buffer.data = <<>>
    <3>1. Blocks = dl
      BY <2>1 DEF Blocks
    <3>2. DataOf(dl) \o <<>> = DataOf(dl)
      BY <1>2, ConcatEmptySeq
    <3> QED
      BY <2>1, <3>1, <3>2 DEF Collected
  <2>2. CASE buffer.data # <<>>
    <3> DEFINE b == Block(buffer, offset[current])
    <3>1. Blocks = Append(dl, b) /\ b.data = buffer.data
      BY <2>2 DEF Blocks, Block
    <3>2. b \in DataBlocks
      BY NewBlock
    <3> HIDE DEF b
    <3> QED
      BY <1>1, <3>1, <3>2, DataAppend DEF Collected
  <2> QED
    BY <2>1, <2>2
<1>4. \A d \in DataGroups : Collected(d)' = <<>>
  <2>1. DataOf(dl)' = <<>> /\ buffer'.data = <<>>
    BY <1>1, NoData DEF DataOf, EmptyBuffer
  <2> QED
    BY <2>1, ConcatEmptySeq DEF Collected
<1>5. \A d \in DataGroups : file'[d] \in Seq(Samples) /\ file'[d] = file[d] \o Collected(d)
  <2> TAKE d \in DataGroups
  <2>1. Collected(d) \in Seq(Samples) /\ file[d] \in Seq(Samples)
    BY <1>1, WholeFileTypes
  <2>2. CASE d = current
    BY <1>1, <1>3, <2>1, <2>2
  <2>3. CASE d # current
    <3>1. Collected(d) = <<>>
      BY <2>3 DEF Collected
    <3> QED
      BY <1>1, <2>1, <2>3, <3>1, ConcatEmptySeq
  <2> QED
    BY <2>2, <2>3
<1> QED
  BY <1>4, <1>5

LEMMA StoreWhole ==
  ASSUME QueueTypes, BlockTypes, BlockInv, FinalizeInv, StoreBlocks
  PROVE  WholeFile' = WholeFile
<1>1. \A d \in DataGroups : file'[d] \o Collected(d)' = file[d] \o Collected(d)
  BY StoreCollected, ConcatEmptySeq
<1> QED
  BY <1>1 DEF WholeFile

\* Begins to save a queue, or finds nothing to save in it, and may trim it
RoundStep == \E d \in DataGroups : CleanStep(d) \/ CleanFails(d) \/ PeriodicStep(d)

\* Every other step of the thread is one of the uncompressed writer.
LEMMA WorkIsPlain ==
  ASSUME QueueTypes, BlockTypes, BlockInv, FinalizeInv, BlockTypes', BlockInv', CompressedWork
  PROVE  \/ Whole!Work
         \/ (RoundStep \/ FindsFull \/ PushBack) /\ UNCHANGED clientVars
            /\ WholeFile' = WholeFile
<1> USE DEF clientVars, Whole!clientVars, writerVars, Whole!writerVars,
            queueVars, Whole!queueVars, fileVars, Whole!fileVars
<1>c. UNCHANGED clientVars
  BY DEF CompressedWork
<1>q. Quiet => WholeFile' = WholeFile
  BY QuietWhole
<1>1. CASE Quiet
  <2>w. WholeFile' = WholeFile
    BY <1>1, QuietWhole
  <2>1. CASE Wake \/ CleanAll \/ EndRound
    <3>1. Whole!Wake \/ Whole!CleanAll \/ Whole!EndRound
      BY <2>w, <2>1 DEF Wake, Whole!Wake, CleanAll, Whole!CleanAll, EndRound, Whole!EndRound
    <3> QED
      BY <1>c, <3>1 DEF Whole!Work, Whole!WorkThread
  <2>2. ASSUME NEW d \in DataGroups,
               SkipStep(d) \/ CompressedTrimStep(d) \/ CompressedResetStep(d)
        PROVE  Whole!Work
    <3>1. Whole!Saves = Saves /\ (Whole!Visit(d) <=> Visit(d))
      BY SameCardinality DEF Saves, Whole!Saves, SavesPeriodically, Whole!SavesPeriodically,
         Visit, Whole!Visit
    <3>2. Whole!SkipStep(d) \/ Whole!TrimStep(d) \/ Whole!ResetStep(d)
      BY <2>w, <2>2, <3>1, SameTrim DEF SkipStep, Whole!SkipStep, CompressedTrimStep, TrimStep,
         Whole!TrimStep, CompressedResetStep, ResetStep, Whole!ResetStep
    <3> QED
      BY <1>c, <3>2 DEF Whole!Work, Whole!WorkThread
  <2>3. CASE RoundStep \/ FindsFull \/ PushBack
    BY <1>c, <2>w, <2>3
  <2>4. CASE OpenFile \/ OpenFails \/ EndDrain \/ BeginBuffer \/ TakeFromQueue
    <3>1. \/ Whole!OpenFile \/ Whole!OpenFails \/ Whole!EndDrain
          \/ Whole!LockAndTrim \/ Whole!TakeSample
      BY <2>w, <2>4, SameTrim DEF OpenFile, Whole!OpenFile, OpenFails, Whole!OpenFails,
         EndDrain, Whole!EndDrain, BeginBuffer, LockAndTrim, Whole!LockAndTrim,
         TakeFromQueue, TakeSample, Whole!TakeSample, IsAfterStop, Whole!IsAfterStop
    <3> QED
      BY <1>c, <3>1 DEF Whole!Work, Whole!WorkThread, Whole!SaveSteps
  <2> QED
    BY <1>1, <2>1, <2>2, <2>3, <2>4 DEF Quiet, RoundStep
<1>2. CASE AppendSample \/ PurgeBuffer
  <2>1. WholeFile' = [WholeFile EXCEPT ![current] = @ \o hand]
    BY <1>2, AppendsWhole
  <2>2. Whole!WriteSample
    BY <1>2, <2>1 DEF AppendSample, PurgeBuffer, Appends, Whole!WriteSample
  <2> QED
    BY <1>c, <2>2 DEF Whole!Work, Whole!WorkThread, Whole!SaveSteps
<1>3. CASE StoreBlocks
  <2>1. WholeFile' = WholeFile
    BY <1>3, StoreWhole
  <2>2. Whole!UpdateAndClose
    BY <1>3, <2>1 DEF StoreBlocks, UpdateAndCloseFile, Whole!UpdateAndClose,
       Whole!UpdateAndCloseFile
  <2> QED
    BY <1>c, <2>2 DEF Whole!Work, Whole!WorkThread, Whole!SaveSteps
<1> QED
  BY <1>1, <1>2, <1>3, WorkCases

\* A step of the client stores and collects nothing.
LEMMA ClientWhole ==
  ASSUME VisitInv, BlockTypes, BlockInv, BlockTypes', BlockInv', CompressedClient
  PROVE  WholeFile' = WholeFile /\ Whole!Client /\ UNCHANGED <<file, finalize>>
<1>1. Client /\ UNCHANGED <<dl, buffer, finalize>>
  BY CompressedSteps
<1>2. UNCHANGED <<file, current>> /\ (pc' = pc \/ pc = "none")
  BY <1>1 DEF VisitInv, Client, CallContinues, InitExit, InitFails, InitWrites, StartSetsTime,
     StartReturns, StopExit, ThreadJoined, StartRecalculates, InitMeasurement,
     FinalizeMeasurement, StartMeasurement, StopMeasurement, CreateDataGroup,
     SaveSample, FinalizeWrites, cacheVars, threadVars, queueVars, fileVars
<1>3. \A d \in DataGroups : Collected(d)' = Collected(d)
  BY <1>1, <1>2, CollectedUnchanged DEF InFlush
<1>4. WholeFile' = WholeFile
  BY <1>2, <1>3 DEF WholeFile
<1> QED
  BY <1>1, <1>2, <1>4, ClientIsPlain

\* What the steps of the uncompressed writer keep
LEMMA WholeWork ==
  Whole!Work =>
    /\ Whole!TypeOK => Whole!TypeOK'
    /\ Whole!TypeOK /\ Whole!OrderInv => Whole!OrderInv'
    /\ Whole!TypeOK /\ Whole!CountInv => Whole!CountInv'
    /\ Whole!TypeOK /\ Whole!FlushInv => Whole!FlushInv'
    /\ Whole!StartInv => Whole!StartInv'
    /\ Whole!TypeOK /\ Whole!StartInv /\ Whole!FlushInv /\ Whole!KeptInv => Whole!KeptInv'
    /\ Whole!TypeOK /\ Whole!FileInv => Whole!FileInv'
    /\ Whole!TypeOK /\ Whole!OrderInv /\ Whole!TimeInv => Whole!TimeInv'
BY Whole!WorkFileInv, Whole!WorkTimeInv, Whole!WorkTypeOK, Whole!WorkOrderInv, Whole!WorkCountInv, Whole!WorkFlushInv,
   Whole!WorkStartInv, Whole!WorkKeptInv, WordAssumption, PreTrigAssumption,
   WriterTypeAssumption, SavePeriodicAssumption, ChannelGroupsAssumption, WholeFinite,
   ClockAssumption,
   BoundsAssumption, ClientAssumption

LEMMA WholeClient ==
  Whole!Client =>
    /\ Whole!TypeOK => Whole!TypeOK'
    /\ Whole!TypeOK /\ Whole!OrderInv => Whole!OrderInv'
    /\ Whole!TypeOK /\ Whole!CountInv => Whole!CountInv'
    /\ Whole!TypeOK /\ Whole!FlushInv => Whole!FlushInv'
    /\ Whole!TypeOK /\ Whole!TimeInv => Whole!TimeInv'
    /\ DocumentedOrder /\ Whole!TypeOK /\ Whole!FileInv => Whole!FileInv'
    /\ DocumentedOrder /\ ~ConcurrentSampling =>
         /\ Whole!TypeOK /\ Whole!StartInv => Whole!StartInv'
         /\ Whole!TypeOK /\ Whole!StartInv /\ Whole!FlushInv /\ Whole!KeptInv
              => Whole!KeptInv'
BY Whole!ClientFileInv, Whole!ClientTimeInv, Whole!ClientTypeOK, Whole!ClientOrderInv, Whole!ClientCountInv, Whole!ClientFlushInv,
   Whole!ClientStartInv, Whole!ClientKeptInv, WordAssumption, PreTrigAssumption,
   WriterTypeAssumption, SavePeriodicAssumption, ChannelGroupsAssumption, WholeFinite,
   ClockAssumption,
   BoundsAssumption, ClientAssumption

LEMMA WholeMeans ==
  /\ Whole!TypeOK /\ Whole!OrderInv => Whole!Fifo
  /\ Whole!TypeOK /\ Whole!KeptInv => Whole!PreTrigKept
BY Whole!OrderGivesFifo, Whole!KeptGivesPreTrig, WordAssumption, PreTrigAssumption,
   WriterTypeAssumption, SavePeriodicAssumption, ChannelGroupsAssumption, WholeFinite,
   ClockAssumption,
   BoundsAssumption, ClientAssumption

LEMMA WholeTrims ==
  ASSUME Whole!StartInv, write_state \in {"Init", "StartMeas"}, NEW d \in DataGroups
  PROVE  /\ start_time = 0 => Whole!InTime(accepted[d], Whole!Start)
         /\ start_time # 0 => start_time > PreTrig /\ start_time = Whole!Start
BY Whole!TrimsInTime, WordAssumption, PreTrigAssumption,
   WriterTypeAssumption, SavePeriodicAssumption, ChannelGroupsAssumption, WholeFinite,
   ClockAssumption,
   BoundsAssumption, ClientAssumption

LEMMA SameOrders ==
  /\ \A a : Whole!InOrder(a) <=> InOrder(a)
  /\ \A a, b : Whole!Before(a, b) <=> Before(a, b)
  /\ \A a, n : Whole!UpTo(a, n) <=> UpTo(a, n)
  /\ \A a, t : Whole!InTime(a, t) <=> InTime(a, t)
  /\ \A q, a : Whole!Follows(q, a) <=> Follows(q, a)
  /\ \A a, k, h, t : Whole!Accounted(a, k, h, t) <=> Accounted(a, k, h, t)
  /\ \A s : Whole!NumbersOf(s) = NumbersOf(s)
  /\ \A s : Whole!StampsOf(s) = StampsOf(s)
BY DEF Whole!InOrder, InOrder, Whole!Before, Before, Whole!UpTo, UpTo, Whole!InTime, InTime,
   Whole!Follows, Follows, Whole!Accounted, Accounted, Whole!NumbersOf, NumbersOf,
   Whole!StampsOf, StampsOf

-----------------------------------------------------------------------------
(* The steps the uncompressed writer does not have *)

\* What visiting a queue to save it does
LEMMA RoundSteps ==
  ASSUME RoundStep, QueueTypes
  PROVE  /\ pc = "round" /\ pc' \in {"round", "open"} /\ finalize' \in {finalize, TRUE, FALSE}
         /\ UNCHANGED <<writerVars, stop_thread, cache, masters, final, hand, stopAt,
                        users, file, nof, unused, header, decision>>
         /\ \E d \in DataGroups :
              /\ d \in todo
              /\ \/ UNCHANGED queue
                 \/ /\ ~final /\ write_state = "StartMeas"
                    /\ queue' = [queue EXCEPT ![d] = TrimQueue(@, start_time)]
              /\ unflushed' \in {unflushed, unflushed \union {d}}
              /\ \/ /\ todo' = todo \ {d} /\ pc' = pc
                    /\ UNCHANGED <<locker, current, finalize>>
                    /\ final => (queue[d] = <<>> \/ d \in unflushed') /\ UNCHANGED queue
                 \/ /\ UNCHANGED todo /\ locker' = FALSE /\ pc' = "open" /\ current' = d
                    /\ final => finalize'
<1>1. PICK d \in DataGroups : CleanStep(d) \/ CleanFails(d) \/ PeriodicStep(d)
  BY DEF RoundStep
<1>2. CASE CleanStep(d)
  BY <1>1, <1>2 DEF CleanStep, Visit, BeginsToSave, SkipsQueue, writerVars, queueVars, fileVars
<1>4. CASE CleanFails(d)
  BY <1>1, <1>4 DEF CleanFails, Visit, SkipsQueue, writerVars, queueVars
<1>3. CASE PeriodicStep(d)
  <2>1. ~final /\ write_state = "StartMeas"
    BY <1>3 DEF PeriodicStep, Cleans, Saves
  <2> QED
    BY <1>1, <1>3, <2>1 DEF PeriodicStep, Visit, BeginsToSave, SkipsQueue,
       writerVars, queueVars, fileVars
<1> QED
  BY <1>1, <1>2, <1>3, <1>4

WholeInv == Whole!TypeOK /\ Whole!OrderInv /\ Whole!CountInv /\ Whole!FlushInv

\* How a visit changes the queues and the thread's hand
LEMMA RoundQueues ==
  ASSUME RoundStep, QueueTypes, Whole!TypeOK, Whole!OrderInv, NEW e \in DataGroups
  PROVE  /\ queue[e] \in Seq(Samples) /\ queue'[e] \in Seq(Samples)
         /\ IsTailOf(queue'[e], queue[e])
         /\ hand = <<>> /\ Hand(e) = <<>> /\ Hand(e)' = <<>>
         /\ queue' \in [DataGroups -> Seq(Samples)]
<1>1. queue \in [DataGroups -> Seq(Samples)]
  BY SameTypes DEF Whole!TypeOK
<1>2. hand = <<>> /\ hand' = <<>>
  BY RoundSteps DEF Whole!OrderInv
<1>3. PICK d \in DataGroups :
        queue' = queue \/ queue' = [queue EXCEPT ![d] = TrimQueue(@, start_time)]
  BY RoundSteps
<1>4. queue'[e] = queue[e] \/ queue'[e] = TrimQueue(queue[e], start_time)
  BY <1>1, <1>3
<1>5. queue[e] \in Seq(Samples)
  BY <1>1
<1>6. queue'[e] \in Seq(Samples) /\ IsTailOf(queue'[e], queue[e])
  BY <1>4, <1>5, TrimSuffix, SameSuffix
<1>7. queue' \in [DataGroups -> Seq(Samples)]
  BY <1>1, <1>3, TrimSuffix
<1> QED
  BY <1>2, <1>5, <1>6, <1>7 DEF Hand

LEMMA RoundTypeOK ==
  ASSUME RoundStep, UNCHANGED clientVars, WholeFile' = WholeFile, QueueTypes,
         Whole!TypeOK, Whole!OrderInv
  PROVE  Whole!TypeOK'
<1>1. queue' \in [DataGroups -> Seq(Whole!Samples)]
  <2>1. PICK e : e = current /\ e \in DataGroups
    BY DEF Whole!TypeOK
  <2> QED
    BY <2>1, RoundQueues, SameTypes
<1>2. /\ pc' \in WorkerPcs /\ current' \in DataGroups
      /\ todo' \subseteq DataGroups /\ locker' \in BOOLEAN
      /\ unflushed' \subseteq DataGroups
  BY RoundSteps DEF Whole!TypeOK, WorkerPcs
<1>3. UNCHANGED <<writerVars, stop_thread, cache, masters, final, hand, stopAt,
                  users, file, nof, unused, header>>
  BY RoundSteps
<1> QED
  BY <1>1, <1>2, <1>3 DEF Whole!TypeOK, writerVars, fileVars, clientVars, WorkerPcs, Whole!WorkerPcs

LEMMA RoundOrder ==
  ASSUME RoundStep, UNCHANGED clientVars, WholeFile' = WholeFile, QueueTypes,
         Whole!TypeOK, Whole!OrderInv
  PROVE  Whole!OrderInv'
<1>1. ASSUME NEW d \in DataGroups
      PROVE  /\ Whole!Chain(WholeFile[d], Whole!Hand(d), queue[d])'
             /\ Whole!UpTo(WholeFile[d], saved)' /\ Whole!UpTo(Whole!Hand(d), saved)'
             /\ Whole!UpTo(queue[d], saved)'
  <2>1. /\ queue[d] \in Seq(Samples) /\ queue'[d] \in Seq(Samples)
        /\ IsTailOf(queue'[d], queue[d])
        /\ Whole!Hand(d) = <<>> /\ Whole!Hand(d)' = <<>>
    BY RoundQueues DEF Hand, Whole!Hand
  <2>2. /\ InOrder(WholeFile[d]) /\ InOrder(queue[d]) /\ Before(WholeFile[d], queue[d])
        /\ UpTo(WholeFile[d], saved) /\ UpTo(queue[d], saved)
    BY SameOrders DEF Whole!OrderInv, Whole!Chain
  <2>3. InOrder(queue'[d]) /\ Before(WholeFile[d], queue'[d]) /\ UpTo(queue'[d], saved)
    BY <2>1, <2>2, SuffixOrder
  <2>4. UNCHANGED <<WholeFile, saved>>
    BY DEF clientVars
  <2>5. \A a : InOrder(<<>>) /\ Before(a, <<>>) /\ Before(<<>>, a) /\ UpTo(<<>>, a)
    BY EmptyOrder
  <2> QED
    BY <2>1, <2>2, <2>3, <2>4, <2>5, SameOrders DEF Whole!Chain
<1>2. hand' = <<>>
  BY RoundSteps DEF Whole!OrderInv
<1>3. call' = "initOpen" => pc' = "none"
  BY RoundSteps DEF Whole!OrderInv, clientVars
<1> QED
  BY <1>1, <1>2, <1>3 DEF Whole!OrderInv

LEMMA RoundCount ==
  ASSUME RoundStep, UNCHANGED clientVars, WholeFile' = WholeFile, QueueTypes, Whole!CountInv
  PROVE  Whole!CountInv'
<1>1. /\ pc = "round" /\ pc' \in {"round", "open"}
      /\ UNCHANGED <<nof, header, users, hand, call>>
  BY RoundSteps DEF fileVars, clientVars
<1> QED
  BY <1>1 DEF Whole!CountInv, Whole!InFile

LEMMA RoundFlush ==
  ASSUME RoundStep, UNCHANGED clientVars, WholeFile' = WholeFile, QueueTypes,
         Whole!TypeOK, Whole!OrderInv, Whole!FlushInv
  PROVE  Whole!FlushInv'
<1> USE DEF Whole!FlushInv, Whole!InFile
<1>1. /\ pc = "round" /\ pc' \in {"round", "open"}
      /\ UNCHANGED <<write_state, start_time, stop_time, stop_thread, cache, final, hand,
                     stopAt, call>>
  BY RoundSteps DEF writerVars, fileVars, clientVars
<1>2. PICK d \in todo :
        /\ \/ UNCHANGED queue
           \/ ~final /\ queue' = [queue EXCEPT ![d] = TrimQueue(@, start_time)]
        /\ unflushed' \in {unflushed, unflushed \union {d}}
        /\ \/ todo' = todo \ {d} /\ pc' = pc
              /\ (final => queue[d] = <<>> \/ d \in unflushed')
           \/ UNCHANGED todo /\ pc' = "open" /\ current' = d
  BY RoundSteps
<1>3. \A e \in DataGroups : Hand(e) = <<>> /\ Hand(e)' = <<>> /\ queue[e] \in Seq(Samples)
  BY RoundQueues
<1>4. ASSUME final, NEW e \in cache \ todo' PROVE Whole!Flushed(e)'
  <2>1. UNCHANGED queue /\ e \in DataGroups
    BY <1>2, <1>4 DEF Whole!TypeOK
  <2>2. Whole!Pending(e) = Hand(e) \o queue[e] /\ Whole!Pending(e)' = Hand(e)' \o queue'[e]
    BY DEF Whole!Pending, Whole!Hand, Hand
  <2>3. e \in cache \ todo \/ queue[e] = <<>> \/ e \in unflushed'
    BY <1>2, <1>4
  <2>4. CASE e \in cache \ todo
    <3>1. unflushed \subseteq unflushed'
      BY <1>2
    <3> QED
      BY <1>1, <1>3, <1>4, <2>1, <2>2, <2>4, <3>1 DEF Whole!Flushed
  <2>6. CASE e \in unflushed'
    BY <2>6 DEF Whole!Flushed
  <2>5. CASE queue[e] = <<>>
    BY <1>3, <2>1, <2>2, <2>5, ConcatEmptySeq DEF Whole!Flushed
  <2> QED
    BY <2>3, <2>4, <2>5, <2>6
<1>5. todo' \subseteq cache /\ (pc' = "open" => current' \in todo')
  BY <1>1, <1>2
<1>6. call' # "initOpen"
  BY <1>1
<1> QED
  BY <1>1, <1>4, <1>5, <1>6

LEMMA RoundStart ==
  ASSUME RoundStep, UNCHANGED clientVars, QueueTypes, Whole!StartInv
  PROVE  Whole!StartInv'
BY RoundSteps DEF Whole!StartInv, clientVars, writerVars

LEMMA RoundKept ==
  ASSUME RoundStep, UNCHANGED clientVars, WholeFile' = WholeFile, QueueTypes,
         Whole!TypeOK, Whole!OrderInv, Whole!StartInv, Whole!KeptInv
  PROVE  Whole!KeptInv'
<1>1. UNCHANGED <<write_state, start_time, cache, accepted, now, argument, call>>
  BY RoundSteps DEF clientVars, writerVars
<1> SUFFICES ASSUME write_state \in {"Init", "StartMeas"}, NEW d \in cache
             PROVE  /\ Whole!Follows(Whole!Pending(d), accepted[d])'
                    /\ Whole!Accounted(accepted[d], Len(accepted[d]) - Len(Whole!Pending(d)),
                                       Whole!Held(d), Whole!Start)'
  BY <1>1 DEF Whole!KeptInv
<1>2. /\ d \in DataGroups /\ accepted[d] \in Seq(Samples)
      /\ queue \in [DataGroups -> Seq(Samples)] /\ start_time \in Times
      /\ Whole!Start \in Times
  BY SameTypes DEF Whole!TypeOK, Whole!Start
<1>3. /\ Whole!Pending(d) = queue[d] /\ Whole!Pending(d)' = queue'[d]
      /\ queue[d] \in Seq(Samples)
  <2>1. /\ Hand(d) = <<>> /\ Hand(d)' = <<>>
        /\ queue[d] \in Seq(Samples) /\ queue'[d] \in Seq(Samples)
    BY <1>2, RoundQueues
  <2> QED
    BY <2>1, ConcatEmptySeq DEF Whole!Pending, Whole!Hand, Hand
<1>4. Whole!Start' = Whole!Start /\ Whole!Held(d)' = Whole!Held(d)
  BY <1>1 DEF Whole!Start, Whole!Held, Whole!NumbersOf
<1>5. /\ Follows(queue[d], accepted[d])
      /\ Accounted(accepted[d], Len(accepted[d]) - Len(queue[d]), Whole!Held(d), Whole!Start)
  BY <1>3, SameOrders DEF Whole!KeptInv
<1>6. queue'[d] = queue[d] \/ queue'[d] = TrimQueue(queue[d], start_time)
  BY <1>2, RoundSteps
<1>7. /\ Follows(queue'[d], accepted[d])
      /\ Accounted(accepted[d], Len(accepted[d]) - Len(queue'[d]), Whole!Held(d), Whole!Start)
  <2>1. CASE queue'[d] = queue[d]
    BY <1>5, <2>1
  <2>2. CASE queue'[d] = TrimQueue(queue[d], start_time)
    <3>1. /\ start_time = 0 => InTime(accepted[d], Whole!Start)
          /\ start_time # 0 => start_time > PreTrig /\ start_time = Whole!Start
      BY <1>2, WholeTrims, SameOrders
    <3> QED
      BY <1>2, <1>3, <1>5, <2>2, <3>1, TrimFollows
  <2> QED
    BY <1>6, <2>1, <2>2
<1> QED
  BY <1>1, <1>3, <1>4, <1>7, SameOrders

LEMMA RoundFile ==
  ASSUME RoundStep, UNCHANGED clientVars, QueueTypes, Whole!FileInv
  PROVE  Whole!FileInv'
<1>1. pc = "round" /\ pc' \in {"round", "open"} /\ UNCHANGED <<users, write_state, call>>
  BY RoundSteps DEF fileVars, writerVars, clientVars
<1> QED
  BY <1>1 DEF Whole!FileInv, Whole!InFile

LEMMA RoundTime ==
  ASSUME RoundStep, UNCHANGED clientVars, WholeFile' = WholeFile, QueueTypes,
         Whole!TypeOK, Whole!OrderInv, Whole!TimeInv
  PROVE  Whole!TimeInv'
<1>1. ASSUME NEW d \in DataGroups PROVE Whole!Stamps(d)' \subseteq Whole!Stamps(d)
  <2>1. /\ StampsOf(queue'[d]) \subseteq StampsOf(queue[d])
        /\ Whole!Hand(d) = <<>> /\ Whole!Hand(d)' = <<>>
    BY RoundQueues, StampsTail DEF Whole!Hand, Hand
  <2>2. /\ Whole!Stamps(d) = StampsOf(WholeFile[d]) \union StampsOf(<<>>) \union StampsOf(queue[d])
        /\ Whole!Stamps(d)' = StampsOf(WholeFile[d]) \union StampsOf(<<>>) \union StampsOf(queue'[d])
    BY <2>1, SameOrders DEF Whole!Stamps
  <2> QED
    BY <2>1, <2>2
<1>2. UNCHANGED <<saved, now>>
  BY DEF clientVars
<1> QED
  BY <1>1, <1>2 DEF Whole!TimeInv

-----------------------------------------------------------------------------
(* A sample is pushed back *)

\* The sample in the hand is put in front of the queue it came from.
LEMMA PushQueues ==
  ASSUME PushBack, Whole!TypeOK, Whole!CountInv
  PROVE  /\ queue' = [queue EXCEPT ![current] = hand \o @]
         /\ pc = "write" /\ pc' = "close" /\ hand' = <<>>
         /\ queue \in [DataGroups -> Seq(Samples)] /\ queue' \in [DataGroups -> Seq(Samples)]
         /\ hand \in Seq(Samples) /\ current \in DataGroups
         /\ UNCHANGED <<writerVars, stop_thread, cache, masters, locker, final, todo,
                        current, stopAt, fileVars, finalize>>
         /\ \A d \in DataGroups :
              /\ Whole!Pending(d)' = Whole!Pending(d)
              /\ Whole!Pending(d) \in Seq(Samples)
<1>1. /\ queue \in [DataGroups -> Seq(Samples)] /\ hand \in Seq(Samples)
      /\ current \in DataGroups
  BY SameTypes DEF Whole!TypeOK
<1>2. /\ queue' = [queue EXCEPT ![current] = Pushes(@, InHand)]
      /\ pc = "write" /\ pc' = "close" /\ hand' = <<>>
      /\ UNCHANGED <<writerVars, stop_thread, cache, masters, locker, final, todo,
                     current, stopAt, fileVars, finalize>>
  BY DEF PushBack
<1>3. hand = <<Head(hand)>>
  <2>1. Len(hand) = 1
    BY <1>2 DEF Whole!CountInv
  <2> QED
    BY <1>1, <2>1
<1>4. queue' = [queue EXCEPT ![current] = hand \o @]
  BY <1>2, <1>3 DEF Pushes, InHand
<1>5. \A d \in DataGroups : hand \o queue[d] \in Seq(Samples)
  BY <1>1
<1>6. queue' \in [DataGroups -> Seq(Samples)]
  BY <1>1, <1>4, <1>5
<1>7. ASSUME NEW d \in DataGroups
      PROVE  Whole!Pending(d)' = Whole!Pending(d) /\ Whole!Pending(d) \in Seq(Samples)
  <2>1. queue[d] \in Seq(Samples) /\ queue'[d] \in Seq(Samples)
    BY <1>1, <1>6
  <2>2. CASE d = current
    <3>1. Whole!Pending(d) = hand \o queue[d] /\ Whole!Pending(d)' = <<>> \o queue'[d]
      BY <1>2, <2>2 DEF Whole!Pending, Whole!Hand
    <3>2. queue'[d] = hand \o queue[d]
      BY <1>1, <1>4, <2>2
    <3> QED
      BY <2>1, <3>1, <3>2, ConcatEmptySeq
  <2>3. CASE d # current
    <3>1. Whole!Pending(d) = <<>> \o queue[d] /\ Whole!Pending(d)' = <<>> \o queue'[d]
      BY <1>2, <2>3 DEF Whole!Pending, Whole!Hand
    <3>2. queue'[d] = queue[d]
      BY <1>1, <1>4, <2>3
    <3> QED
      BY <2>1, <3>1, <3>2, ConcatEmptySeq
  <2> QED
    BY <2>2, <2>3
<1> QED
  BY <1>1, <1>2, <1>4, <1>6, <1>7

LEMMA PushTypeOK ==
  ASSUME PushBack, UNCHANGED clientVars, WholeFile' = WholeFile, Whole!TypeOK, Whole!CountInv
  PROVE  Whole!TypeOK'
<1>1. /\ queue' \in [DataGroups -> Seq(Whole!Samples)] /\ hand' = <<>> /\ pc' = "close"
      /\ UNCHANGED <<writerVars, stop_thread, cache, masters, locker, final, todo,
                     current, stopAt, fileVars>>
  BY PushQueues, SameTypes
<1> QED
  BY <1>1 DEF Whole!TypeOK, writerVars, fileVars, clientVars, Whole!WorkerPcs

LEMMA PushOrder ==
  ASSUME PushBack, UNCHANGED clientVars, WholeFile' = WholeFile,
         Whole!TypeOK, Whole!CountInv, Whole!OrderInv
  PROVE  Whole!OrderInv'
<1>0. /\ queue \in [DataGroups -> Seq(Samples)] /\ hand \in Seq(Samples)
      /\ queue' = [queue EXCEPT ![current] = hand \o @] /\ hand' = <<>>
      /\ pc = "write" /\ pc' = "close" /\ UNCHANGED <<WholeFile, saved, current, call>>
      /\ WholeFile \in [DataGroups -> Seq(Samples)]
  BY PushQueues, SameTypes DEF Whole!TypeOK, clientVars
<1>1. ASSUME NEW d \in DataGroups
      PROVE  /\ Whole!Chain(WholeFile[d], Whole!Hand(d), queue[d])'
             /\ Whole!UpTo(WholeFile[d], saved)' /\ Whole!UpTo(Whole!Hand(d), saved)'
             /\ Whole!UpTo(queue[d], saved)'
  <2>0. PICK f \in Seq(Samples), h \in Seq(Samples), q \in Seq(Samples) :
          f = WholeFile[d] /\ h = Hand(d) /\ q = queue[d]
    <3>1. WholeFile[d] \in Seq(Samples) /\ Hand(d) \in Seq(Samples) /\ queue[d] \in Seq(Samples)
      BY <1>0 DEF Hand
    <3> QED
      BY <3>1
  <2>1. /\ InOrder(f) /\ InOrder(h) /\ InOrder(q)
        /\ Before(f, h) /\ Before(h, q) /\ Before(f, q)
        /\ UpTo(f, saved) /\ UpTo(h, saved) /\ UpTo(q, saved)
    BY <2>0, SameOrders DEF Whole!OrderInv, Whole!Chain, Whole!Hand, Hand
  <2>2. InOrder(h \o q) /\ Before(f, h \o q) /\ UpTo(h \o q, saved)
    BY <2>1, ConcatOrder, ConcatBefore, ConcatUpTo
  <2>3. Whole!Hand(d)' = <<>> /\ (queue'[d] = h \o q \/ queue'[d] = q)
    BY <1>0, <2>0 DEF Whole!Hand, Hand
  <2>4. \A a : InOrder(<<>>) /\ Before(a, <<>>) /\ Before(<<>>, a) /\ UpTo(<<>>, a)
    BY EmptyOrder
  <2> QED
    BY <1>0, <2>0, <2>1, <2>2, <2>3, <2>4, SameOrders DEF Whole!Chain
<1>2. call' # "initOpen"
  BY <1>0 DEF Whole!OrderInv
<1> QED
  BY <1>0, <1>1, <1>2 DEF Whole!OrderInv

LEMMA PushCount ==
  ASSUME PushBack, UNCHANGED clientVars, WholeFile' = WholeFile, Whole!TypeOK, Whole!CountInv
  PROVE  Whole!CountInv'
<1>1. /\ pc = "write" /\ pc' = "close"
      /\ UNCHANGED <<nof, header, users, current, call>>
  BY PushQueues DEF fileVars, clientVars
<1> QED
  BY <1>1 DEF Whole!CountInv, Whole!InFile

LEMMA PushFlush ==
  ASSUME PushBack, UNCHANGED clientVars, WholeFile' = WholeFile,
         Whole!TypeOK, Whole!CountInv, Whole!FlushInv, FinalizeInv
  PROVE  Whole!FlushInv'
<1> USE DEF Whole!FlushInv, Whole!InFile
<1>1. /\ pc = "write" /\ pc' = "close" /\ hand' = <<>>
      /\ UNCHANGED <<stop_thread, cache, stop_time, final, todo, current, stopAt, unflushed, call>>
      /\ \A d \in DataGroups : Whole!Pending(d)' = Whole!Pending(d)
  BY PushQueues DEF fileVars, writerVars, clientVars
<1>2. ~final
  <2>1. final => finalize
    BY <1>1 DEF FinalizeInv, InFlush
  <2>2. ~finalize
    BY DEF PushBack, FinalizeInv
  <2> QED
    BY <2>1, <2>2
<1>3. call' # "initOpen"
  BY <1>1
<1> QED
  BY <1>1, <1>2, <1>3

LEMMA PushStart ==
  ASSUME PushBack, UNCHANGED clientVars, Whole!StartInv
  PROVE  Whole!StartInv'
<1>1. UNCHANGED writerVars
  BY DEF PushBack
<1> QED
  BY <1>1 DEF Whole!StartInv, clientVars, writerVars

LEMMA PushKept ==
  ASSUME PushBack, UNCHANGED clientVars, WholeFile' = WholeFile,
         Whole!TypeOK, Whole!CountInv, Whole!KeptInv
  PROVE  Whole!KeptInv'
<1>1. /\ UNCHANGED <<write_state, start_time, cache, accepted, now, argument, call>>
      /\ \A d \in DataGroups : Whole!Pending(d)' = Whole!Pending(d)
      /\ cache \subseteq DataGroups
  BY PushQueues DEF clientVars, writerVars, Whole!TypeOK
<1>2. \A d \in cache : Whole!Start' = Whole!Start /\ Whole!Held(d)' = Whole!Held(d)
  BY <1>1 DEF Whole!Start, Whole!Held, Whole!NumbersOf
<1>3. \A d \in cache : Whole!Pending(d)' = Whole!Pending(d)
  BY <1>1
<1> QED
  BY <1>1, <1>2, <1>3, SameOrders DEF Whole!KeptInv

LEMMA PushFile ==
  ASSUME PushBack, UNCHANGED clientVars, Whole!TypeOK, Whole!CountInv, Whole!FileInv
  PROVE  Whole!FileInv'
<1>1. pc = "write" /\ pc' = "close" /\ UNCHANGED <<users, write_state, call>>
  BY PushQueues DEF fileVars, writerVars, clientVars
<1> QED
  BY <1>1 DEF Whole!FileInv, Whole!InFile

LEMMA PushTime ==
  ASSUME PushBack, UNCHANGED clientVars, WholeFile' = WholeFile,
         Whole!TypeOK, Whole!CountInv, Whole!TimeInv
  PROVE  Whole!TimeInv'
<1>0. /\ queue \in [DataGroups -> Seq(Samples)] /\ hand \in Seq(Samples)
      /\ queue' = [queue EXCEPT ![current] = hand \o @] /\ hand' = <<>>
      /\ UNCHANGED <<saved, current, now>>
  BY PushQueues DEF clientVars
<1>1. ASSUME NEW d \in DataGroups PROVE Whole!Stamps(d)' \subseteq Whole!Stamps(d)
  <2>1. queue[d] \in Seq(Samples) /\ Whole!Hand(d)' = <<>>
    BY <1>0 DEF Whole!Hand
  <2>2. StampsOf(queue'[d]) \subseteq StampsOf(Whole!Hand(d)) \union StampsOf(queue[d])
    <3>1. CASE d = current
      BY <1>0, <2>1, <3>1, StampsConcat DEF Whole!Hand
    <3>2. CASE d # current
      BY <1>0, <3>2
    <3> QED
      BY <3>1, <3>2
  <2>3. /\ Whole!Stamps(d) = StampsOf(WholeFile[d]) \union StampsOf(Whole!Hand(d))
                               \union StampsOf(queue[d])
        /\ Whole!Stamps(d)' = StampsOf(WholeFile[d]) \union StampsOf(<<>>) \union StampsOf(queue'[d])
    BY <2>1, SameOrders DEF Whole!Stamps
  <2> QED
    BY <2>2, <2>3, StampsNone
<1> QED
  BY <1>0, <1>1 DEF Whole!TimeInv

-----------------------------------------------------------------------------
(* The inductive invariant *)

LEMMA NextFinalizeInv ==
  ASSUME BlocksInv, FinalizeInv, CompressedNext, BlocksInv'
  PROVE  FinalizeInv'
<1>0. /\ QueueTypes /\ VisitInv /\ BlockTypes /\ BlockInv /\ BlockTypes' /\ BlockInv'
  BY DEF BlocksInv
<1>1. CASE CompressedClient
  <2>1. UNCHANGED <<file, finalize, decision>> /\ Client
    BY <1>0, <1>1, ClientWhole, CompressedSteps
  <2>2. (pc' = pc \/ (pc = "none" /\ pc' = "wait")) /\ UNCHANGED final
    BY <1>0, <2>1 DEF VisitInv, Client, CallContinues, InitExit, InitFails, InitWrites,
       StartSetsTime, StartReturns, StopExit, ThreadJoined, StartRecalculates, InitMeasurement,
       FinalizeMeasurement, StartMeasurement, StopMeasurement, CreateDataGroup,
       SaveSample, FinalizeWrites, cacheVars, threadVars
  <2> QED
    BY <2>1, <2>2 DEF FinalizeInv, InFlush
<1>2. CASE StoreBlocks
  <2>1. /\ pc = "close" /\ pc' = "round"
        /\ file' = [file EXCEPT ![current] = @ \o DataOf(Blocks)]
        /\ UNCHANGED <<finalize, decision>>
    BY <1>2 DEF StoreBlocks, UpdateAndCloseFile
  <2>2. Blocks \in Seq(DataBlocks)
    BY <1>0, NewBlock DEF Blocks, BlockTypes
  <2>3. DataOf(Blocks) \in Seq(Samples)
    <3>1. DataOf(Blocks) \in Seq(Sized)
      BY <2>2, DataTypes
    <3>2. Sized \subseteq Samples
      BY DEF Sized
    <3> HIDE DEF Sized
    <3> QED
      BY <3>1, <3>2
  <2>4. file \in [DataGroups -> Seq(Samples)]
    BY DEF FinalizeInv
  <2>5. \A d \in DataGroups : file[d] \o DataOf(Blocks) \in Seq(Samples)
    BY <2>3, <2>4
  <2>6. file' \in [DataGroups -> Seq(Samples)]
    BY <2>1, <2>4, <2>5
  <2> QED
    BY <2>1, <2>6 DEF FinalizeInv, InFlush
<1>3. CASE RoundStep
  <2>1. UNCHANGED <<file, final, decision>> /\ pc = "round"
        /\ (pc' = pc \/ (final => finalize'))
        /\ finalize' \in BOOLEAN
    BY <1>0, <1>3, RoundSteps DEF fileVars, FinalizeInv
  <2> QED
    BY <2>1 DEF FinalizeInv, InFlush
<1>4. CASE CompressedWork /\ ~StoreBlocks /\ ~RoundStep
  <2> USE DEF CompressedWork, CompressedThread, CompressedSaveSteps, RoundStep, compressVars,
       InFlush, Wake, CleanAll, EndRound, SkipStep, CompressedTrimStep, TrimStep, Visit,
       CompressedResetStep, ResetStep, OpenFile, OpenFails, EndDrain, BeginBuffer, LockAndTrim,
       TakeFromQueue, TakeSample, AppendSample, PurgeBuffer, Appends, FindsFull, PushBack,
       cacheVars, threadVars, fileVars
  <2>1. /\ UNCHANGED <<file, finalize>>
        /\ \/ pc' \notin InFlush \union {"open", "lock"}
           \/ pc \in InFlush \union {"open", "lock"} /\ final' = final
    BY <1>4
  <2>2. \/ decision' = "none"
        \/ UNCHANGED decision /\ pc # "write"
        \/ FindsFull
    BY <1>4
  <2>3. CASE FindsFull
    <3>1. /\ pc = "write" /\ pc' = pc
          /\ \/ decision' = "purge"
             \/ decision' = "pushBack" /\ ~finalize
      BY <2>3 DEF Purges
    <3> QED
      BY <2>1, <3>1 DEF FinalizeInv
  <2> QED
    BY <2>1, <2>2, <2>3 DEF FinalizeInv
<1> QED
  BY <1>1, <1>2, <1>3, <1>4 DEF CompressedNext

\* The inductive invariant about the samples
SamplesInv == BlocksInv /\ FinalizeInv /\ WholeInv

LEMMA InitSamplesInv == CompressedInit => SamplesInv
<1> SUFFICES ASSUME CompressedInit PROVE SamplesInv
  OBVIOUS
<1>1. BlocksInv
  BY InitBlocksInv
<1>2. /\ Init /\ file = [d \in DataGroups |-> <<>>] /\ pc = "none"
      /\ finalize = FALSE /\ decision = "none"
  BY DEF CompressedInit, Init
<1>3. FinalizeInv
  <2>1. <<>> \in Seq(Samples)
    OBVIOUS
  <2>2. file \in [DataGroups -> Seq(Samples)]
    BY <1>2, <2>1
  <2> QED
    BY <1>2, <2>2 DEF FinalizeInv, InFlush
<1>4. WholeFile = file
  BY <1>1, <1>2, <1>3, WholeFileTypes DEF BlocksInv, InFlush
<1>5. Whole!Init
  BY <1>2, <1>4 DEF Init, Whole!Init
<1>6. Whole!TypeOK /\ Whole!OrderInv
  BY <1>5, Whole!InitTypeOK, Whole!InitOrderInv, WordAssumption, PreTrigAssumption,
     WriterTypeAssumption, SavePeriodicAssumption, ChannelGroupsAssumption, WholeFinite,
   ClockAssumption,
     BoundsAssumption, ClientAssumption
<1>7. Whole!CountInv /\ Whole!FlushInv
  BY <1>5 DEF Whole!Init, Whole!CountInv, Whole!FlushInv, Whole!InFile
<1> QED
  BY <1>1, <1>3, <1>6, <1>7 DEF SamplesInv, WholeInv

\* A step of the compressed writer is one of the uncompressed one, or a step of
\* its own that the invariants allow.
LEMMA NextSteps ==
  ASSUME SamplesInv, CompressedNext, BlocksInv'
  PROVE  \/ Whole!Client
         \/ Whole!Work
         \/ (RoundStep \/ FindsFull \/ PushBack) /\ UNCHANGED clientVars
            /\ WholeFile' = WholeFile
BY ClientWhole, WorkIsPlain DEF SamplesInv, BlocksInv, CompressedNext

LEMMA SameWhole ==
  ASSUME UNCHANGED cvars
  PROVE  WholeFile' = WholeFile
BY DEF cvars, compressVars, vars, cacheVars, threadVars, fileVars, WholeFile, Collected, DataOf

LEMMA FindsFullStutters ==
  ASSUME FindsFull, UNCHANGED clientVars
  PROVE  UNCHANGED vars
BY DEF FindsFull, vars

\* What leaves the writer and the whole file leaves the invariants.
LEMMA StutterWhole ==
  ASSUME WholeInv, UNCHANGED vars, WholeFile' = WholeFile
  PROVE  WholeInv' /\ (Whole!StartInv => Whole!StartInv')
         /\ (Whole!KeptInv => Whole!KeptInv')
<1> USE DEF vars, cacheVars, clientVars, writerVars, queueVars, threadVars, fileVars
<1>3. Whole!TypeOK'
  BY DEF WholeInv, Whole!TypeOK
<1>4. Whole!OrderInv'
  BY DEF WholeInv, Whole!OrderInv, Whole!Hand
<1>5. Whole!CountInv'
  BY DEF WholeInv, Whole!CountInv
<1>6. Whole!FlushInv'
  BY DEF WholeInv, Whole!FlushInv, Whole!Flushed, Whole!Pending, Whole!Hand
<1>7. Whole!StartInv => Whole!StartInv'
  BY DEF Whole!StartInv
<1>8. Whole!KeptInv => Whole!KeptInv'
  BY DEF Whole!KeptInv, Whole!Pending, Whole!Hand, Whole!Held, Whole!Start
<1> QED
  BY <1>3, <1>4, <1>5, <1>6, <1>7, <1>8 DEF WholeInv

LEMMA NextWholeInv ==
  ASSUME SamplesInv, CompressedNext, BlocksInv'
  PROVE  WholeInv'
<1>0. /\ Whole!TypeOK /\ Whole!OrderInv /\ Whole!CountInv /\ Whole!FlushInv
      /\ QueueTypes /\ FinalizeInv
  BY DEF SamplesInv, WholeInv, BlocksInv
<1>1. CASE Whole!Client
  BY <1>0, <1>1, WholeClient DEF WholeInv
<1>2. CASE Whole!Work
  BY <1>0, <1>2, WholeWork DEF WholeInv
<1>3. CASE RoundStep /\ UNCHANGED clientVars /\ WholeFile' = WholeFile
  BY <1>0, <1>3, RoundTypeOK, RoundOrder, RoundCount, RoundFlush DEF WholeInv
<1>4. CASE PushBack /\ UNCHANGED clientVars /\ WholeFile' = WholeFile
  BY <1>0, <1>4, PushTypeOK, PushOrder, PushCount, PushFlush DEF WholeInv
<1>5. CASE FindsFull /\ UNCHANGED clientVars /\ WholeFile' = WholeFile
  BY <1>5, FindsFullStutters, StutterWhole DEF SamplesInv
<1> QED
  BY <1>1, <1>2, <1>3, <1>4, <1>5, NextSteps

LEMMA NextSamplesInv == SamplesInv /\ [CompressedNext]_cvars => SamplesInv'
<1> SUFFICES ASSUME SamplesInv, [CompressedNext]_cvars PROVE SamplesInv'
  OBVIOUS
<1>1. BlocksInv'
  BY NextBlocksInv DEF SamplesInv
<1>2. CASE CompressedNext
  BY <1>1, <1>2, NextFinalizeInv, NextWholeInv DEF SamplesInv
<1>3. CASE UNCHANGED cvars
  <2>1. FinalizeInv'
    BY <1>3 DEF SamplesInv, FinalizeInv, cvars, compressVars, vars, cacheVars, threadVars, fileVars
  <2>2. WholeInv'
    BY <1>3, SameWhole, StutterWhole DEF SamplesInv, cvars
  <2> QED
    BY <1>1, <2>1, <2>2 DEF SamplesInv
<1> QED
  BY <1>2, <1>3

LEMMA SamplesInvariant == CompressedSpec => []SamplesInv
BY InitSamplesInv, NextSamplesInv, PTL DEF CompressedSpec

\* The blocks on disk and in the DL block being built, the buffer, the sample in
\* the hand and the queue hold the samples in the order they were saved, none
\* twice, for any number of data groups, record lengths and block size, although
\* PushSample() puts a sample back in front of a queue others have added to.
THEOREM CompressedFifoKept == CompressedSpec => []CompressedFifo
<1>1. SamplesInv => CompressedFifo
  <2> SUFFICES ASSUME SamplesInv, NEW d \in DataGroups
               PROVE  InOrder(file[d] \o Collected(d) \o Pending(d))
    BY DEF CompressedFifo
  <2>1. Whole!Fifo
    BY WholeMeans DEF SamplesInv, WholeInv
  <2>2. InOrder(WholeFile[d] \o (Hand(d) \o queue[d]))
    BY <2>1, SameOrders DEF Whole!Fifo, Whole!Recorded, Whole!Pending, Whole!Hand, Hand
  <2> QED
    BY <2>2 DEF WholeFile, Pending
<1> QED
  BY <1>1, SamplesInvariant, PTL

\* Outside a flush the sample counters on disk are the numbers of records the
\* blocks of each data group hold: what a flush counts in nof while its blocks
\* are still in memory is written with them.
THEOREM CompressedHeadersCount == CompressedSpec => []HeaderCounts
<1>1. SamplesInv => HeaderCounts
  <2> SUFFICES ASSUME SamplesInv, users = {}, NEW d \in DataGroups
               PROVE  header[d] = Len(file[d])
    BY DEF HeaderCounts
  <2>1. Whole!CountInv /\ BlockTypes /\ BlockInv /\ FinalizeInv
    BY DEF SamplesInv, WholeInv, BlocksInv
  <2>2. pc \notin InFlush
    BY <2>1 DEF Whole!CountInv, Whole!InFile, InFlush
  <2>3. WholeFile = file
    BY <2>1, <2>2, WholeFileTypes
  <2> QED
    BY <2>1, <2>3 DEF Whole!CountInv, Whole!InFile
<1> QED
  BY <1>1, SamplesInvariant, PTL

\* Queues are dropped empty, with nothing left in the buffer or in a DL block, by
\* StopMeasurement and InitMeasurement, unless the file could not be opened or the
\* data group has a DT block and can have no HL block: the last flush takes
\* everything, as it never pushes a sample back.
THEOREM CompressedStopKeepsSamples == CompressedSpec => CompressedStopLosesNothing
<1> DEFINE Step == \A d \in cache : d \notin cache' =>
                     Collected(d) \o Pending(d) = <<>> \/ d \in unflushed
<1>1. ASSUME SamplesInv, [CompressedNext]_cvars, SamplesInv' PROVE Step
  <2> SUFFICES ASSUME NEW d \in cache, d \notin cache'
               PROVE  Collected(d) \o Pending(d) = <<>> \/ d \in unflushed
    OBVIOUS
  <2>0. /\ Whole!FlushInv /\ Whole!TypeOK /\ BlockTypes /\ BlockInv /\ QueueTypes
    BY <1>1 DEF SamplesInv, WholeInv, BlocksInv
  <2>1. CompressedClient
    <3>1. CompressedWork => UNCHANGED cache
      BY <2>0, WorkCases, QuietSteps DEF AppendSample, PurgeBuffer, Appends, StoreBlocks,
         UpdateAndCloseFile, queueVars
    <3> QED
      BY <1>1, <3>1 DEF CompressedNext, cvars, vars, cacheVars, queueVars
  <2>2. pc = "none"
    <3>1. Client
      BY <2>1, CompressedSteps
    <3> QED
      BY <3>1, <2>0 DEF Whole!FlushInv, Client, CallContinues, InitExit, InitFails, InitWrites,
         StartSetsTime, StartReturns, StopExit, ThreadJoined, StartRecalculates, InitMeasurement,
         FinalizeMeasurement, StartMeasurement, StopMeasurement, CreateDataGroup,
         SaveSample, FinalizeWrites, cacheVars, queueVars
  <2>3. d \in DataGroups
    BY <2>0 DEF QueueTypes
  <2>4. Collected(d) = <<>>
    BY <2>0, <2>2, <2>3, CollectedTypes DEF InFlush
  <2>5. Pending(d) = <<>> \/ d \in unflushed
    BY <2>0, <2>2 DEF Whole!FlushInv, Whole!Flushed, Whole!Pending, Whole!Hand, Pending, Hand
  <2> QED
    BY <2>4, <2>5, ConcatEmptySeq
<1>2. SamplesInv /\ SamplesInv' /\ [CompressedNext]_cvars => [Step]_cvars
  BY <1>1
<1> QED
  BY <1>2, SamplesInvariant, PTL DEF CompressedSpec, CompressedStopLosesNothing

-----------------------------------------------------------------------------
(* The samples a measurement needs *)

LEMMA InitKept == CompressedInit => Whole!StartInv /\ Whole!KeptInv
<1> SUFFICES ASSUME CompressedInit PROVE Whole!StartInv /\ Whole!KeptInv
  OBVIOUS
<1>1. /\ write_state = "Create" /\ call = "idle" /\ now = FirstTime
      /\ accepted = [d \in DataGroups |-> <<>>]
  BY DEF CompressedInit, Init
<1>2. FirstTime >= FirstTime
  BY ClockAssumption
<1> QED
  BY <1>1, <1>2 DEF Whole!StartInv, Whole!KeptInv, Whole!InTime

LEMMA NextKept ==
  ASSUME DocumentedOrder, ~ConcurrentSampling,
         SamplesInv, Whole!StartInv, Whole!KeptInv, [CompressedNext]_cvars
  PROVE  Whole!StartInv' /\ Whole!KeptInv'
<1>0. /\ Whole!TypeOK /\ Whole!OrderInv /\ Whole!CountInv /\ Whole!FlushInv /\ QueueTypes
  BY DEF SamplesInv, WholeInv, BlocksInv
<1>1. CASE UNCHANGED cvars
  BY <1>1, SameWhole, StutterWhole DEF SamplesInv, cvars
<1>2. CASE CompressedNext
  <2>0. BlocksInv'
    BY NextBlocksInv DEF SamplesInv
  <2>1. CASE Whole!Client
    BY <1>0, <2>1, WholeClient
  <2>2. CASE Whole!Work
    BY <1>0, <2>2, WholeWork
  <2>3. CASE RoundStep /\ UNCHANGED clientVars /\ WholeFile' = WholeFile
    BY <1>0, <2>3, RoundStart, RoundKept
  <2>4. CASE PushBack /\ UNCHANGED clientVars /\ WholeFile' = WholeFile
    BY <1>0, <2>4, PushStart, PushKept
  <2>5. CASE FindsFull /\ UNCHANGED clientVars /\ WholeFile' = WholeFile
    BY <2>5, FindsFullStutters, StutterWhole DEF SamplesInv
  <2> QED
    BY <1>2, <2>0, <2>1, <2>2, <2>3, <2>4, <2>5, NextSteps
<1> QED
  BY <1>1, <1>2

\* From the sample before the pre-trigger time on, every sample saved in a started
\* measurement is in the queue, in the worker's hand, in the buffer, in the DL
\* block being built or on disk, for a client that keeps to the documented order
\* and does not save samples while StartMeasurement runs.  A sample that is pushed
\* back is trimmed like any other by the next round, with the same start time.
THEOREM CompressedPreTriggerKept ==
  ASSUME DocumentedOrder, ~ConcurrentSampling
  PROVE  CompressedSpec => []CompressedPreTrigKept
<1>1. SamplesInv /\ Whole!KeptInv => CompressedPreTrigKept
  <2> SUFFICES ASSUME SamplesInv, Whole!KeptInv, write_state = "StartMeas",
                      NEW d \in cache, NEW i \in DOMAIN accepted[d]
               PROVE  \/ \E s \in ToSet(file[d] \o Collected(d) \o Pending(d)) :
                           s.n = accepted[d][i].n
                      \/ /\ i < Len(accepted[d])
                         /\ accepted[d][i + 1].ts <
                              (IF call = "startTime" THEN argument ELSE start_time) - PreTrig
    BY DEF CompressedPreTrigKept
  <2>0. d \in DataGroups
    BY DEF SamplesInv, WholeInv, Whole!TypeOK
  <2>1. Whole!PreTrigKept
    BY WholeMeans DEF SamplesInv, WholeInv
  <2>2. Whole!Recorded(d) = file[d] \o Collected(d) \o Pending(d)
    BY <2>0 DEF Whole!Recorded, Whole!Pending, Whole!Hand, Pending, Hand, WholeFile
  <2> QED
    BY <2>1, <2>2 DEF Whole!PreTrigKept, ToSet
<1>2. Whole!StartInv /\ Whole!KeptInv /\ SamplesInv /\ [CompressedNext]_cvars
        => Whole!StartInv' /\ Whole!KeptInv'
  BY NextKept
<1> QED
  BY <1>1, <1>2, InitKept, SamplesInvariant, PTL DEF CompressedSpec

-----------------------------------------------------------------------------
(* The size of a queue *)

Load(q) == SizeOf(q, Len(q))

LEMMA LoadType ==
  ASSUME QueueTypes, NEW q \in Seq(Sized)
  PROVE  /\ \A n \in 0 .. Len(q) : SizeOf(q, n) \in Nat
         /\ Load(q) \in Nat
         /\ \A i \in 1 .. Len(q) : SampleSize(q[i]) \in Nat
<1>1. Len(q) \in Nat
  OBVIOUS
<1>2. \A i \in 1 .. Len(q) : SampleSize(q[i]) \in Nat
  <2>1. \A i \in 1 .. Len(q) : q[i] \in Sized
    OBVIOUS
  <2> QED
    BY <2>1, BytesType
<1>3. ASSUME NEW n \in 0 .. Len(q) PROVE SizeOf(q, n) \in Nat
  <2>1. n \in Nat /\ \A i \in 1 .. n : SampleSize(q[i]) \in Nat
    BY <1>1, <1>2
  <2> QED
    BY <2>1, SizeSame
<1> QED
  BY <1>1, <1>2, <1>3 DEF Load

LEMMA LoadEmpty == Load(<<>>) = 0
<1>1. Len(<<>>) = 0
  OBVIOUS
<1> QED
  BY <1>1, SizeZero DEF Load

LEMMA LoadSplit ==
  ASSUME QueueTypes, NEW q \in Seq(Sized), NEW r \in Seq(Sized), NEW k \in 0 .. Len(q),
         Len(r) = Len(q) - k, \A i \in 1 .. Len(r) : r[i] = q[k + i]
  PROVE  Load(q) = SizeOf(q, k) + Load(r)
<1>1. /\ Len(q) \in Nat /\ Len(r) \in Nat /\ k \in Nat
      /\ Len(r) \in 0 .. Len(r)
      /\ \A i \in 1 .. Len(q) - k : r[i] = q[k + i]
  OBVIOUS
<1>5. /\ \A i \in 1 .. Len(q) : SampleSize(q[i]) \in Nat
      /\ SizeOf(q, k) \in Nat /\ SizeOf(r, Len(r)) \in Nat
  BY <1>1, LoadType
<1>2. SizeOf(q, Len(q)) = SizeOf(q, k) + SizeOf(r, Len(r))
  <2>1. SizeOf(q, Len(q)) = SizeOf(q, k) + SizeOf(r, Len(q) - k)
    BY ONLY <1>1, <1>5, k \in 0 .. Len(q), SizeSplit
  <2> QED
    BY <2>1
<1> QED
  BY <1>2 DEF Load

LEMMA LoadTrim ==
  ASSUME QueueTypes, NEW q \in Seq(Sized), NEW start
  PROVE  /\ Load(q) = SizeOf(q, Popped(q, start)) + Load(TrimQueue(q, start))
         /\ SizeOf(q, Popped(q, start)) \in Nat /\ Popped(q, start) \in Nat
<1> DEFINE r == TrimQueue(q, start)
           k == Popped(q, start)
<1>1. r \in Seq(Sized)
  BY TrimNumbered
<1>2. k \in 0 .. Len(q)
  <2> DEFINE P == {i \in 1 .. Len(q) : \A j \in 1 .. i : ~StopsTrim(q, j, start)}
  <2>1. Len(q) \in Nat /\ P \subseteq 1 .. Len(q)
    OBVIOUS
  <2>2. IsFiniteSet(1 .. Len(q)) /\ Cardinality(1 .. Len(q)) = Len(q)
    <3>1. PICK n \in Nat : n = Len(q)
      BY <2>1
    <3>2. IsFiniteSet(1 .. n) /\ Cardinality(1 .. n) = IF 1 > n THEN 0 ELSE n - 1 + 1
      BY FS_Interval
    <3>3. (IF 1 > n THEN 0 ELSE n - 1 + 1) = n
      OBVIOUS
    <3> QED
      BY <3>1, <3>2, <3>3
  <2>3. Cardinality(P) \in Nat /\ Cardinality(P) <= Len(q)
    BY <2>1, <2>2, FS_Subset, FS_CardinalityType
  <2> QED
    BY <2>1, <2>3 DEF Popped
<1>3. r = SubSeq(q, k + 1, Len(q))
  BY DEF TrimQueue
<1> HIDE DEF r, k
<1>4. Len(r) = Len(q) - k /\ \A i \in 1 .. Len(r) : r[i] = q[k + i]
  BY <1>2, <1>3
<1>5. Load(q) = SizeOf(q, k) + Load(r)
  BY <1>1, <1>2, <1>4, LoadSplit
<1>6. SizeOf(q, k) \in Nat /\ k \in Nat
  BY <1>2, LoadType
<1> QED
  BY <1>5, <1>6 DEF r, k

LEMMA LoadHead ==
  ASSUME QueueTypes, NEW q \in Seq(Sized), NEW r \in Seq(Sized),
         Len(q) = Len(r) + 1, \A i \in 1 .. Len(r) : r[i] = q[i + 1]
  PROVE  Load(q) = SampleSize(q[1]) + Load(r)
<1>1. /\ Len(r) \in Nat /\ Len(q) \in Nat /\ 1 \in 0 .. Len(q) /\ 1 \in 1 .. Len(q)
      /\ Len(r) = Len(q) - 1 /\ \A i \in 1 .. Len(r) : r[i] = q[1 + i]
  OBVIOUS
<1>2. Load(q) = SizeOf(q, 1) + Load(r)
  BY <1>1, LoadSplit
<1>3. SampleSize(q[1]) \in Nat /\ Load(r) \in Nat
  BY <1>1, LoadType
<1>4. SizeOf(q, 1) = SampleSize(q[1])
  <2>1. \A i \in 1 .. 0 + 1 : SampleSize(q[i]) \in Nat
    BY <1>3
  <2>2. SizeOf(q, 0 + 1) = SizeOf(q, 0) + SampleSize(q[0 + 1])
    BY <2>1, SizeStep
  <2>3. SizeOf(q, 0) = 0 /\ 0 + 1 = 1
    BY SizeZero
  <2> QED
    BY <1>3, <2>2, <2>3
<1> QED
  BY <1>2, <1>3, <1>4

LEMMA LoadAppend ==
  ASSUME QueueTypes, NEW q \in Seq(Sized), NEW s \in Sized
  PROVE  Load(Append(q, s)) = Load(q) + SampleSize(s)
<1> DEFINE r == Append(q, s)
<1>1. /\ r \in Seq(Sized) /\ Len(q) \in Nat /\ Len(r) = Len(q) + 1 /\ r[Len(q) + 1] = s
      /\ \A i \in 1 .. Len(q) : r[i] = q[i]
  OBVIOUS
<1> HIDE DEF r
<1>2. /\ \A i \in 1 .. Len(r) : SampleSize(r[i]) \in Nat
      /\ \A i \in 1 .. Len(q) : SampleSize(q[i]) \in Nat
      /\ SizeOf(q, Len(q)) \in Nat
  <2>1. Len(q) \in 0 .. Len(q)
    BY <1>1
  <2> QED
    BY <1>1, <2>1, LoadType
<1>3. SizeOf(r, Len(q) + 1) = SizeOf(r, Len(q)) + SampleSize(r[Len(q) + 1])
  BY <1>1, <1>2, SizeStep
<1>4. SizeOf(r, Len(q)) = SizeOf(q, Len(q))
  <2>1. \A i \in 1 .. Len(q) : SampleSize(q[i]) \in Nat /\ SampleSize(r[i]) = SampleSize(q[i])
    BY <1>1, <1>2
  <2> QED
    BY <1>1, <2>1, SizeSame
<1>7. Load(r) = Load(q) + SampleSize(s)
  BY <1>1, <1>3, <1>4 DEF Load
<1> QED
  BY <1>7 DEF r

LEMMA LoadRecalculated ==
  ASSUME QueueTypes, NEW q \in Seq(Sized), NEW start \in Times
  PROVE  Load(RecalculateTimeMaster(q, start)) = Load(q)
<1> DEFINE r == RecalculateTimeMaster(q, start)
<1>1. Len(r) = Len(q) /\ \A i \in 1 .. Len(q) : r[i].n = q[i].n
  BY RecalculateKeeps, NumberedSamples
<1> HIDE DEF r
<1>2. Len(q) \in Nat /\ \A i \in 1 .. Len(q) : SampleSize(q[i]) \in Nat /\ SampleSize(r[i]) = SampleSize(q[i])
  BY <1>1, LoadType DEF SampleSize
<1>3. SizeOf(r, Len(q)) = SizeOf(q, Len(q))
  BY <1>2, SizeSame
<1> QED
  BY <1>1, <1>3 DEF Load, r

SizeInv ==
  /\ size \in [DataGroups -> Nat]
  /\ \A d \in DataGroups : size[d] >= Load(queue[d])

LEMMA LoadPrime ==
  ASSUME UNCHANGED shape, NEW d \in DataGroups
  PROVE  Load(queue[d])' = Load(queue'[d])
BY DEF Load, SizeOf, SampleSize

\* It is enough to look at each queue.
LEMMA SizeFollows ==
  ASSUME UNCHANGED shape, QueueTypes, QueueTypes', SizeInv,
         NEW f, size' = [d \in DataGroups |-> f[d]],
         \A d \in DataGroups : f[d] \in Int /\ f[d] >= Load(queue'[d])
  PROVE  SizeInv'
<1>1. ASSUME NEW d \in DataGroups PROVE Load(queue'[d]) \in Nat
  <2>1. queue'[d] \in Seq(Sized)
    BY DEF QueueTypes
  <2> QED
    BY <2>1, LoadType
<1>2. \A d \in DataGroups : f[d] \in Nat
  BY <1>1
<1>3. size' \in [DataGroups -> Nat] /\ \A d \in DataGroups : size'[d] = f[d]
  BY <1>2
<1> QED
  BY <1>3, LoadPrime DEF SizeInv

LEMMA TrimsSize ==
  ASSUME QueueTypes, QueueTypes', SizeInv, UNCHANGED shape,
         NEW d \in DataGroups, Trims(d),
         queue' = [queue EXCEPT ![d] = TrimQueue(@, start_time)]
  PROVE  SizeInv'
<1>1. queue \in [DataGroups -> Seq(Sized)] /\ size \in [DataGroups -> Nat]
  BY DEF QueueTypes, SizeInv
<1> DEFINE n == Popped(queue[d], start_time)
           q == queue[d]
           r == TrimQueue(q, start_time)
<1>2. PICK read \in n * VlsdLength .. SizeOf(q, n) : size' = [size EXCEPT ![d] = @ - read]
  BY DEF Trims, PoppedSize
<1>3. q \in Seq(Sized) /\ queue'[d] = r
  BY <1>1
<1>4. Load(q) = SizeOf(q, n) + Load(r) /\ SizeOf(q, n) \in Nat /\ n \in Nat
  BY <1>3, LoadTrim
<1>5. Load(r) \in Nat
  BY <1>3, TrimNumbered, LoadType
<1>6. size[d] \in Nat /\ size[d] >= Load(q)
  BY <1>1 DEF SizeInv
<1> HIDE DEF n, q, r
<1>7. n * VlsdLength \in Nat
  <2>1. VlsdLength \in Nat
    BY ShapesAssumption
  <2> QED
    BY ONLY <1>4, <2>1
<1>8. read \in Int /\ read <= SizeOf(q, n)
  BY <1>2, <1>4, <1>7
<1>9. size[d] - read \in Int /\ size[d] - read >= Load(r)
  BY <1>4, <1>5, <1>6, <1>8
<1> DEFINE f == [size EXCEPT ![d] = @ - read]
<1>10. \A e \in DataGroups : f[e] \in Int /\ f[e] >= Load(queue'[e])
  <2> TAKE e \in DataGroups
  <2>1. CASE e = d
    BY <1>1, <1>3, <1>9, <2>1
  <2>2. CASE e # d
    BY <1>1, <2>2 DEF SizeInv
  <2> QED
    BY <2>1, <2>2
<1>11. size' = [e \in DataGroups |-> f[e]]
  BY <1>1, <1>2
<1> HIDE DEF f
<1> QED
  BY <1>10, <1>11, SizeFollows

\* The queue and the size of one data group change.
LEMMA SizeChanges ==
  ASSUME QueueTypes, QueueTypes', SizeInv, UNCHANGED shape,
         NEW d \in DataGroups, NEW n \in Int, size' = [size EXCEPT ![d] = n],
         n >= Load(queue'[d]), \A e \in DataGroups \ {d} : queue'[e] = queue[e]
  PROVE  SizeInv'
<1>1. size \in [DataGroups -> Nat]
  BY DEF SizeInv
<1> DEFINE f == [size EXCEPT ![d] = n]
<1>2. \A e \in DataGroups : f[e] \in Int /\ f[e] >= Load(queue'[e])
  <2> TAKE e \in DataGroups
  <2>1. CASE e = d
    BY <1>1, <2>1
  <2>2. CASE e # d
    BY <1>1, <2>2 DEF SizeInv
  <2> QED
    BY <2>1, <2>2
<1>3. size' = [e \in DataGroups |-> f[e]]
  BY <1>1
<1> HIDE DEF f
<1> QED
  BY <1>2, <1>3, SizeFollows

LEMMA SizeStutters ==
  ASSUME SizeInv, UNCHANGED <<shape, size, queue>>
  PROVE  SizeInv'
<1>1. \A d \in DataGroups : Load(queue[d])' = Load(queue[d])
  BY LoadPrime
<1> QED
  BY <1>1 DEF SizeInv

LEMMA WorkSizeInv ==
  ASSUME SamplesInv, SizeInv, CompressedWork, BlocksInv'
  PROVE  SizeInv'
<1>0. QueueTypes /\ QueueTypes' /\ Whole!CountInv
  BY DEF SamplesInv, BlocksInv, WholeInv
<1>t. /\ queue \in [DataGroups -> Seq(Sized)] /\ hand \in Seq(Sized) /\ current \in DataGroups
      /\ size \in [DataGroups -> Nat]
  BY <1>0 DEF QueueTypes, SizeInv
<1>1. CASE UNCHANGED <<shape, size, queue>>
  BY <1>1, SizeStutters
<1>2. ASSUME NEW d \in DataGroups, Trims(d), UNCHANGED shape,
             queue' = [queue EXCEPT ![d] = TrimQueue(@, start_time)]
      PROVE  SizeInv'
  BY <1>0, <1>2, TrimsSize
<1>3. ASSUME NEW d \in DataGroups, CompressedResetStep(d) PROVE SizeInv'
  <2>1. /\ queue' = [queue EXCEPT ![d] = <<>>] /\ size' = [size EXCEPT ![d] = 0]
        /\ UNCHANGED shape
    BY <1>3 DEF CompressedResetStep, ResetStep, Emptied
  <2>2. queue'[d] = <<>> /\ \A e \in DataGroups \ {d} : queue'[e] = queue[e]
    BY <1>t, <2>1
  <2>3. 0 >= Load(queue'[d]) /\ 0 \in Int
    BY <2>2, LoadEmpty
  <2> QED
    BY <1>0, <2>1, <2>2, <2>3, SizeChanges
<1>4. CASE TakeFromQueue
  <2> DEFINE q == queue[current]
  <2>1. /\ queue' = [queue EXCEPT ![current] = Tail(@)] /\ q # <<>>
        /\ size' = [size EXCEPT ![current] = @ - SampleSize(Head(q))]
        /\ UNCHANGED shape
    BY <1>4 DEF TakeFromQueue, TakeSample
  <2>2. /\ q \in Seq(Sized) /\ queue'[current] = Tail(q)
        /\ \A e \in DataGroups \ {current} : queue'[e] = queue[e]
    BY <1>t, <2>1
  <2>3. size[current] \in Nat /\ size[current] >= Load(q)
    BY <1>t DEF SizeInv
  <2> HIDE DEF q
  <2>4. /\ Tail(q) \in Seq(Sized) /\ Len(q) = Len(Tail(q)) + 1 /\ Head(q) = q[1]
        /\ \A i \in 1 .. Len(Tail(q)) : Tail(q)[i] = q[i + 1]
        /\ q[1] \in Sized
    <3>1. Len(q) \in Nat \ {0}
      BY <2>1, <2>2, EmptySeq
    <3> QED
      BY <2>1, <2>2, <3>1, HeadTailProperties
  <2>5. Load(q) = SampleSize(Head(q)) + Load(Tail(q))
    BY <1>0, <2>2, <2>4, LoadHead
  <2>6. SampleSize(Head(q)) \in Nat /\ Load(Tail(q)) \in Nat
    <3>1. SampleSize(Head(q)) \in Nat
      BY <1>0, <2>4, BytesType
    <3>2. Load(Tail(q)) \in Nat
      BY <1>0, <2>4, LoadType
    <3> QED
      BY <3>1, <3>2
  <2>7. PICK n \in Int : n = size[current] - SampleSize(Head(q))
    BY <2>3, <2>6
  <2>8. n >= Load(queue'[current])
    BY <2>2, <2>3, <2>5, <2>6, <2>7
  <2>9. size' = [size EXCEPT ![current] = n]
    BY <2>1, <2>7 DEF q
  <2> QED
    BY <1>0, <1>t, <2>1, <2>2, <2>8, <2>9, SizeChanges
<1>5. CASE PushBack
  <2>0. Whole!TypeOK
    BY DEF SamplesInv, WholeInv
  <2>1. /\ queue' = [queue EXCEPT ![current] = Pushes(@, InHand)] /\ pc = "write"
        /\ size' = [size EXCEPT ![current] = @ + SampleSize(InHand)]
        /\ UNCHANGED shape
    BY <1>5 DEF PushBack
  <2>2. PICK s \in Sized : s = InHand
    <3>1. Len(hand) = 1
      BY <1>0, <2>1 DEF QueueTypes
    <3>2. PICK h \in Seq(Sized) : h = hand
      BY <1>t
    <3>3. Head(h) \in Sized
      BY <3>1, <3>2, HeadTailProperties
    <3> QED
      BY <3>2, <3>3 DEF InHand
  <2>3. PICK q \in Seq(Sized) : q = queue[current]
    BY <1>t
  <2>4. /\ <<s>> \o q \in Seq(Sized) /\ Len(<<s>> \o q) = Len(q) + 1
        /\ (<<s>> \o q)[1] = s
        /\ \A i \in 1 .. Len(q) : q[i] = (<<s>> \o q)[i + 1]
    OBVIOUS
  <2>5. Load(<<s>> \o q) = SampleSize(s) + Load(q)
    BY <1>0, <2>4, LoadHead
  <2>6. /\ queue'[current] = <<s>> \o q
        /\ \A e \in DataGroups \ {current} : queue'[e] = queue[e]
    BY <1>t, <2>1, <2>2, <2>3 DEF Pushes
  <2>7. /\ size[current] \in Nat /\ size[current] >= Load(q) /\ Load(q) \in Nat
        /\ SampleSize(s) \in Nat
    BY <1>0, <1>t, <2>3, BytesType, LoadType DEF SizeInv
  <2>8. PICK n \in Int : n = size[current] + SampleSize(s)
    BY <2>7
  <2>9. n >= Load(queue'[current])
    BY <2>5, <2>6, <2>7, <2>8
  <2>10. size' = [size EXCEPT ![current] = n]
    BY <2>1, <2>2, <2>8
  <2> QED
    BY <1>0, <1>t, <2>1, <2>6, <2>9, <2>10, SizeChanges
<1>6. CASE BeginBuffer
  BY <1>2, <1>6, <1>t DEF BeginBuffer, LockAndTrim
<1>7. ASSUME NEW d \in DataGroups, CompressedTrimStep(d) \/ PeriodicStep(d) PROVE SizeInv'
  BY <1>2, <1>7 DEF CompressedTrimStep, TrimStep, PeriodicStep
<1>8. ASSUME NEW d \in DataGroups,
             (SkipStep(d) /\ UNCHANGED compressVars) \/ CleanStep(d) \/ CleanFails(d)
      PROVE  UNCHANGED <<shape, size, queue>>
  BY <1>8 DEF SkipStep, CleanStep, CleanFails, compressVars, queueVars
<1>9. ASSUME \/ (Wake \/ CleanAll \/ EndRound \/ OpenFile \/ OpenFails \/ EndDrain)
                  /\ UNCHANGED compressVars
             \/ AppendSample \/ FindsFull \/ PurgeBuffer \/ StoreBlocks
      PROVE  UNCHANGED <<shape, size, queue>>
  BY <1>9 DEF compressVars, queueVars, Wake, CleanAll, EndRound, OpenFile, OpenFails, EndDrain,
     AppendSample, FindsFull, cacheVars, PurgeBuffer, Appends, StoreBlocks, UpdateAndCloseFile
<1> QED
  BY <1>1, <1>3, <1>4, <1>5, <1>6, <1>7, <1>8, <1>9
     DEF CompressedWork, CompressedThread, CompressedSaveSteps

LEMMA PlainTypes == SamplesInv => TypeOK
<1> SUFFICES ASSUME SamplesInv PROVE TypeOK
  OBVIOUS
<1>1. Whole!TypeOK /\ file \in [DataGroups -> Seq(Samples)]
  BY DEF SamplesInv, WholeInv, FinalizeInv
<1> QED
  BY <1>1, SameTypes DEF Whole!TypeOK, TypeOK, Whole!WorkerPcs, WorkerPcs,
     Whole!WriteStates, WriteStates, Whole!ClientPcs, ClientPcs

LEMMA ClientSizeInv ==
  ASSUME SamplesInv, SizeInv, CompressedClient, BlocksInv'
  PROVE  SizeInv'
<1>0. QueueTypes /\ QueueTypes' /\ TypeOK
  BY PlainTypes DEF SamplesInv, BlocksInv
<1>t. /\ queue \in [DataGroups -> Seq(Sized)] /\ queue' \in [DataGroups -> Seq(Sized)]
      /\ size \in [DataGroups -> Nat]
      /\ start_time \in Times
  BY <1>0 DEF QueueTypes, SizeInv
<1>1. CASE UNCHANGED <<shape, size, queue>>
  BY <1>1, SizeStutters
<1>2. CASE (InitExit \/ StopExit) /\ QueuesDestroyed
  <2>1. /\ queue' = [d \in DataGroups |-> <<>>] /\ size' = [d \in DataGroups |-> 0]
        /\ UNCHANGED shape
    BY <1>2 DEF InitExit, StopExit, ThreadJoined, QueuesDestroyed
  <2>2. \A d \in DataGroups : 0 \in Int /\ 0 >= Load(queue'[d])
    BY <2>1, LoadEmpty
  <2> DEFINE f == [d \in DataGroups |-> 0]
  <2>3. /\ \A d \in DataGroups : f[d] \in Int /\ f[d] >= Load(queue'[d])
        /\ size' = [d \in DataGroups |-> f[d]]
    BY <2>1, <2>2
  <2> HIDE DEF f
  <2> QED
    BY <1>0, <2>1, <2>3, SizeFollows
<1>3. ASSUME NEW d \in DataGroups, StartRecalculates(d), UNCHANGED compressVars
      PROVE  SizeInv'
  <2>1. /\ queue' = [queue EXCEPT ![d] = RecalculateTimeMaster(@, start_time)]
        /\ UNCHANGED <<size, shape>>
    BY <1>3 DEF StartRecalculates, compressVars
  <2>2. /\ queue[d] \in Seq(Sized) /\ queue'[d] = RecalculateTimeMaster(queue[d], start_time)
        /\ \A e \in DataGroups \ {d} : queue'[e] = queue[e]
    BY <1>t, <2>1
  <2>3. Load(queue'[d]) = Load(queue[d])
    BY <1>0, <1>t, <2>2, LoadRecalculated
  <2>4. PICK n \in Int : n = size[d]
    BY <1>t
  <2>5. n >= Load(queue'[d]) /\ size' = [size EXCEPT ![d] = n]
    BY <1>t, <2>1, <2>3, <2>4 DEF SizeInv
  <2> QED
    BY <1>0, <2>1, <2>2, <2>5, SizeChanges
<1>4. ASSUME NEW d \in DataGroups, NEW t \in Clock, CompressedSaveSample(d, t) PROVE SizeInv'
  <2>1. /\ SaveSample(d, t) /\ UNCHANGED shape /\ saved' = saved + 1
        /\ size' = [q \in DataGroups |->
                      IF queue'[q] = queue[q] THEN size[q]
                      ELSE size[q] + SampleSize(Last(queue'[q]))]
    BY <1>4 DEF CompressedSaveSample, SaveSample
  <2> DEFINE f == [q \in DataGroups |->
                      IF queue'[q] = queue[q] THEN size[q]
                      ELSE size[q] + SampleSize(Last(queue'[q]))]
  <2>2. ASSUME NEW e \in DataGroups PROVE f[e] \in Int /\ f[e] >= Load(queue'[e])
    <3>1. /\ queue[e] \in Seq(Sized) /\ queue'[e] \in Seq(Sized)
          /\ size[e] \in Nat /\ size[e] >= Load(queue[e])
      BY <1>t DEF SizeInv
    <3>2. CASE queue'[e] = queue[e]
      BY <3>1, <3>2
    <3>3. CASE queue'[e] # queue[e]
      <4>1. PICK s \in Samples : queue'[e] = Append(queue[e], s) /\ s.n = saved + 1
        BY <1>0, <2>1, <3>3, SaveAppends
      <4>2. s \in Sized
        <5>1. Len(queue[e]) + 1 \in 1 .. Len(queue'[e]) /\ queue'[e][Len(queue[e]) + 1] = s
          BY <3>1, <4>1
        <5> QED
          BY <3>1, <5>1
      <4>3. Load(queue'[e]) = Load(queue[e]) + SampleSize(s)
        BY <1>0, <3>1, <4>1, <4>2, LoadAppend
      <4>4. Last(queue'[e]) = s
        BY <3>1, <4>1, <4>2, AppendProperties DEF Last
      <4>5. Load(queue[e]) \in Nat /\ SampleSize(s) \in Nat
        BY <1>0, <3>1, <4>2, LoadType, BytesType
      <4>6. f[e] = size[e] + SampleSize(s)
        BY <3>3, <4>4
      <4> HIDE DEF f
      <4> QED
        BY <3>1, <4>3, <4>5, <4>6
    <3> QED
      BY <3>2, <3>3
  <2>3. size' = [e \in DataGroups |-> f[e]]
    BY <2>1
  <2> HIDE DEF f
  <2> QED
    BY <1>0, <2>1, <2>2, <2>3, SizeFollows
<1>5. ASSUME /\ \/ InitWrites \/ InitFails \/ StartSetsTime \/ StartReturns \/ FinalizeWrites
                \/ InitMeasurement \/ FinalizeMeasurement
                \/ \E t \in Clock : StartMeasurement(t)
                \/ \E t \in FirstTime .. MaxTime : StopMeasurement(t)
                \/ \E d \in DataGroups : CreateDataGroup(d)
             /\ UNCHANGED compressVars
      PROVE  UNCHANGED <<shape, size, queue>>
  BY <1>5 DEF InitWrites, InitFails, StartSetsTime, StartReturns, FinalizeWrites,
     InitMeasurement, FinalizeMeasurement, StartMeasurement, StopMeasurement,
     CreateDataGroup, cacheVars, queueVars, compressVars
<1> QED
  BY <1>1, <1>2, <1>3, <1>4, <1>5 DEF CompressedClient, CompressedCallContinues

LEMMA SizeInvariant == CompressedSpec => []SizeInv
<1>1. CompressedInit => SizeInv
  <2> SUFFICES ASSUME CompressedInit PROVE SizeInv
    OBVIOUS
  <2>1. size = [d \in DataGroups |-> 0] /\ queue = [d \in DataGroups |-> <<>>]
    BY DEF CompressedInit, Init
  <2> QED
    BY <2>1, LoadEmpty DEF SizeInv
<1>2. SamplesInv /\ SamplesInv' /\ SizeInv /\ [CompressedNext]_cvars => SizeInv'
  <2> SUFFICES ASSUME SamplesInv, SamplesInv', SizeInv, [CompressedNext]_cvars PROVE SizeInv'
    OBVIOUS
  <2>1. CASE CompressedNext
    BY <2>1, WorkSizeInv, ClientSizeInv DEF SamplesInv, CompressedNext
  <2>2. CASE UNCHANGED cvars
    <3>1. UNCHANGED <<shape, size, queue>>
      BY <2>2 DEF cvars, compressVars, vars, cacheVars, queueVars
    <3> QED
      BY <3>1, SizeStutters
  <2> QED
    BY <2>1, <2>2
<1> QED
  BY <1>1, <1>2, SamplesInvariant, PTL DEF CompressedSpec

\* size_ never falls below the sum of SampleSize() over the samples in its queue, so
\* that the unsigned subtractions of PopSample() and GetSample() do not wrap: for
\* samples of any shapes and any length that PopSample() reads from a destroyed
\* record, up to the length it had.  That it never reads a longer one is an
\* assumption about the build, which the model makes in Trims.
THEOREM SizeIsEnough == CompressedSpec => []SizeCoversQueue
<1>1. SizeInv => SizeCoversQueue
  BY DEF SizeInv, SizeCoversQueue, Load
<1> QED
  BY <1>1, SizeInvariant, PTL

\* Every variable of the compressed writer keeps its type; size_ needs the theorem
\* above for that.
THEOREM CompressedTypeCorrect == CompressedSpec => []CompressedTypeOK
<1>1. SamplesInv /\ SizeInv => CompressedTypeOK
  <2> SUFFICES ASSUME SamplesInv, SizeInv PROVE CompressedTypeOK
    OBVIOUS
  <2>1. /\ TypeOK /\ QueueTypes /\ BlockTypes /\ FinalizeInv /\ SizeInv
    BY PlainTypes DEF SamplesInv, BlocksInv
  <2>2. Sized \subseteq Samples /\ Seq(Sized) \subseteq Seq(Samples)
    BY NumberedSamples
  <2>3. ASSUME NEW bs \in Seq(DataBlocks), NEW b \in ToSet(bs)
        PROVE  b.data \in Seq(Samples) /\ b.length \in Nat /\ b.offset \in Nat
    <3>1. b \in DataBlocks
      BY <2>3 DEF ToSet
    <3> QED
      BY <2>2, <3>1 DEF DataBlocks
  <2>4. ASSUME NEW d \in DataGroups, NEW b \in ToSet(stored[d]) \union ToSet(dl)
        PROVE  b.data \in Seq(Samples) /\ b.length \in Nat /\ b.offset \in Nat
    <3>1. stored[d] \in Seq(DataBlocks) /\ dl \in Seq(DataBlocks)
      BY <2>1 DEF BlockTypes
    <3> QED
      BY <2>3, <2>4, <3>1
  <2>5. buffer.data \in Seq(Samples) /\ buffer.length \in Nat
    BY <2>1, <2>2 DEF BlockTypes
  <2> QED
    BY <2>1, <2>4, <2>5 DEF CompressedTypeOK, QueueTypes, BlockTypes, SizeInv, FinalizeInv
<1> QED
  BY <1>1, SamplesInvariant, SizeInvariant, PTL

-----------------------------------------------------------------------------
(* Recorder: the invariant *)

RecorderInv == Whole!StartInv /\ Whole!FileInv /\ Whole!TimeInv /\ IdleInv

LEMMA WholeShortens ==
  ASSUME Whole!TypeOK, Whole!Work, NEW d \in DataGroups
  PROVE  IsTailOf(queue'[d], queue[d])
<1>1. Whole!IsTailOf(queue'[d], queue[d])
  BY Whole!WorkShortens, WordAssumption, PreTrigAssumption, WriterTypeAssumption,
     SavePeriodicAssumption, ChannelGroupsAssumption, WholeFinite, ClockAssumption,
     BoundsAssumption, ClientAssumption
<1> QED
  BY <1>1 DEF Whole!IsTailOf, IsTailOf

\* The thread removes samples of queues in the cache only, and puts one back into
\* the queue it saves.
LEMMA WorkIdle ==
  ASSUME SamplesInv, IdleInv, CompressedWork, BlocksInv'
  PROVE  IdleInv'
<1>0. /\ Whole!TypeOK /\ Whole!OrderInv /\ Whole!CountInv /\ Whole!FlushInv
      /\ QueueTypes /\ VisitInv /\ BlockTypes /\ BlockInv /\ FinalizeInv
      /\ BlockTypes' /\ BlockInv' /\ QueueTypes'
  BY DEF SamplesInv, WholeInv, BlocksInv
<1>1. UNCHANGED cache
  BY WorkCases, QuietSteps DEF AppendSample, PurgeBuffer, Appends, StoreBlocks,
     UpdateAndCloseFile, queueVars
<1> SUFFICES ASSUME NEW d \in DataGroups \ cache PROVE queue'[d] = <<>>
  BY <1>1 DEF IdleInv
<1>2. d \in DataGroups /\ queue[d] = <<>> /\ queue'[d] \in Seq(Sized)
  BY <1>0 DEF IdleInv, QueueTypes
<1>3. ASSUME IsTailOf(queue'[d], queue[d]) PROVE queue'[d] = <<>>
  <2>1. PICK k \in Nat :
          \A i \in 1 .. Len(queue'[d]) : i + k \in 1 .. Len(<<>>) /\ queue'[d][i] = <<>>[i + k]
    BY <1>2, <1>3 DEF IsTailOf
  <2>2. 1 .. Len(queue'[d]) = {}
    BY <2>1
  <2>3. Len(queue'[d]) \in Nat
    BY <1>2, LenProperties
  <2>4. Len(queue'[d]) = 0
    BY <2>2, <2>3
  <2> QED
    BY <1>2, <2>4, EmptySeq
<1>4. CASE Whole!Work
  BY <1>0, <1>2, <1>3, <1>4, WholeShortens
<1>5. CASE RoundStep
  BY <1>0, <1>2, <1>3, <1>5, RoundQueues
<1>6. CASE PushBack
  <2>1. current \in cache
    BY <1>0, <1>6 DEF PushBack, VisitInv, InFlush
  <2> QED
    BY <1>0, <1>2, <1>6, <2>1, PushQueues
<1>7. CASE FindsFull
  BY <1>2, <1>7 DEF FindsFull, cacheVars, queueVars
<1> QED
  BY <1>0, <1>4, <1>5, <1>6, <1>7, WorkIsPlain

LEMMA ClientIdle ==
  ASSUME SamplesInv, IdleInv, CompressedClient
  PROVE  IdleInv'
<1> USE DEF cacheVars, writerVars, queueVars, threadVars, fileVars
<1>0. /\ Client /\ Whole!FlushInv /\ QueueTypes
      /\ queue \in [DataGroups -> Seq(Samples)] /\ start_time \in Times
  BY CompressedSteps, SameTypes DEF SamplesInv, WholeInv, BlocksInv, Whole!TypeOK
<1>1. CASE InitExit \/ StopExit
  BY <1>1 DEF InitExit, StopExit, ThreadJoined, IdleInv
<1>2. CASE InitWrites
  <2>1. UNCHANGED queue /\ \A d \in DataGroups : queue[d] = <<>>
    BY <1>0, <1>2 DEF InitWrites, Whole!FlushInv
  <2> QED
    BY <2>1 DEF IdleInv
<1>3. ASSUME NEW e \in DataGroups, StartRecalculates(e) PROVE IdleInv'
  <2>1. /\ queue' = [queue EXCEPT ![e] = RecalculateTimeMaster(@, start_time)]
        /\ UNCHANGED cache
    BY <1>3 DEF StartRecalculates
  <2>2. ASSUME queue[e] = <<>> PROVE queue'[e] = <<>>
    <3>1. queue'[e] \in Seq(Samples) /\ Len(queue'[e]) = Len(queue[e])
      BY <1>0, <2>1, RecalculateKeeps
    <3>2. Len(queue'[e]) = 0
      BY <2>2, <3>1
    <3> QED
      BY <3>1, <3>2, EmptySeq
  <2> QED
    BY <1>0, <2>1, <2>2 DEF IdleInv
<1>4. ASSUME NEW d \in DataGroups, NEW t \in Clock, SaveSample(d, t) PROVE IdleInv'
  <2>1. UNCHANGED cache
    BY <1>4 DEF SaveSample
  <2> QED
    BY <1>0, <1>4, <2>1, SaveCached DEF IdleInv
<1>5. CASE \/ InitMeasurement \/ InitFails \/ StartSetsTime \/ StartReturns
           \/ FinalizeMeasurement \/ FinalizeWrites
           \/ (\E t \in Clock : StartMeasurement(t))
           \/ (\E t \in FirstTime .. MaxTime : StopMeasurement(t))
           \/ \E d \in DataGroups : CreateDataGroup(d)
  <2>1. UNCHANGED <<cache, queue>>
    BY <1>5 DEF InitMeasurement, InitFails, StartSetsTime, StartReturns, FinalizeMeasurement,
       FinalizeWrites, StartMeasurement, StopMeasurement, CreateDataGroup
  <2> QED
    BY <2>1 DEF IdleInv
<1> QED
  BY <1>0, <1>1, <1>2, <1>3, <1>4, <1>5 DEF Client, CallContinues

LEMMA InitRecorderInv == CompressedInit => RecorderInv
<1> SUFFICES ASSUME CompressedInit PROVE RecorderInv
  OBVIOUS
<1>1. Whole!StartInv
  BY InitKept
<1>2. Whole!FileInv /\ IdleInv
  BY DEF CompressedInit, Init, Whole!FileInv, Whole!InFile, IdleInv
<1>3. Whole!TimeInv
  <2>1. pc = "none" /\ hand = <<>> /\ file = [d \in DataGroups |-> <<>>]
        /\ queue = [d \in DataGroups |-> <<>>]
    BY DEF CompressedInit, Init
  <2>2. WholeFile = file
    BY <2>1, InitSamplesInv, WholeFileTypes DEF SamplesInv, BlocksInv, InFlush
  <2>3. \A d \in DataGroups : Whole!Stamps(d) = {}
    BY <2>1, <2>2, StampsNone, SameOrders DEF Whole!Stamps, Whole!Hand
  <2> QED
    BY <2>3 DEF Whole!TimeInv
<1> QED
  BY <1>1, <1>2, <1>3 DEF RecorderInv

LEMMA NextRecorderInv ==
  ASSUME DocumentedOrder, ~ConcurrentSampling,
         SamplesInv, RecorderInv, [CompressedNext]_cvars
  PROVE  RecorderInv'
<1>0. /\ Whole!TypeOK /\ Whole!OrderInv /\ Whole!CountInv /\ Whole!FlushInv /\ QueueTypes
      /\ Whole!StartInv /\ Whole!FileInv /\ Whole!TimeInv /\ IdleInv
  BY DEF SamplesInv, WholeInv, BlocksInv, RecorderInv
<1>1. ASSUME UNCHANGED vars, WholeFile' = WholeFile PROVE RecorderInv'
  <2> USE DEF vars, cacheVars, clientVars, writerVars, queueVars, threadVars, fileVars
  <2>2. Whole!StartInv'
    BY <1>0, <1>1, StutterWhole DEF WholeInv
  <2>3. Whole!FileInv' /\ IdleInv'
    BY <1>0, <1>1 DEF Whole!FileInv, IdleInv
  <2>4. \A d \in DataGroups : Whole!Stamps(d)' = Whole!Stamps(d)
    BY <1>1 DEF Whole!Stamps, Whole!StampsOf, Whole!Hand
  <2>5. Whole!TimeInv'
    BY <1>0, <1>1, <2>4 DEF Whole!TimeInv
  <2> QED
    BY <2>2, <2>3, <2>5 DEF RecorderInv
<1>3. CASE UNCHANGED cvars
  BY <1>1, <1>3, SameWhole DEF cvars
<1>2. CASE CompressedNext
  <2>0. BlocksInv'
    BY NextBlocksInv DEF SamplesInv
  <2>1. IdleInv'
    BY <1>0, <1>2, <2>0, WorkIdle, ClientIdle DEF CompressedNext
  <2>2. CASE Whole!Client
    BY <1>0, <2>1, <2>2, WholeClient DEF RecorderInv
  <2>3. CASE Whole!Work
    BY <1>0, <2>1, <2>3, WholeWork DEF RecorderInv
  <2>4. CASE RoundStep /\ UNCHANGED clientVars /\ WholeFile' = WholeFile
    BY <1>0, <2>1, <2>4, RoundStart, RoundFile, RoundTime DEF RecorderInv
  <2>5. CASE PushBack /\ UNCHANGED clientVars /\ WholeFile' = WholeFile
    BY <1>0, <2>1, <2>5, PushStart, PushFile, PushTime DEF RecorderInv
  <2>6. CASE FindsFull /\ UNCHANGED clientVars /\ WholeFile' = WholeFile
    BY <1>1, <2>6, FindsFullStutters
  <2> QED
    BY <1>2, <2>0, <2>2, <2>3, <2>4, <2>5, <2>6, NextSteps
<1> QED
  BY <1>2, <1>3

-----------------------------------------------------------------------------
(* Recorder: what is trimmed after a record has begun *)

\* A sample in a queue is not earlier than the last one in the file.
LEMMA LaterInQueue ==
  ASSUME SamplesInv, Whole!TimeInv, pc \notin InFlush, NEW d \in DataGroups,
         file[d] # <<>>, NEW i \in 1 .. Len(queue[d])
  PROVE  /\ Last(file[d]).ts \in Nat /\ queue[d][i].ts \in Nat
         /\ Last(file[d]).ts <= queue[d][i].ts
<1>1. /\ WholeFile = file /\ Before(file[d], queue[d])
      /\ file[d] \in Seq(Samples) /\ queue[d] \in Seq(Samples)
  <2>1. WholeFile = file
    BY WholeFileTypes DEF SamplesInv, BlocksInv
  <2> QED
    BY <2>1, SameOrders, SameTypes
       DEF SamplesInv, WholeInv, Whole!TypeOK, Whole!OrderInv, Whole!Chain
<1>2. PICK l \in 1 .. Len(file[d]) : Last(file[d]) = file[d][l]
  <2>1. Len(file[d]) \in Nat /\ Len(file[d]) # 0
    BY <1>1, EmptySeq, LenProperties
  <2> QED
    BY <2>1 DEF Last
<1>3. PICK x \in Samples, y \in Samples : x = file[d][l] /\ y = queue[d][i]
  BY <1>1, Numbered
<1>4. <<x.n, x.ts>> \in Whole!Stamps(d) /\ <<y.n, y.ts>> \in Whole!Stamps(d)
  <2>1. <<x.n, x.ts>> \in StampsOf(file[d])
    BY <1>3 DEF StampsOf
  <2>2. <<y.n, y.ts>> \in StampsOf(queue[d])
    BY <1>3 DEF StampsOf
  <2> QED
    BY <1>1, <2>1, <2>2, SameOrders DEF Whole!Stamps
<1>5. x.n \in Nat /\ y.n \in Nat /\ x.n < y.n
  <2>1. file[d][l].n < queue[d][i].n
    BY <1>1 DEF Before
  <2> QED
    BY <1>3, <2>1 DEF Samples
<1>6. x.ts <= y.ts
  BY <1>4, <1>5 DEF Whole!TimeInv
<1> QED
  BY <1>2, <1>3, <1>6, WordAssumption DEF Samples, Times

\* When the file holds a sample that the measurement needs, trimming takes nothing.
LEMMA NothingTrimmed ==
  ASSUME SamplesInv, RecorderInv, pc \notin InFlush, pc # "none",
         NEW d \in DataGroups, HoldsNeeded(d)
  PROVE  TrimQueue(queue[d], start_time) = queue[d]
<1>1. file[d] # <<>> /\ start_time > 0 /\ Last(file[d]).ts >= start_time - PreTrig
  BY DEF HoldsNeeded
<1>2. /\ queue[d] \in Seq(Samples) /\ start_time \in Times
      /\ write_state \in {"Init", "StartMeas"}
  BY SameTypes DEF SamplesInv, WholeInv, Whole!TypeOK, RecorderInv, Whole!FileInv,
     Whole!WriteStates
<1>3. start_time # 0 /\ start_time > PreTrig /\ start_time \in Nat /\ PreTrig \in Nat
  <2>1. start_time \in Nat /\ PreTrig \in Nat
    BY <1>2, PreTrigAssumption, WordAssumption DEF Times
  <2> QED
    BY <1>1, <1>2, <2>1 DEF RecorderInv, Whole!StartInv
<1>4. ASSUME NEW i \in 1 .. Len(queue[d]) PROVE queue[d][i].ts >= start_time - PreTrig
  <2>1. /\ Last(file[d]).ts \in Nat /\ queue[d][i].ts \in Nat
        /\ Last(file[d]).ts <= queue[d][i].ts
    BY <1>1, LaterInQueue DEF RecorderInv
  <2> QED
    BY <1>1, <1>3, <2>1
<1> QED
  BY <1>2, <1>3, <1>4, TrimLeavesAll

-----------------------------------------------------------------------------
(* What the steps of the compressed writer are to the recorder *)

\* The buffers of the recorder; its log is LogOf
CollectedOf == [d \in DataGroups |-> Numbers(Collected(d) \o Pending(d))]

CompressedStep ==
  [CompressedImplements!RecorderNext]_(CompressedImplements!recorderVars)

LEMMA CompressedStutters ==
  ASSUME UNCHANGED <<file, saved, unflushed>>,
         \A d \in DataGroups : (Collected(d) \o Pending(d))' = Collected(d) \o Pending(d)
  PROVE  CompressedStep
<1>1. CollectedOf' = CollectedOf
  BY DEF CollectedOf
<1> QED
  BY <1>1 DEF CompressedStep, CollectedOf, CompressedImplements!recorderVars

LEMMA QueuedTypes ==
  ASSUME SamplesInv, NEW d \in DataGroups
  PROVE  /\ Collected(d) \in Seq(Samples) /\ Hand(d) \in Seq(Samples)
         /\ queue[d] \in Seq(Samples) /\ Pending(d) \in Seq(Samples)
         /\ Collected(d) \o Pending(d) \in Seq(Samples) /\ file[d] \in Seq(Samples)
         /\ pc \notin InFlush => Collected(d) = <<>>
         /\ hand = <<>> => Pending(d) = queue[d]
<1>1. /\ QueueTypes /\ BlockTypes /\ BlockInv /\ FinalizeInv /\ Whole!TypeOK
  BY DEF SamplesInv, BlocksInv, WholeInv
<1>2. Collected(d) \in Seq(Samples) /\ (pc \notin InFlush => Collected(d) = <<>>)
  BY <1>1, WholeFileTypes, CollectedTypes
<1>3. /\ Hand(d) \in Seq(Samples) /\ queue[d] \in Seq(Samples) /\ file[d] \in Seq(Samples)
  BY <1>1, SameTypes DEF Whole!TypeOK, FinalizeInv, Hand
<1>4. Pending(d) \in Seq(Samples)
  BY <1>3 DEF Pending
<1>5. hand = <<>> => Pending(d) = queue[d]
  BY <1>3, ConcatEmptySeq DEF Pending, Hand
<1> QED
  BY <1>2, <1>3, <1>4, <1>5

\* Trimming a queue forgets its oldest samples, unless it takes nothing.
LEMMA CompressedTrimForgets ==
  ASSUME SamplesInv, SamplesInv', NEW e \in DataGroups, hand = <<>>, hand' = <<>>,
         \A d \in DataGroups : Collected(d) = <<>> /\ Collected(d)' = <<>>,
         queue' = [queue EXCEPT ![e] = TrimQueue(@, start_time)],
         UNCHANGED <<file, saved, unflushed>>,
         HoldsNeeded(e) => TrimQueue(queue[e], start_time) = queue[e]
  PROVE  CompressedStep
<1>1. PICK q \in Seq(Samples) : q = queue[e]
  BY QueuedTypes
<1>2. ASSUME NEW d \in DataGroups
      PROVE  /\ Collected(d) \o Pending(d) = queue[d]
             /\ (Collected(d) \o Pending(d))' = queue'[d]
             /\ queue'[d] = IF d = e THEN TrimQueue(q, start_time) ELSE queue[d]
  <2>1. /\ Pending(d) = queue[d] /\ queue[d] \in Seq(Samples)
    BY QueuedTypes
  <2>2. Hand(d)' = <<>> /\ queue'[d] \in Seq(Samples)
    BY SameTypes DEF Hand, SamplesInv, WholeInv, Whole!TypeOK
  <2>3. Pending(d)' = queue'[d]
    BY <2>2, ConcatEmptySeq DEF Pending
  <2>4. queue \in [DataGroups -> Seq(Samples)]
    BY SameTypes DEF SamplesInv, WholeInv, Whole!TypeOK
  <2> QED
    BY <1>1, <2>1, <2>2, <2>3, <2>4, ConcatEmptySeq
<1>3. CASE TrimQueue(q, start_time) = q
  BY <1>1, <1>2, <1>3, CompressedStutters
<1>4. CASE TrimQueue(q, start_time) # q
  <2>1. PICK k \in 2 .. Len(q) : TrimQueue(q, start_time) = SubSeq(q, k, Len(q))
    BY <1>4, TrimLeavesOne
  <2>2. k \in 1 .. Len(q) /\ Len(Numbers(q)) = Len(q)
    BY <2>1, NumbersType
  <2>3. Numbers(TrimQueue(q, start_time)) = SubSeq(Numbers(q), k, Len(q))
    BY <2>1, <2>2, NumbersSubSeq
  <2>4. ASSUME NEW d \in DataGroups
        PROVE  CollectedOf'[d] = IF d = e THEN SubSeq(Numbers(q), k, Len(q)) ELSE CollectedOf[d]
    BY <1>1, <1>2, <2>3 DEF CollectedOf
  <2>5. CollectedOf[e] = Numbers(q)
    BY <1>1, <1>2 DEF CollectedOf
  <2>6. CollectedOf' = [CollectedOf EXCEPT ![e] = SubSeq(@, k, Len(@))]
    BY <2>2, <2>4, <2>5 DEF CollectedOf
  <2>7. CompressedImplements!Forget(e)
    <3>1. e \notin {d \in DataGroups : HoldsNeeded(d)}
      BY <1>1, <1>4
    <3>2. \E i \in 2 .. Len(CollectedOf[e]) :
            CollectedOf' = [CollectedOf EXCEPT ![e] = SubSeq(@, i, Len(@))]
      BY <2>1, <2>2, <2>5, <2>6
    <3> QED
      BY <3>1, <3>2 DEF CompressedImplements!Forget, CollectedOf
  <2> QED
    BY <2>7 DEF CompressedStep, CompressedImplements!RecorderNext
<1> QED
  BY <1>3, <1>4

\* Everything that was collected is recorded in one step.
LEMMA StoreRecords ==
  ASSUME SamplesInv, SamplesInv', StoreBlocks, UNCHANGED saved
  PROVE  CompressedStep
<1>0. /\ QueueTypes /\ BlockTypes /\ BlockInv /\ FinalizeInv /\ Whole!FlushInv
  BY DEF SamplesInv, BlocksInv, WholeInv
<1>1. /\ UNCHANGED <<current, queue, hand, unflushed>> /\ hand = <<>>
      /\ current \in DataGroups
  BY <1>0 DEF StoreBlocks, UpdateAndCloseFile, queueVars, Whole!FlushInv, QueueTypes
<1>2. PICK g \in DataGroups, c \in Seq(Samples), q \in Seq(Samples) :
        g = current /\ c = Collected(g) /\ q = queue[g]
  BY <1>1, QueuedTypes
<1>3. ASSUME NEW d \in DataGroups
      PROVE  /\ file'[d] = file[d] \o Collected(d) /\ Collected(d)' = <<>>
             /\ Pending(d) = queue[d] /\ Pending(d)' = queue[d]
             /\ queue[d] \in Seq(Samples) /\ Collected(d) \in Seq(Samples)
             /\ file[d] \in Seq(Samples)
             /\ d # g => Collected(d) = <<>>
  <2>1. file'[d] = file[d] \o Collected(d) /\ Collected(d)' = <<>>
    BY <1>0, StoreCollected
  <2>2. /\ Pending(d) = queue[d] /\ queue[d] \in Seq(Samples)
        /\ Collected(d) \in Seq(Samples) /\ file[d] \in Seq(Samples)
    BY <1>1, QueuedTypes
  <2>3. Pending(d)' = <<>> \o queue[d]
    BY <1>1 DEF Pending, Hand
  <2>4. d # g => Collected(d) = <<>>
    BY <1>2 DEF Collected
  <2> QED
    BY <2>1, <2>2, <2>3, <2>4, ConcatEmptySeq
<1>4. UNCHANGED <<saved, unflushed>>
  BY <1>1
<1>5. CASE c = <<>>
  <2>1. \A d \in DataGroups : Collected(d) = <<>>
    BY <1>2, <1>3, <1>5
  <2>2. \A d \in DataGroups : file'[d] = file[d]
    BY <1>3, <2>1, ConcatEmptySeq
  <2>3. file' = file
    <3>1. file \in [DataGroups -> Seq(Samples)] /\ file' \in [DataGroups -> Seq(Samples)]
      BY DEF SamplesInv, FinalizeInv
    <3> QED
      BY <2>2, <3>1
  <2>4. \A d \in DataGroups : (Collected(d) \o Pending(d))' = Collected(d) \o Pending(d)
    BY <1>3, <2>1
  <2> QED
    BY <1>4, <2>3, <2>4, CompressedStutters
<1>6. CASE c # <<>>
  <2>1. PICK m \in Seq(Nat), n \in Seq(Nat) : m = Numbers(c) /\ n = Numbers(q)
    BY NumbersType
  <2>2. Len(m) > 0
    <3>1. Len(m) = Len(c) /\ Len(c) \in Nat /\ Len(c) # 0
      BY <1>6, <2>1, NumbersType, EmptySeq, LenProperties
    <3> QED
      BY <3>1
  <2>3. CollectedOf[g] = m \o n
    BY <1>2, <1>3, <2>1, NumbersConcat DEF CollectedOf
  <2>4. /\ Len(m) \in 1 .. Len(m \o n)
        /\ SubSeq(m \o n, 1, Len(m)) = m
        /\ SubSeq(m \o n, Len(m) + 1, Len(m \o n)) = n
    BY <2>2, FrontOfConcat
  <2>5. ASSUME NEW d \in DataGroups
        PROVE  /\ LogOf'[d] = IF d = g THEN LogOf[d] \o m ELSE LogOf[d]
               /\ CollectedOf'[d] = IF d = g THEN n ELSE CollectedOf[d]
    <3>1. CollectedOf'[d] = Numbers(queue[d])
      <4>1. (Collected(d) \o Pending(d))' = queue[d]
        BY <1>3, ConcatEmptySeq
      <4> QED
        BY <4>1 DEF CollectedOf
    <3>2. Numbers(file'[d]) = Numbers(file[d]) \o Numbers(Collected(d))
      BY <1>3, NumbersConcat
    <3>3. CASE d = g
      BY <1>2, <2>1, <3>1, <3>2, <3>3 DEF LogOf
    <3>4. CASE d # g
      <4>1. Collected(d) \o Pending(d) = queue[d] /\ file'[d] = file[d]
        BY <1>3, <3>4, ConcatEmptySeq
      <4> QED
        BY <3>1, <3>4, <4>1 DEF LogOf, CollectedOf
    <3> QED
      BY <3>3, <3>4
  <2>6. LogOf' = [LogOf EXCEPT ![g] = @ \o SubSeq(CollectedOf[g], 1, Len(m))]
    BY <2>3, <2>4, <2>5 DEF LogOf
  <2>7. CollectedOf' = [CollectedOf EXCEPT ![g] = SubSeq(@, Len(m) + 1, Len(@))]
    BY <2>3, <2>4, <2>5 DEF CollectedOf
  <2>8. Len(m) \in 1 .. Len(CollectedOf[g])
    BY <2>3, <2>4
  <2>9. CompressedImplements!Record(g)
    BY <1>4, <2>6, <2>7, <2>8 DEF CompressedImplements!Record, LogOf, CollectedOf
  <2> QED
    BY <2>9 DEF CompressedStep, CompressedImplements!RecorderNext
<1> QED
  BY <1>5, <1>6

\* The steps that collect a sample, or put one back, leave the buffer as it is.
LEMMA MovesStutter ==
  ASSUME SamplesInv, SamplesInv', UNCHANGED saved,
         TakeFromQueue \/ AppendSample \/ PurgeBuffer \/ PushBack
  PROVE  CompressedStep
<1>0. /\ QueueTypes /\ BlockTypes /\ BlockInv /\ FinalizeInv /\ Whole!FlushInv
      /\ Whole!TypeOK /\ Whole!CountInv
  BY DEF SamplesInv, BlocksInv, WholeInv
<1>1. UNCHANGED <<file, unflushed, current>>
  BY DEF TakeFromQueue, TakeSample, AppendSample, PurgeBuffer, Appends, PushBack, fileVars
<1> SUFFICES ASSUME NEW d \in DataGroups
             PROVE  (Collected(d) \o Pending(d))' = Collected(d) \o Pending(d)
  BY <1>1, CompressedStutters
<1>2. CASE TakeFromQueue \/ PushBack
  <2>1. UNCHANGED <<dl, buffer>>
    BY <1>2 DEF TakeFromQueue, PushBack
  <2>2. Collected(d)' = Collected(d)
    BY <1>1, <2>1 DEF Collected, DataOf
  <2>3. ASSUME TakeFromQueue PROVE Pending(d)' = Pending(d)
    <3>1. /\ pc = "drain" /\ hand = <<>> /\ queue[current] # <<>> /\ current \in DataGroups
          /\ queue \in [DataGroups -> Seq(Samples)]
          /\ hand' = <<Head(queue[current])>>
          /\ queue' = [queue EXCEPT ![current] = Tail(@)]
      BY <1>0, <2>3, SameTypes
         DEF TakeFromQueue, TakeSample, Whole!FlushInv, IsAfterStop, Whole!TypeOK
    <3>2. CASE d = current
      <4>1. PICK q \in Seq(Samples) : q = queue[d] /\ q # <<>>
        BY <3>1, <3>2
      <4>2. Pending(d) = q /\ Pending(d)' = <<Head(q)>> \o Tail(q)
        BY <1>1, <3>1, <3>2, <4>1, QueuedTypes DEF Pending, Hand
      <4>3. <<Head(q)>> \o Tail(q) = q
        BY <4>1, HeadOfQueue
      <4> QED
        BY <4>2, <4>3
    <3>3. CASE d # current
      BY <1>1, <3>1, <3>3 DEF Pending, Hand
    <3> QED
      BY <3>2, <3>3
  <2>4. ASSUME PushBack PROVE Pending(d)' = Pending(d)
    BY <1>0, <2>4, PushQueues DEF Pending, Hand, Whole!Pending, Whole!Hand
  <2> QED
    BY <1>2, <2>2, <2>3, <2>4
<1>3. CASE AppendSample \/ PurgeBuffer
  <2>1. hand' = <<>> /\ UNCHANGED queue
    BY <1>3 DEF AppendSample, PurgeBuffer, Appends, queueVars
  <2>2. /\ Collected(current)' = Collected(current) \o hand
        /\ \A e \in DataGroups : e # current => Collected(e)' = Collected(e)
    BY <1>0, <1>3, AppendsCollected
  <2>3. CASE d = current
    <3>1. PICK c \in Seq(Samples), h \in Seq(Samples), q \in Seq(Samples) :
            c = Collected(d) /\ h = hand /\ q = queue[d]
      BY <1>0, QueuedTypes, SameTypes DEF Whole!TypeOK
    <3>2. Pending(d) = h \o q /\ Pending(d)' = <<>> \o q /\ Collected(d)' = c \o h
      BY <1>1, <2>1, <2>2, <2>3, <3>1 DEF Pending, Hand
    <3>3. (c \o h) \o q = c \o (h \o q) /\ <<>> \o q = q
      BY ConcatAssociative, ConcatEmptySeq
    <3> QED
      BY <3>1, <3>2, <3>3
  <2>4. CASE d # current
    BY <1>1, <2>1, <2>2, <2>4 DEF Pending, Hand
  <2> QED
    BY <2>3, <2>4
<1> QED
  BY <1>2, <1>3

LEMMA CompressedWorkRecords ==
  ASSUME SamplesInv, SamplesInv', RecorderInv, CompressedWork
  PROVE  CompressedStep
<1> USE DEF clientVars, writerVars, queueVars, fileVars, compressVars
<1>0. /\ QueueTypes /\ BlockTypes /\ BlockInv /\ Whole!FlushInv /\ Whole!FileInv
      /\ Whole!TypeOK /\ BlockTypes' /\ BlockInv' /\ BlockTypes' /\ FinalizeInv
  BY DEF SamplesInv, BlocksInv, WholeInv, RecorderInv
<1>1. current \in DataGroups /\ (pc # "write" => hand = <<>>) /\ UNCHANGED saved
  BY <1>0 DEF QueueTypes, Whole!FlushInv, CompressedWork
<1>2. ASSUME Quiet, UNCHANGED <<dl, buffer>>, NEW d \in DataGroups
      PROVE  Collected(d)' = Collected(d)
  <2>1. pc \in InFlush => pc' \in InFlush /\ current' = current
    BY <1>2, QuietSteps
  <2> QED
    BY <1>0, <1>2, <2>1, CollectedUnchanged
<1>3. ASSUME Quiet, UNCHANGED <<dl, buffer, queue, hand>>, hand = <<>>, NEW d \in DataGroups
      PROVE  (Collected(d) \o Pending(d))' = Collected(d) \o Pending(d)
  <2>1. Collected(d)' = Collected(d)
    BY <1>2, <1>3
  <2>2. Pending(d)' = Pending(d)
    BY <1>3 DEF Pending, Hand
  <2> QED
    BY <2>1, <2>2
<1>4. ASSUME UNCHANGED clientVars,
             \/ (Wake \/ CleanAll \/ EndRound \/ OpenFile \/ EndDrain) /\ UNCHANGED compressVars
             \/ \E d \in DataGroups : SkipStep(d) /\ UNCHANGED compressVars
             \/ \E d \in DataGroups : CleanStep(d)
      PROVE  CompressedStep
  <2>1. Quiet
    BY <1>4 DEF Quiet
  <2>2. UNCHANGED <<file, unflushed, dl, buffer, queue, hand>>
    BY <1>4 DEF Wake, CleanAll, EndRound, OpenFile, EndDrain, SkipStep, CleanStep
  <2>3. hand = <<>>
    BY <1>1, <1>4 DEF Wake, CleanAll, EndRound, OpenFile, EndDrain, SkipStep, CleanStep, Visit
  <2> QED
    BY <1>1, <1>3, <2>1, <2>2, <2>3, CompressedStutters
\* A queue that cannot be saved in the last flush
<1>5. ASSUME Quiet, NEW e \in DataGroups, hand = <<>>,
             UNCHANGED <<file, dl, buffer, queue, hand>>,
             unflushed' = IF final THEN unflushed \union {e} ELSE unflushed
      PROVE  CompressedStep
  <2>1. \A d \in DataGroups : (Collected(d) \o Pending(d))' = Collected(d) \o Pending(d)
    BY <1>3, <1>5
  <2>2. CASE ~final
    BY <1>1, <1>5, <2>1, <2>2, CompressedStutters
  <2>3. CASE final
    <3>1. LogOf' = LogOf /\ CollectedOf' = CollectedOf
      BY <1>5, <2>1 DEF LogOf, CollectedOf
    <3>2. CompressedImplements!Fail(e)
      BY <1>1, <1>5, <2>3, <3>1 DEF CompressedImplements!Fail, LogOf, CollectedOf
    <3> QED
      BY <1>5, <3>2 DEF CompressedStep, CompressedImplements!RecorderNext
  <2> QED
    BY <2>2, <2>3
<1>14. CASE OpenFails /\ UNCHANGED compressVars /\ UNCHANGED clientVars
  <2>1. /\ Quiet /\ UNCHANGED <<file, dl, buffer, queue, hand>> /\ hand = <<>>
        /\ unflushed' = IF final THEN unflushed \union {current} ELSE unflushed
    BY <1>1, <1>14 DEF Quiet, OpenFails
  <2> QED
    BY <1>1, <1>5, <2>1
<1>15. ASSUME NEW e \in DataGroups, CleanFails(e) /\ UNCHANGED clientVars
       PROVE  CompressedStep
  <2>1. /\ UNCHANGED <<file, dl, buffer, queue, hand>> /\ hand = <<>>
        /\ unflushed' = IF final THEN unflushed \union {e} ELSE unflushed
    BY <1>1, <1>15 DEF CleanFails, Visit
  <2>2. Quiet
    BY <1>15 DEF Quiet
  <2> QED
    BY <1>5, <2>1, <2>2
<1>16. CASE FindsFull
  <2>1. UNCHANGED <<file, dl, buffer, queue, hand, current, unflushed>>
    BY <1>16 DEF FindsFull, cacheVars, threadVars
  <2>2. \A d \in DataGroups : (Collected(d) \o Pending(d))' = Collected(d) \o Pending(d)
    BY <2>1 DEF Collected, DataOf, Pending, Hand
  <2> QED
    BY <1>1, <2>1, <2>2, CompressedStutters
\* A trimmed queue has nothing collected, and is complete once its record has begun
<1>6. ASSUME NEW e \in DataGroups, pc \in {"round", "lock"}, hand' = <<>>,
             UNCHANGED <<dl, buffer, current, pc>> \/ (dl' = <<>> /\ buffer' = EmptyBuffer)
                                                  \/ pc' \notin InFlush,
             queue' = [queue EXCEPT ![e] = TrimQueue(@, start_time)],
             UNCHANGED <<file, unflushed>>
      PROVE  CompressedStep
  <2>1. hand = <<>> /\ pc \notin InFlush /\ pc # "none"
    BY <1>1, <1>6 DEF InFlush
  <2>2. \A d \in DataGroups : Collected(d) = <<>>
    BY <2>1, QueuedTypes
  <2>3. ASSUME NEW d \in DataGroups PROVE Collected(d)' = <<>>
    <3>1. CASE pc' \notin InFlush
      <4>1. (Collected(d) = <<>>)'
        BY <1>0, <3>1, NoData, ConcatEmptySeq DEF Collected, DataOf, BlockInv, EmptyBuffer
      <4> QED
        BY <4>1
    <3>2. CASE dl' = <<>> /\ buffer' = EmptyBuffer
      BY <3>2, NoData, ConcatEmptySeq DEF Collected, DataOf, EmptyBuffer
    <3> QED
      BY <1>6, <2>1, <3>1, <3>2
  <2>4. HoldsNeeded(e) => TrimQueue(queue[e], start_time) = queue[e]
    BY <2>1, NothingTrimmed
  <2> QED
    BY <1>1, <1>6, <2>1, <2>2, <2>3, <2>4, CompressedTrimForgets
<1>7. ASSUME NEW e \in DataGroups, CompressedTrimStep(e) PROVE CompressedStep
  <2>1. /\ queue' = [queue EXCEPT ![e] = TrimQueue(@, start_time)] /\ pc = "round"
        /\ UNCHANGED <<file, unflushed, hand, dl, buffer, current, pc>>
    BY <1>7 DEF CompressedTrimStep, TrimStep, Visit
  <2> QED
    BY <1>1, <1>6, <2>1
<1>8. ASSUME NEW e \in DataGroups, PeriodicStep(e) PROVE CompressedStep
  <2>1. /\ queue' = [queue EXCEPT ![e] = TrimQueue(@, start_time)] /\ pc = "round"
        /\ UNCHANGED <<file, unflushed, hand>> /\ pc' \in {"round", "open"}
    BY <1>8 DEF PeriodicStep, Visit, SkipsQueue, BeginsToSave
  <2> QED
    BY <1>1, <1>6, <2>1 DEF InFlush
<1>9. CASE BeginBuffer
  <2>1. /\ queue' = [queue EXCEPT ![current] = TrimQueue(@, start_time)] /\ pc = "lock"
        /\ UNCHANGED <<file, unflushed, hand>> /\ dl' = <<>> /\ buffer' = EmptyBuffer
    BY <1>9 DEF BeginBuffer, LockAndTrim
  <2> QED
    BY <1>1, <1>6, <2>1
<1>10. ASSUME NEW e \in DataGroups, CompressedResetStep(e) PROVE FALSE
  <2>1. write_state \notin {"Init", "StartMeas"} /\ pc = "round"
    BY <1>10 DEF CompressedResetStep, ResetStep, Visit
  <2> QED
    BY <1>0, <2>1 DEF Whole!FileInv, Whole!TypeOK, Whole!WriteStates
<1>11. CASE TakeFromQueue \/ AppendSample \/ PurgeBuffer \/ PushBack
  BY <1>1, <1>11, MovesStutter
<1>12. CASE StoreBlocks
  BY <1>1, <1>12, StoreRecords
<1>13. UNCHANGED clientVars
  BY DEF CompressedWork
<1> QED
  BY <1>4, <1>7, <1>8, <1>9, <1>10, <1>11, <1>12, <1>13, <1>14, <1>15, <1>16
     DEF CompressedWork, CompressedThread, CompressedSaveSteps

\* What is saved enters some of the buffers under the next number, behind what a
\* flush has collected.
LEMMA CompressedSampleSaved ==
  ASSUME SamplesInv, NEW d \in DataGroups, NEW t \in Clock, CompressedSaveSample(d, t)
  PROVE  CompressedStep
<1> DEFINE gs == {e \in DataGroups : queue'[e] # queue[e]}
<1>1. /\ SaveSample(d, t) /\ saved' = saved + 1
      /\ UNCHANGED <<file, hand, current, unflushed, dl, buffer>>
  BY DEF CompressedSaveSample, SaveSample, threadVars, fileVars
<1>2. ASSUME NEW e \in DataGroups
      PROVE  CollectedOf'[e] = IF e \in gs THEN Append(CollectedOf[e], saved')
                               ELSE CollectedOf[e]
  <2>1. PICK c \in Seq(Samples), h \in Seq(Samples), q \in Seq(Samples) :
          c = Collected(e) /\ h = Hand(e) /\ q = queue[e]
    BY QueuedTypes
  <2>2. Collected(e)' = c /\ Hand(e)' = h
    BY <1>1, <2>1 DEF Collected, Hand, DataOf
  <2>3. Collected(e) \o Pending(e) = c \o (h \o q)
        /\ (Collected(e) \o Pending(e))' = c \o (h \o queue'[e])
    BY <2>1, <2>2 DEF Pending
  <2>4. CASE queue'[e] = queue[e]
    BY <2>1, <2>3, <2>4 DEF CollectedOf
  <2>5. CASE queue'[e] # queue[e]
    <3>1. TypeOK
      BY PlainTypes
    <3>2. PICK s \in Samples : queue'[e] = Append(queue[e], s) /\ s.n = saved + 1
      BY <1>1, <2>5, <3>1, SaveAppends
    <3>3. h \o q \in Seq(Samples) /\ c \o (h \o q) \in Seq(Samples)
      OBVIOUS
    <3>4. h \o Append(q, s) = Append(h \o q, s)
      BY AppendToConcat
    <3>5. c \o Append(h \o q, s) = Append(c \o (h \o q), s)
      BY <3>3, AppendToConcat
    <3>6. (Collected(e) \o Pending(e))' = Append(c \o (h \o q), s)
      BY <2>1, <2>3, <3>2, <3>4, <3>5
    <3>7. Numbers(Append(c \o (h \o q), s)) = Append(Numbers(c \o (h \o q)), s.n)
      BY <3>3, NumbersAppend
    <3>8. Numbers((Collected(e) \o Pending(e))') = Append(Numbers(c \o (h \o q)), saved')
      BY <1>1, <3>2, <3>6, <3>7
    <3> QED
      BY <2>3, <2>5, <3>8 DEF CollectedOf
  <2> QED
    BY <2>4, <2>5
<1> HIDE DEF gs
<1>3. gs \in SUBSET DataGroups
  BY DEF gs
<1>4. CollectedOf' = [e \in DataGroups |->
                       IF e \in gs THEN Append(CollectedOf[e], saved') ELSE CollectedOf[e]]
  BY <1>2 DEF CollectedOf
<1>5. CompressedImplements!Save(gs)
  BY <1>1, <1>4 DEF CompressedImplements!Save, CollectedOf
<1> QED
  BY <1>3, <1>5 DEF CompressedStep, CompressedImplements!RecorderNext

LEMMA CompressedClientRecords ==
  ASSUME SamplesInv, SamplesInv', RecorderInv, CompressedClient
  PROVE  CompressedStep
<1> USE DEF cacheVars, writerVars, queueVars, threadVars, fileVars
<1>0. /\ Client /\ UNCHANGED <<dl, buffer>> /\ Whole!FlushInv /\ IdleInv
  BY CompressedSteps DEF SamplesInv, WholeInv, RecorderInv
<1>1. CASE \/ InitMeasurement \/ InitFails \/ StartSetsTime \/ StartReturns
           \/ FinalizeMeasurement \/ FinalizeWrites
           \/ (\E t \in Clock : StartMeasurement(t))
           \/ (\E t \in FirstTime .. MaxTime : StopMeasurement(t))
           \/ \E d \in DataGroups : CreateDataGroup(d)
  <2>1. UNCHANGED <<file, queue, hand, current, unflushed, saved>>
    BY <1>1 DEF InitMeasurement, InitFails, StartSetsTime, StartReturns,
                FinalizeMeasurement, FinalizeWrites, StartMeasurement,
                StopMeasurement, CreateDataGroup
  <2>2. \A d \in DataGroups : (Collected(d) \o Pending(d))' = Collected(d) \o Pending(d)
    BY <1>0, <2>1 DEF Collected, DataOf, Pending, Hand
  <2> QED
    BY <2>1, <2>2, CompressedStutters
<1>2. CASE InitExit \/ StopExit
  <2>1. /\ pc = "none" /\ hand = <<>>
        /\ UNCHANGED <<file, hand, current, unflushed, saved>>
        /\ queue' = [d \in DataGroups |-> <<>>]
    BY <1>0, <1>2 DEF InitExit, StopExit, ThreadJoined, Whole!FlushInv
  <2>2. \A d \in DataGroups : Collected(d) = <<>> /\ Collected(d)' = <<>>
    <3>1. \A d \in DataGroups : Collected(d) = <<>>
      BY <2>1, QueuedTypes DEF InFlush
    <3> QED
      BY <1>0, <2>1, <3>1 DEF Collected, DataOf
  <2>3. ASSUME NEW d \in DataGroups \ unflushed PROVE CollectedOf[d] = <<>>
    <3>1. Pending(d) = queue[d]
      BY <2>1, QueuedTypes
    <3>2. Pending(d) = <<>>
      <4>1. CASE d \in cache
        BY <1>0, <2>1, <2>3, <4>1 DEF Whole!FlushInv, Whole!Flushed, Whole!Pending,
           Whole!Hand, Pending, Hand
      <4>2. CASE d \notin cache
        BY <1>0, <3>1, <4>2 DEF IdleInv
      <4> QED
        BY <4>1, <4>2
    <3>3. Collected(d) \o Pending(d) = <<>>
      BY <2>2, <3>2, ConcatEmptySeq
    <3> QED
      BY <3>3, NumbersNone DEF CollectedOf
  <2>4. CollectedOf' = [d \in DataGroups |-> <<>>]
    <3>1. ASSUME NEW d \in DataGroups PROVE Numbers((Collected(d) \o Pending(d))') = <<>>
      <4>1. Pending(d)' = <<>> \o <<>>
        BY <2>1 DEF Pending, Hand
      <4>2. <<>> \o <<>> = <<>>
        OBVIOUS
      <4>3. (Collected(d) \o Pending(d))' = <<>>
        BY <2>2, <4>1, <4>2
      <4> QED
        BY <4>3, NumbersNone
    <3> QED
      BY <3>1 DEF CollectedOf
  <2>5. CompressedImplements!End
    BY <2>1, <2>3, <2>4 DEF CompressedImplements!End, CollectedOf
  <2> QED
    BY <2>5 DEF CompressedStep, CompressedImplements!RecorderNext
<1>3. CASE InitWrites
  <2>1. /\ pc = "none" /\ hand = <<>> /\ \A d \in DataGroups : queue[d] = <<>>
        /\ UNCHANGED <<file, queue, hand, current, saved>> /\ unflushed' = {}
    BY <1>0, <1>3 DEF InitWrites, Whole!FlushInv
  <2>2. ASSUME NEW d \in DataGroups PROVE CollectedOf[d] = <<>>
    <3>1. Collected(d) = <<>> /\ Pending(d) = <<>>
      BY <2>1, QueuedTypes DEF InFlush
    <3>2. Collected(d) \o Pending(d) = <<>>
      BY <3>1, ConcatEmptySeq
    <3> QED
      BY <3>2, NumbersNone DEF CollectedOf
  <2>3. CollectedOf' = CollectedOf
    <3>1. \A d \in DataGroups : (Collected(d) \o Pending(d))' = Collected(d) \o Pending(d)
      BY <1>0, <2>1 DEF Collected, DataOf, Pending, Hand
    <3> QED
      BY <3>1 DEF CollectedOf
  <2>4. CompressedImplements!Begin
    BY <2>1, <2>2, <2>3 DEF CompressedImplements!Begin, CollectedOf
  <2> QED
    BY <2>4 DEF CompressedStep, CompressedImplements!RecorderNext
<1>4. ASSUME NEW e \in DataGroups, StartRecalculates(e) PROVE CompressedStep
  <2>1. /\ queue' = [queue EXCEPT ![e] = RecalculateTimeMaster(@, start_time)]
        /\ UNCHANGED <<file, hand, current, unflushed, saved>>
        /\ queue \in [DataGroups -> Seq(Samples)] /\ start_time \in Times
    BY <1>4, PlainTypes DEF StartRecalculates, TypeOK
  <2>2. ASSUME NEW d \in DataGroups
        PROVE  Numbers((Collected(d) \o Pending(d))') = Numbers(Collected(d) \o Pending(d))
    <3>1. PICK c \in Seq(Samples), h \in Seq(Samples), q \in Seq(Samples) :
            c = Collected(d) /\ h = Hand(d) /\ q = queue[d]
      BY QueuedTypes
    <3>2. PICK r \in Seq(Samples) : r = queue'[d] /\ Numbers(r) = Numbers(q)
      <4>1. CASE d = e
        BY <2>1, <3>1, <4>1, NumbersRecalculated
      <4>2. CASE d # e
        BY <2>1, <3>1, <4>2
      <4> QED
        BY <4>1, <4>2
    <3>3. Collected(d)' = c /\ Hand(d)' = h
      BY <1>0, <2>1, <3>1 DEF Collected, DataOf, Hand
    <3>4. /\ Collected(d) \o Pending(d) = c \o (h \o q)
          /\ (Collected(d) \o Pending(d))' = c \o (h \o r)
      BY <3>1, <3>2, <3>3 DEF Pending
    <3>5. h \o q \in Seq(Samples) /\ h \o r \in Seq(Samples)
      OBVIOUS
    <3>6. /\ Numbers(c \o (h \o q)) = Numbers(c) \o Numbers(h \o q)
          /\ Numbers(c \o (h \o r)) = Numbers(c) \o Numbers(h \o r)
      BY <3>5, NumbersConcat
    <3>7. /\ Numbers(h \o q) = Numbers(h) \o Numbers(q)
          /\ Numbers(h \o r) = Numbers(h) \o Numbers(r)
      BY NumbersConcat
    <3> QED
      BY <3>2, <3>4, <3>6, <3>7
  <2>3. CollectedOf' = CollectedOf
    BY <2>2 DEF CollectedOf
  <2>4. UNCHANGED <<file, saved, unflushed>>
    BY <2>1
  <2> QED
    BY <2>3, <2>4 DEF CompressedStep, CollectedOf, CompressedImplements!recorderVars
<1>5. ASSUME NEW d \in DataGroups, NEW t \in Clock, CompressedSaveSample(d, t)
      PROVE  CompressedStep
  BY <1>5, CompressedSampleSaved
<1> QED
  BY <1>1, <1>2, <1>3, <1>4, <1>5 DEF CompressedClient, CompressedCallContinues

\* The compressed writer is the same recorder: for a client that keeps to the
\* documented order and saves nothing while StartMeasurement runs, a flush records
\* all it has collected at once, an unbroken continuation of what the data group
\* holds; once it holds a needed sample, no sample is trimmed any more; and a
\* measurement ends with every buffer recorded unless the file could not be opened
\* or the data group can have no HL block.
THEOREM CompressedRecorderImplemented ==
  ASSUME DocumentedOrder, ~ConcurrentSampling
  PROVE  CompressedSpec => CompressedImplementsRecorder
<1>1. CompressedInit => CompressedImplements!RecorderInit
  <2> SUFFICES ASSUME CompressedInit PROVE CompressedImplements!RecorderInit
    OBVIOUS
  <2>1. SamplesInv /\ pc = "none" /\ hand = <<>>
    BY InitSamplesInv DEF CompressedInit, Init
  <2>2. ASSUME NEW d \in DataGroups
        PROVE  Numbers(file[d]) = <<>> /\ Numbers(Collected(d) \o Pending(d)) = <<>>
    <3>1. file[d] = <<>> /\ queue[d] = <<>>
      BY DEF CompressedInit, Init
    <3>2. Collected(d) = <<>> /\ Pending(d) = <<>>
      BY <2>1, <3>1, QueuedTypes DEF InFlush
    <3>3. Collected(d) \o Pending(d) = <<>>
      BY <3>2, ConcatEmptySeq
    <3> QED
      BY <3>1, <3>3, NumbersNone
  <2> QED
    BY <2>2 DEF CompressedInit, Init, CompressedImplements!RecorderInit
<1>2. SamplesInv /\ RecorderInv /\ [CompressedNext]_cvars => RecorderInv'
  BY NextRecorderInv
<1>3. SamplesInv /\ SamplesInv' /\ RecorderInv /\ [CompressedNext]_cvars => CompressedStep
  <2>1. UNCHANGED cvars => CompressedStep
    <3> SUFFICES ASSUME UNCHANGED cvars PROVE CompressedStep
      OBVIOUS
    <3>1. UNCHANGED <<file, queue, hand, current, unflushed, saved, dl, buffer>>
      BY DEF cvars, compressVars, vars, cacheVars, clientVars, queueVars, threadVars, fileVars
    <3>2. \A d \in DataGroups : (Collected(d) \o Pending(d))' = Collected(d) \o Pending(d)
      BY <3>1 DEF Collected, DataOf, Pending, Hand
    <3> QED
      BY <3>1, <3>2, CompressedStutters
  <2> QED
    BY <2>1, CompressedWorkRecords, CompressedClientRecords DEF CompressedNext
<1>4. CompressedStep <=>
        [CompressedImplements!RecorderNext]_(CompressedImplements!recorderVars)
  BY DEF CompressedStep
<1> QED
  BY <1>1, <1>2, <1>3, <1>4, InitRecorderInv, SamplesInvariant, PTL
     DEF CompressedSpec, CompressedImplementsRecorder, CompressedImplements!RecorderSpec
=============================================================================

-------------------------- MODULE CompressedQueue --------------------------
(***************************************************************************)
(* The writer with compressed data: Writer4SampleQueue collects the        *)
(* samples of a flush in a buffer and the buffers in the blocks of a DL    *)
(* block, which goes to the file as a whole at the end of the flush.       *)
(*                                                                         *)
(* The client, the work thread, the mutex and the file are those of        *)
(* MdfWriter.  A measurement that is not finished only saves when a block  *)
(* is full, and a sample that does not fit any more goes back to the front *)
(* of a queue that other threads have filled meanwhile.                    *)
(*                                                                         *)
(* Of the bytes of a sample only their number counts: its shape is the     *)
(* length of the record, the length of the VLSD data and where these data  *)
(* go.  The record of a "fixed" sample is all there is; "cg" data become a *)
(* record of their own in the same block, "sd" data go to a block of their *)
(* channel.  The code reckons with three lengths of one sample: what size_ *)
(* counts, what a block needs room for, and what is appended.              *)
(***************************************************************************)
EXTENDS MdfWriter, SequencesExt

CONSTANTS
  BufferMax,  \* buffer_max, 4 000 000 bytes in the code
  Shapes,     \* the shapes of all samples the client may save, by their number
  IdSize,     \* RecordIdSize()
  VlsdLength  \* the bytes of the length of VLSD data, 4 in the code

ASSUME BufferAssumption == BufferMax \in Nat \ {0}

ASSUME ShapesAssumption ==
  /\ \A f \in Shapes : \A n \in 1 .. MaxSamples :
       f[n] \in [record : Nat \ {0}, vlsd : Nat, storage : {"fixed", "cg", "sd"}]
  /\ IdSize \in Nat
  /\ VlsdLength \in Nat

ASSUME CompressAssumption == CompressData /\ WriterType = "Mdf4Basic"

VARIABLES
  shape,      \* the shape of each sample the client will save
  hasDt,      \* the data groups that have a DT block, left there by an earlier
              \* measurement without compression
  size,       \* size_ of each queue
  offset,     \* offset_ of each queue
  finalize,   \* the argument of CleanQueueCompressed
  decision,   \* what the thread, finding the buffer full, has decided to do
  buffer,     \* the samples in buffer and its size()
  dl,         \* the data blocks of the DL block that is being built
  stored,     \* the data blocks behind the HL block of each data group
  before      \* history: how many of them were there before the present queue

compressVars == <<shape, hasDt, size, offset, finalize, decision, buffer, dl,
                  stored, before>>
cvars == <<vars, compressVars>>

VlsdBytes(s) == shape[s.n].vlsd + VlsdLength + IdSize

\* SampleSize(), whether or not there are VLSD data, and without record ids
SampleSize(s) == shape[s.n].record + shape[s.n].vlsd + VlsdLength

\* What a block must have room for: all of the sample
MaxBytes(s) ==
  shape[s.n].record + IdSize + (IF shape[s.n].storage = "fixed" THEN 0 ELSE VlsdBytes(s))

\* What WriteCompressedVlsdSample and WriteCompressedSample append to the block
Bytes(s) ==
  shape[s.n].record + IdSize + (IF shape[s.n].storage = "cg" THEN VlsdBytes(s) ELSE 0)

EmptyBuffer == [data |-> <<>>, length |-> 0]
Block(b, o) == [data |-> b.data, length |-> b.length, offset |-> o]
DataOf(blocks) == FlattenSeq([i \in DOMAIN blocks |-> blocks[i].data])

\* The samples the worker has taken for this flush, oldest first
Collected(d) == IF d = current THEN DataOf(dl) \o buffer.data ELSE <<>>

CompressedInit ==
  /\ Init
  /\ shape \in Shapes
  /\ hasDt \in SUBSET DataGroups
  /\ size = [d \in DataGroups |-> 0]
  /\ offset = [d \in DataGroups |-> 0]
  /\ finalize = FALSE
  /\ decision = "none"
  /\ buffer = EmptyBuffer
  /\ dl = <<>>
  /\ stored = [d \in DataGroups |-> <<>>]
  /\ before = [d \in DataGroups |-> 0]

-----------------------------------------------------------------------------
(* The size of the queue *)

\* The sum of SampleSize() over the first n samples of q
SizeOf(q, n) ==
  LET sum[i \in 0 .. n] == IF i = 0 THEN 0 ELSE sum[i - 1] + SampleSize(q[i])
  IN  sum[n]

\* QueueSize() counts one record id for each sample
QueueSize(d) == size[d] + IdSize * Len(queue[d])

\* Fault: the sample that stays is subtracted as well
PoppedSizeInclusive(q, n) == SizeOf(q, IF n = 0 THEN 0 ELSE n + 1)

\* The samples that are popped, as they were
PoppedSize(q, n) == SizeOf(q, n)

(***************************************************************************)
(* PopSample() reads the length of the record after the record has been    *)
(* destroyed.  Each pop may find either vector as it was or empty, or, if  *)
(* it was overwritten in part, something in between: what the pops of a    *)
(* trim subtract is anything from the VLSD lengths alone to the whole.     *)
(* That a destroyed vector never reads longer than it was is an assumption *)
(* on the build, which does not use the memory again before it is read.    *)
(***************************************************************************)
Trims(d) ==
  LET n == Popped(queue[d], start_time)
  IN  \E read \in n * VlsdLength .. PoppedSize(queue[d], n) :
        size' = [size EXCEPT ![d] = @ - read]

\* Reset() and a new queue
Emptied(d) == size' = [size EXCEPT ![d] = 0]

-----------------------------------------------------------------------------
(* What a round does to one queue *)

CompressedTrimStep(d) ==
  /\ TrimStep(d)
  /\ Trims(d)
  /\ UNCHANGED <<shape, hasDt, offset, finalize, decision, buffer, dl, stored, before>>

CompressedResetStep(d) ==
  /\ ResetStep(d)
  /\ Emptied(d)
  /\ UNCHANGED <<shape, hasDt, offset, finalize, decision, buffer, dl, stored, before>>

\* Fault: it waits for a second full block
FillsTwoBlocks(bytes) == bytes \div BufferMax >= 2

\* CalculateNofDzBlocks() of a queue is at least 2
FillsBlock(bytes) == bytes \div BufferMax + 1 >= 2

\* CleanQueueCompressed() begins by giving up the mutex
BeginsToSave(d, finally) ==
  /\ locker' = FALSE
  /\ pc' = "open"
  /\ current' = d
  /\ finalize' = finally
  /\ UNCHANGED todo

\* It returns when there is nothing to save, or no HL block to save it to
SkipsQueue(d) ==
  /\ todo' = todo \ {d}
  /\ UNCHANGED <<locker, pc, current, finalize>>

\* Does the thread clean the queue, or does it only save full blocks?
Cleans == final \/ write_state = "StopMeas"

\* CleanQueue()
CleanStep(d) ==
  /\ Visit(d)
  /\ Cleans
  /\ \/ queue[d] = <<>> /\ SkipsQueue(d)
     \/ queue[d] # <<>> /\ d \notin hasDt /\ BeginsToSave(d, TRUE)
  /\ UNCHANGED <<writerVars, stop_thread, queueVars, final, hand, stopAt, fileVars,
                 shape, hasDt, size, offset, decision, buffer, dl, stored, before>>

\* CreateOrGetHl4() finds the DT block of an earlier measurement, which is no HL
\* block: the samples stay where they are, also in the last flush
CleanFails(d) ==
  /\ Visit(d)
  /\ Cleans
  /\ queue[d] # <<>>
  /\ d \in hasDt
  /\ SkipsQueue(d)
  /\ unflushed' = IF final THEN unflushed \union {d} ELSE unflushed
  /\ UNCHANGED <<writerVars, stop_thread, queueVars, final, hand, stopAt, users,
                 file, nof, unused, header, shape, hasDt, size, offset, decision,
                 buffer, dl, stored, before>>

\* SaveQueue() trims the queue before it looks at its size
PeriodicStep(d) ==
  /\ Visit(d)
  /\ ~Cleans
  /\ Saves
  /\ queue' = [queue EXCEPT ![d] = TrimQueue(@, start_time)]
  /\ Trims(d)
  /\ IF FillsBlock(QueueSize(d)') /\ queue'[d] # <<>> /\ d \notin hasDt
     THEN BeginsToSave(d, FALSE)
     ELSE SkipsQueue(d)
  /\ UNCHANGED <<writerVars, stop_thread, cache, masters, final, hand, stopAt,
                 fileVars, shape, hasDt, offset, decision, buffer, dl, stored,
                 before>>

-----------------------------------------------------------------------------
(* CleanQueueCompressed() of one queue *)

\* An empty buffer and a DL block without data blocks; lock() and trim
BeginBuffer ==
  /\ LockAndTrim
  /\ Trims(current)
  /\ buffer' = EmptyBuffer
  /\ dl' = <<>>
  /\ UNCHANGED <<shape, hasDt, offset, finalize, decision, stored, before>>

TakeFromQueue ==
  /\ TakeSample
  /\ size' = [size EXCEPT ![current] = @ - SampleSize(Head(queue[current]))]
  /\ UNCHANGED <<shape, hasDt, offset, finalize, decision, buffer, dl, stored, before>>

InHand == Head(hand)

\* Fault: the block may grow by one byte more than it should
FitsExactly == buffer.length + MaxBytes(InHand) <= BufferMax

Fits == buffer.length + MaxBytes(InHand) < BufferMax

\* Fault: the last flush stops at the first full block as well
PurgesIfQueueIsLong == QueueSize(current) > BufferMax

\* The buffer is full: does the flush go on with a new one?
Purges == finalize \/ QueueSize(current) > BufferMax

\* QueueSize() is read without the mutex.  Read in the middle of an AddSample() of
\* another thread it is one between those before and after it, and decides like
\* one of them.
FindsFull ==
  /\ pc = "write"
  /\ ~locker
  /\ decision = "none"
  /\ ~Fits
  /\ decision' = IF Purges THEN "purge" ELSE "pushBack"
  /\ UNCHANGED <<cacheVars, shape, hasDt, size, offset, finalize, buffer, dl,
                 stored, before>>

\* WriteCompressedSample(), the count of the channel group, and lock() for the
\* next sample
Appends(b) ==
  /\ buffer' = [data |-> b.data \o hand, length |-> b.length + Bytes(InHand)]
  /\ nof' = [nof EXCEPT ![current] = @ + 1]
  /\ \E g \in ChannelGroups : unused' = [unused EXCEPT ![current] = @ \ {g}]
  /\ decision' = "none"
  /\ hand' = <<>>
  /\ locker' = TRUE
  /\ pc' = "drain"
  /\ UNCHANGED <<writerVars, stop_thread, queueVars, final, todo, current, stopAt,
                 users, file, header, unflushed, shape, hasDt, size, finalize,
                 stored, before>>

AppendSample ==
  /\ pc = "write"
  /\ ~locker
  /\ Fits
  /\ Appends(buffer)
  /\ UNCHANGED <<offset, dl>>

\* Fault: offset_ is left to the end of the flush
PurgeKeepsOffset ==
  /\ pc = "write"
  /\ ~locker
  /\ decision = "purge"
  /\ dl' = Append(dl, Block(buffer, offset[current]))
  /\ Appends(EmptyBuffer)
  /\ UNCHANGED offset

\* The full buffer becomes a DZ block
PurgeBuffer ==
  /\ pc = "write"
  /\ ~locker
  /\ decision = "purge"
  /\ dl' = Append(dl, Block(buffer, offset[current]))
  /\ offset' = [offset EXCEPT ![current] = @ + buffer.length]
  /\ Appends(EmptyBuffer)

\* Fault: the sample goes back to the end of the queue
PushesLast(q, s) == Append(q, s)

\* PushSample()
Pushes(q, s) == <<s>> \o q

\* Fault: PushSample() leaves size_ alone
PushBackUncounted ==
  /\ pc = "write"
  /\ ~locker
  /\ decision = "pushBack"
  /\ decision' = "none"
  /\ queue' = [queue EXCEPT ![current] = Pushes(@, InHand)]
  /\ hand' = <<>>
  /\ pc' = "close"
  /\ UNCHANGED <<writerVars, stop_thread, cache, masters, locker, final, todo,
                 current, stopAt, fileVars, shape, hasDt, size, offset, finalize,
                 buffer, dl, stored, before>>

\* lock(), PushSample(), break and unlock()
PushBack ==
  /\ pc = "write"
  /\ ~locker
  /\ decision = "pushBack"
  /\ decision' = "none"
  /\ queue' = [queue EXCEPT ![current] = Pushes(@, InHand)]
  /\ size' = [size EXCEPT ![current] = @ + SampleSize(InHand)]
  /\ hand' = <<>>
  /\ pc' = "close"
  /\ UNCHANGED <<writerVars, stop_thread, cache, masters, locker, final, todo,
                 current, stopAt, fileVars, shape, hasDt, offset, finalize,
                 buffer, dl, stored, before>>

\* Fault: what is left in the buffer is forgotten
FullBlocks == dl

\* The data blocks of the DL block; what is left in the buffer is the last one
Blocks ==
  IF buffer.data = <<>> THEN dl ELSE Append(dl, Block(buffer, offset[current]))

\* The data group is written, with its HL block and the new DL block
StoreBlocks ==
  /\ UpdateAndCloseFile
  /\ stored' = [stored EXCEPT ![current] = @ \o Blocks]
  /\ file' = [file EXCEPT ![current] = @ \o DataOf(Blocks)]
  /\ offset' = [offset EXCEPT ![current] = @ + buffer.length]
  /\ buffer' = EmptyBuffer
  /\ dl' = <<>>
  /\ UNCHANGED <<shape, hasDt, size, finalize, decision, before>>

CompressedSaveSteps ==
  \/ (OpenFile \/ OpenFails \/ EndDrain) /\ UNCHANGED compressVars
  \/ BeginBuffer \/ TakeFromQueue
  \/ AppendSample \/ FindsFull \/ PurgeBuffer \/ PushBack
  \/ StoreBlocks

CompressedThread ==
  \/ (Wake \/ CleanAll \/ EndRound) /\ UNCHANGED compressVars
  \/ \E d \in DataGroups :
       \/ SkipStep(d) /\ UNCHANGED compressVars
       \/ CompressedTrimStep(d) \/ CompressedResetStep(d)
       \/ CleanStep(d) \/ CleanFails(d) \/ PeriodicStep(d)
  \/ CompressedSaveSteps

-----------------------------------------------------------------------------
(* The client *)

CompressedSaveSample(d, t) ==
  /\ SaveSample(d, t)
  /\ size' = [q \in DataGroups |->
                IF queue'[q] = queue[q] THEN size[q]
                ELSE size[q] + SampleSize(Last(queue'[q]))]
  /\ UNCHANGED <<shape, hasDt, offset, finalize, decision, buffer, dl, stored, before>>

\* The queues are destroyed; those of the next measurement start from 0, whatever
\* blocks there are
QueuesDestroyed ==
  /\ size' = [d \in DataGroups |-> 0]
  /\ offset' = [d \in DataGroups |-> 0]
  /\ before' = [d \in DataGroups |-> Len(stored[d])]
  /\ UNCHANGED <<shape, hasDt, finalize, decision, buffer, dl, stored>>

CompressedCallContinues ==
  \/ (InitExit \/ StopExit) /\ QueuesDestroyed
  \/ /\ \/ InitWrites \/ InitFails
        \/ StartSetsTime \/ StartReturns
        \/ \E d \in DataGroups : StartRecalculates(d)
        \/ FinalizeWrites
     /\ UNCHANGED compressVars

CompressedClient ==
  \/ CompressedCallContinues
  \/ \E d \in DataGroups, t \in Clock : CompressedSaveSample(d, t)
  \/ /\ \/ InitMeasurement \/ FinalizeMeasurement
        \/ \E t \in Clock : StartMeasurement(t)
        \/ \E t \in FirstTime .. MaxTime : StopMeasurement(t)
        \/ \E d \in DataGroups : CreateDataGroup(d)
     /\ UNCHANGED compressVars

CompressedWork == CompressedThread /\ UNCHANGED clientVars

CompressedNext == CompressedClient \/ CompressedWork

CompressedSpec == CompressedInit /\ [][CompressedNext]_cvars

\* As in MdfWriter
CompressedFairness ==
  /\ WF_cvars(CompressedWork)
  /\ SF_cvars(OpenFile /\ UNCHANGED <<clientVars, compressVars>>)
  /\ WF_cvars(CompressedCallContinues)

CompressedFairSpec == CompressedSpec /\ CompressedFairness

-----------------------------------------------------------------------------
(* Safety *)

CompressedTypeOK ==
  /\ TypeOK
  /\ shape \in Shapes
  /\ hasDt \subseteq DataGroups
  /\ size \in [DataGroups -> Nat]
  /\ offset \in [DataGroups -> Nat]
  /\ finalize \in BOOLEAN
  /\ decision \in {"none", "purge", "pushBack"}
  /\ before \in [DataGroups -> Nat]
  /\ buffer.data \in Seq(Samples) /\ buffer.length \in Nat
  /\ \A d \in DataGroups : \A b \in ToSet(stored[d]) \union ToSet(dl) :
       b.data \in Seq(Samples) /\ b.length \in Nat /\ b.offset \in Nat

\* The blocks on disk and in the DL block being built, the buffer, the sample in
\* hand and the queue hold the samples in the order they were saved and none
\* twice, although a sample is pushed back after others have been saved.
CompressedFifo ==
  \A d \in DataGroups : InOrder(file[d] \o Collected(d) \o Pending(d))

\* A sequence of blocks without a gap or an overlap behind the first n of them,
\* beginning with offset 0
Contiguous(blocks, n) ==
  \A i \in DOMAIN blocks : i > n =>
    blocks[i].offset = IF i = n + 1 THEN 0 ELSE blocks[i - 1].offset + blocks[i - 1].length

BlocksOf(d) == IF d = current THEN stored[d] \o dl ELSE stored[d]

\* Over all flushes of a measurement, the offset of a data block in its DL block
\* is the number of data bytes that the measurement has stored before it, which
\* is how a reader finds a record by its index.  Over two measurements it is not:
\* offset_ begins at 0 in every queue, and a data group in which one channel group
\* has samples and another has none gets a queue again.
OffsetsContiguous == \A d \in DataGroups : Contiguous(BlocksOf(d), before[d])

\* A data block is below buffer_max unless a single sample exceeds it: neither
\* the blocks a flush goes on with nor the last one of a flush grow further.
BlocksBelowMax ==
  \A d \in DataGroups : \A i \in DOMAIN BlocksOf(d) :
    BlocksOf(d)[i].length < BufferMax \/ Len(BlocksOf(d)[i].data) = 1

\* size_ is unsigned and the popping, taking and pushing back of samples change
\* it in different places: it never falls below the sum of SampleSize() over the
\* samples in the queue, so that no subtraction wraps around.
SizeCoversQueue == \A d \in DataGroups : size[d] >= SizeOf(queue[d], Len(queue[d]))

\* PreTrigKept with the samples a flush has collected
CompressedPreTrigKept ==
  write_state = "StartMeas" =>
    \A d \in cache : \A i \in DOMAIN accepted[d] :
      \/ \E s \in ToSet(file[d] \o Collected(d) \o Pending(d)) : s.n = accepted[d][i].n
      \/ /\ i < Len(accepted[d])
         /\ accepted[d][i + 1].ts <
              (IF call = "startTime" THEN argument ELSE start_time) - PreTrig

\* A compressed measurement is complete when its queues are dropped: no sample
\* is left in a queue, in the buffer, or in a DL block that was not written,
\* unless the last flush could not open the file or found no HL block.
CompressedStopLosesNothing ==
  [][\A d \in cache : d \notin cache' =>
       Collected(d) \o Pending(d) = <<>> \/ d \in unflushed]_cvars

\* The file holds a sample from the pre-trigger time on.  A flush between the
\* two stores of StartMeasurement may have stored older samples before.
HoldsNeeded(d) ==
  file[d] # <<>> /\ start_time > 0 /\ Last(file[d]).ts >= start_time - PreTrig

\* The compressed writer implements the same recorder as the uncompressed one,
\* a flush recording all its samples at once.  Its record begins with the first
\* needed sample: TrimQueue may still throw away older ones that a full block
\* left in the queue.
CompressedImplements == INSTANCE Recorder WITH
  Groups <- DataGroups,
  log    <- [d \in DataGroups |-> Numbers(file[d])],
  buffer <- [d \in DataGroups |-> Numbers(Collected(d) \o Pending(d))],
  last   <- saved,
  begun  <- {d \in DataGroups : HoldsNeeded(d)},
  failed <- unflushed

CompressedImplementsRecorder == CompressedImplements!RecorderSpec

-----------------------------------------------------------------------------
(* Liveness *)

\* What the samples in the queue contribute to QueueSize()
QueuedBytes(d) == SizeOf(queue[d], Len(queue[d])) + IdSize * Len(queue[d])

\* A queue that has grown to the size of a block is saved within finitely many
\* rounds of a started measurement: the memory a measurement needs is bounded,
\* if every sample fits into a block and the data group can have an HL block.
LongQueueSaved(d) ==
  (d \in cache \ hasDt /\ write_state = "StartMeas" /\ QueuedBytes(d) >= BufferMax)
    ~> (QueuedBytes(d) < BufferMax \/ write_state # "StartMeas")
LongQueuesSaved == \A d \in DataGroups : LongQueueSaved(d)
=============================================================================

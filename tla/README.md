# A TLA+ model of mdflib

mdflib reads and writes MDF files (ASAM MDF 3 and 4), the format in which test
benches and vehicles record measurements. A program that records gives samples
to an `MdfWriter`; a thread of the library stores them in the file. A program
that evaluates opens the file with an `MdfReader`, which parses the blocks and
hands the records to observers.

The model is about the two parts of the library that have a behaviour. In the
writer several threads share queues, atomics and one file, and a mistake costs
samples of a measurement that cannot be repeated. In the reader one thread finds
its way through a stream of records that data blocks cut anywhere, skips what
nobody asked for, has to know at every moment which byte of which record is next,
and puts records of two groups together again.

## The system

| Component | State | Operations | What makes it correct |
|---|---|---|---|
| `MdfWriter` | `write_state_`, `start_time_`, `stop_time_` (atomics), `file_`, the MDF blocks | `CreateDataGroup`, `InitMeasurement`, `StartMeasurement`, `StopMeasurement`, `FinalizeMeasurement`, the `Save...` functions | every sample from the pre-trigger time to the stop is in the file, once, in order; two threads are never in the file together |
| `WriteCache` | `cache_` (a queue per data group), `locker_`, `stop_thread_`, the thread | `Init`, `Exit`, `WorkThread`, `RecalculateTimeMaster`, `Save...` | the thread ends when asked and never before its last flush; it keeps flushing |
| `SampleQueue`, `Writer4SampleQueue` | `queue_`, `master_channels_` | `AddSample`, `TrimQueue`, `SaveQueue`, `CleanQueue`, `RecalculateTime`, `Reset` | trimming keeps the pre-trigger window; samples in the queue are relative to the start time once the queue knows it |
| compressed `Writer4SampleQueue` | as above, `offset_`, `size_`, a buffer, a DL block | `SaveQueueCompressed`, `CleanQueueCompressed` | the offsets of a DL block are the sums of the block lengths; the sample pushed back is not lost |
| `ConverterSampleQueue`, `MdfConverter` | a file that stays open | the same, nothing trimmed | every sample is converted |
| data block layout | links, positions and lengths of DG, DT, HL, DL, DZ blocks | `CreateOrGetDt4`, `CreateOrGetHl4`, `SetLastPosition`, `UpdateBlockSize` | a data block spans the records of its group and no other block |
| `ReadCache`, `DgRange`, `CgRange` | block list, position, counters | `ParseRecord`, `ParseRangeRecord`, `ParseSignalData`, `SkipBytes`, `GetArray` | reading with skipped groups returns what a flat read returns |
| finalizing on read (`Mdf4File`) | flags of the ID block | `FinalizeFile` | a file of a crashed writer is readable up to its last whole record |
| observers | the value buffers, the pending CAN message, `current_sample_index_` | `OnSample` | each record is paired with its own VLSD record |
| tasks | a temporary file, reader and writer | `Run` of cut, sort, CSV, validate | the destination exists completely or not at all |
| blocks, channels, conversions, metadata, messages, utilities, bindings, applications | - | - | no state machine; not modelled |

How they interact: the client thread calls `MdfWriter`, which stores its atomics
and calls `WriteCache`. `WriteCache` owns a mutex, `locker_`, that guards the
queues, and a thread that every 10 s looks at each queue: it trims it in state
`Init`, stores it in state `StartMeas`, and stores everything that is left when it
is asked to stop. It gives the mutex up for every file operation, also between the
records of one flush. The atomics are read by that thread without the mutex.
`file_` has no lock at all; it is protected only by the order of the calls.

Reading is sequential: `MdfReader` collects the data blocks of a data group or of
a channel, gives them to a `ReadCache` and calls one of its `Parse` functions until
that returns false. The function reads one record and calls the observers.

What is hard in the writer: the interleavings of the thread with
`StartMeasurement` (three stores and a pass over the queues) and with new samples
during a flush; flushes that cannot open the file; the order of the calls; the two
ways out of the thread's loop; that samples reach the file although nothing wakes
the thread but its timeout; a compressed flush, whose last sample goes back to a
queue that others have filled meanwhile, and whose `size_` and `offset_` are kept up
by hand over all flushes; several data groups and measurements in one file of which
only the last data block can grow. In the reader: block boundaries inside a record
id, a length or the data; compressed blocks, which are read from a buffer, between
blocks that are read from the file; bytes that are skipped and must be counted as
if read; the sample counters of groups that are skipped; the end of a range, an
observer that says stop and the end of the data, each of which ends the loop; and
the observer that recognises the second half of a message by a sample number.

## Modules

The writer:

- `SampleQueue` - the queue of one data group as a value: what `AddSample`,
  `TrimQueue`, `RecalculateTime` and `RecalculateTimeMaster` compute. A sample is
  its number `n`, its absolute time `ts` and `base`, the start time its master
  channel was made relative to (0: not yet). Times are words of `uint64_t` with
  `Word` values, and differences wrap around as they do in the code.
- `WriteCache` - the shared variables and the work thread. `pc` is where the
  thread is: in `wait_for`, between the loop and the last block (`clean`), in the
  `for` statement (`round`), or in `SaveQueue`/`CleanQueue` before the file is
  open (`open`), before the mutex is taken again (`lock`), looking at the queue
  (`drain`), writing a record (`write`) or leaving (`close`). `locker` says
  whether the thread holds the mutex; a critical section of another thread is one
  action. The control of the MDF 3 `SampleQueue::CleanQueue` and the MDF 4
  `Writer4SampleQueue::SaveQueue` is the same and so are their actions; they
  differ in `SavesPeriodically` (MDF 3 skips periodic flushes of several queues).
- `MdfWriter` - the client: its calls, cut at every store to an atomic, at every
  critical section, at the join and where the file is open, and the properties.
- `DataBlockLayout` - `MdfWriter` with the contents of the file: a sequence of
  cells, each a block or a record, which grows at its end. It adds to each step that
  writes what it writes and where: the DT block a first flush appends
  (`CreateOrGetDt4`), the records, the length of the DT block at the end of a flush,
  the blocks of new data groups, and what `FinalizeMeasurement` appends.
- `CompressedQueue` - the writer with compression. The client, the thread, the mutex
  and the file are those of `MdfWriter`; `CleanQueueCompressed` takes the place of
  writing record by record: a buffer that becomes a block when the next sample does
  not fit, the step that decides, without the mutex, whether the sample fills a block, the
  one that goes on or pushes the sample back, the DL block, `offset_` and `size_`.
  What `PopSample` reads after it has destroyed the record is any length from none to
  that of the record, for each record by itself. A sample of a VLSD group has one
  record id more in a block than in `size_`.
- `Recorder` - the abstract specification: each data group has a log and a buffer;
  a buffer forgets its oldest samples only before the record of its group has begun,
  from then on nothing is missing; samples are recorded one by one or several at
  once; a stopped recording is complete unless the medium failed. `MdfWriter` and
  `CompressedQueue` both implement it; when a record has begun is the one thing in
  which they differ.
- `MCMdfWriter`, `MCDataBlockLayout`, `MCCompressedQueue` - the three for TLC.
- `MdfWriterInvariants`, `LayoutInvariants`, `CompressedInvariants` - the inductive
  invariants, each for the property it supports.
- `MdfWriterProofs` - type correctness, the lemmas about the queue operations, and
  the theorems about the file, its counters and the stop, about the samples in the
  queues (their order, the pre-trigger window), and that the writer implements
  `Recorder`.
- `LayoutProofs` - the theorems about data blocks and what a reader finds in them.
- `CompressedProofs` - the same theorems as above about the writer with compression,
  and those about its blocks and sums.

The reader:

- `BlockStream` - the bytes of a list of DT and DZ blocks. The value of a byte is
  its place in the data of all blocks, so that a record was read correctly exactly
  if its bytes are the places of that record, and 0 stands for whatever the file has
  outside the blocks. `GetArray`, `SkipBytes` and opening a block map the state of
  a `ReadCache` (block, byte in the block, buffer, file position, byte counter) to
  the next one.
- `RecordStream` - the records and how `ReadCache` recognises them. `next` says
  what it reads next: a record `id`, the `length` of VLSD data or the `data`. An id or
  a length is known if the bytes read are those of an id or a length of a record;
  any other bytes are an arbitrary id or length; a data group whose ids have no bytes
  reads none. `Init` is every file within the
  bounds: every sequence of records, every cut into blocks, every choice of DT and DZ.
- `SampleReader` - `ReadData` and `ReadPartialData`, with `ParseRecord`,
  `ParseRangeRecord`, `DgRange` and `CgRange`: any set of channel groups has
  observers, any of which may say stop at any sample; a group may have fewer samples
  in its block than records in the file.
- `VlsdReader` - `ReadVlsdData`, with `ParseVlsdCgData`, `ParseSignalData` and
  `ParseSignalDataOffset`: the data of one VLSD channel, from a channel group or
  from signal data blocks, all of it or at the offsets of any subset of the
  channel's records.
- `MessageReader` - `SampleReader` with an observer that puts a record and its VLSD
  record together: `CanBusObserver`, with a callback or with its buffer, and
  `SampleRecordObserver`, with which a task copies samples. One observer reads the
  group once, or one range after the other as a client with little memory does.
- `FlatReader` - the abstract specification of a read: the caller is given what it
  wants in the order of the file and nothing else, until it says stop or has
  everything, and the read returns. `Wanted` in the two readers says what is wanted
  in terms of the records, without blocks, counters or positions.
- `MCSampleReader`, `MCVlsdReader`, `MCMessageReader` - the readers for TLC, with
  the data groups considered (`MCLayouts`).
- `DataInduction` - induction over numbers as a fact about sets of numbers, sums that
  are defined by recursion, and sequences put together from pieces.
- `RecordStreamProofs` - lemmas: where `GetArray` and `SkipBytes` end up, that a
  reader in step stays in step, and lists of chosen records.
- `ReaderProofs`, `VlsdReaderProofs` - the theorems about the two readers.
- `MessageProofs` - the theorems about messages.

Definitions with a comment that begins with "Fault" are variants of the definition
after them with a plausible mistake. Nothing uses them; they document, for each
property, a change of the code that the property detects.

### The calls of the writer's client

With `DocumentedOrder` the client calls in the order that the class comment of
`MdfWriter` gives, `CreateDataGroup`, `InitMeasurement`, `StartMeasurement`,
`StopMeasurement`, `FinalizeMeasurement` and from there again; without it, in any
order. It saves samples at any moment outside those calls, with times that do not
decrease (mdfwriter.h: "the internal queue, assume that the samples are added in
chronological order") and not later than the calls that follow. With
`ConcurrentSampling` a second thread saves also while `StartMeasurement` runs. The
time given to `StopMeasurement` is any time, since the code does not compare it
with the clock.

`InitMeasurement` and every flush may fail to open the file.

A data group has several channel groups (`ChannelGroups`), and `unused` holds those
whose `NofSamples()` is 0: a record that is written takes one of them out, or none.
The code looks at them in two places and asks two different questions.
`WriteCache::Init` gives a queue to a data group in which any channel group has no
samples (`Active`, writecache.cpp:46-72); `PrepareForWriting` counts the data groups
in which all have none, and starts over at each other one (`ActiveList`,
mdf4writer.cpp:66-85). A data group with samples and an empty channel group, as a bus
logger has it, therefore gets a queue again in the next measurement without being
counted.

With several groups in `ActiveList` and a periodic save, `PrepareForWriting` sets
`CompressData(true)` itself and goes on (mdf4writer.cpp:88-90). The uncompressed
models follow a writer up to there (`KeepsKindOfQueue` in the guard of `InitWrites`);
`CompressedQueue` is the writer from then on, and its `hasDt` is any set of data groups
that a flush before the switch has left with a DT block. Such a group can have no HL
block (`CleanFails`).

## What is checked

| Run | Question | Instance |
|---|---|---|
| `mdf4_append` | `TypeOK`; `FileExclusive`: the thread and `FinalizeMeasurement` are never in the file together; `ImplementsRecorder`: nothing between two recorded samples is missing and a stopped measurement is complete; `RecordsReachable`: outside a flush a reader finds every record of a group within the length of its DT block; `DataBlocksExact`: and nothing else, as long as no group got a queue in a second measurement; `FinishedGroupsStay`: no step changes what is found in a group whose channel groups all had samples when a measurement began | two data groups of two channel groups, 2 measurements, 3 samples, 2 clock times, symmetry |
| `pre_trigger` | `PreTrigKept`: whenever a measurement is running, every sample from the one before the pre-trigger time on is in the file, in the thread's hand or in the queue; `QueuesDrain`: in a periodic measurement a queue with samples is emptied, or the measurement ends | one group, 4 samples, times 2 to 5, pre-trigger 1, fairness |
| `mdf3_groups` | `HeaderCounts`: outside a flush the counters on disk are the numbers of records; `StopLosesNothing`: the queues are dropped only after a flush took all their samples, or could not open the file | two MDF 3 groups, 2 measurements, 2 samples, calls in any order |
| `concurrent_sampling` | `Fifo`: file, hand and queue hold samples in saved order, none twice; `QueueRelative`: after `StartMeasurement` visited a queue everything in it is relative; `StopReturns`: `StopMeasurement` returns | one group, 4 samples, second sampling thread, fairness |
| `compressed` | `CompressedTypeOK`; `CompressedFifo`; `OffsetsContiguous`: the DL offset of a block is the length of the blocks before it, over all flushes of a measurement; `BlocksBelowMax`: no block reaches the maximum unless by a single sample; `SizeCoversQueue`: `size_` never falls below the sum of `SampleSize()` over the queue; `HeaderCounts`; `CompressedPreTrigKept`; `CompressedStopLosesNothing`; `CompressedImplementsRecorder`; `LongQueuesSaved`: a queue as long as a block is saved, or the measurement ends | one data group of two channel groups, with a DT block or without, 2 measurements, 4 samples of three shapes, blocks below 6 bytes, fairness |
| `read_samples` | `TypeOK`; `InSync`: the reader is at a record and its sample counters are the numbers of records in front of it; `StopsBehindRange`: after a record a range is read on only while some observed group with samples up to the range has met no record behind it; `ImplementsFlat`: the observers get exactly the samples they want and the read returns | a data group with a fixed and a VLSD group in up to 2 blocks, and one with records of 3 bytes without ids in up to 3; 3 records; ranges in 0..2 |
| `read_vlsd` | `TypeOK`; `OffsetInSync`: the reader is at a record and `offset_` is the offset of the next data; `ImplementsFlat`: the callback gets exactly the data at the offsets asked for and the read returns | two VLSD groups among fixed records in up to 2 blocks, and signal data in up to 3; 3 records |
| `can_messages` | `MessagesPaired`: each message has the bytes of its own record and of its own VLSD record, in ascending order or at its own place in the buffer; `MessagesComplete`: after the read there is a message for every sample asked for that has all its records | 5 records of three groups in one block, ranges in 0..2, any sequence of ascending ranges |
| `start_window` | `RecordsRelative` is violated | one group, 2 samples |
| `stop_time` | `StopTimeRespected` is violated | one group, 2 samples |
| `layout_overlap` | `OwnDataOnly` is violated | as `mdf4_append`, samples stored at the stop only |
| `read_empty_block` | `ReadsAll` is violated | as `read_samples`, with empty blocks |

Bounds of the writer: `MaxSamples`, `MaxTime` and `MaxInits` bound samples saved,
clock and measurements. Trimming depends on the first two and the last samples of
a queue and on one comparison with a time, so 3 samples show every outcome and 4
let samples be trimmed, written and queued at once. Two measurements show what the
second finds of the first. `Word` is 16, far above every time used, so that a
subtraction wraps only when it is wrong. The pre-trigger time is at least 1 so
that samples inside, on and outside the window exist. `DataGroups` has two members
where queues can interact (the `for` statement, `SavesPeriodically`, `QueuesFor`,
the ends of the data blocks), one where a property is about a single queue.
Deadlock is not checked in the runs of the writer because the client may stop
calling and `wait_for` is then the only step until the bounds are reached; with
calls pending, progress is what `StopReturns` says.

In `mdf4_append` the pre-trigger time is 0 and there are two clock times; what is
trimmed is the matter of `pre_trigger`. Two channel groups let a data group be empty,
half empty and full between two measurements. No definition of the model tells one
data group or channel group from another, which is what `SYMMETRY` needs, and the run
has no liveness property.

Bounds of the compressed writer: a sample has a shape, which is the length of its
record, that of its VLSD data, and whether these go to a VLSD channel group or to
signal data. The code reckons with three lengths of one sample, and so does the model:
`SampleSize` (what `size_` adds, always with the 4 bytes of a VLSD length and never
with a record id), `MaxBytes` (what a block must have room for) and `Bytes` (what is
appended, two ids for a sample with a VLSD record). Records and ids are of one byte, so
that a sample adds 2, 5 or 2 bytes to a block and is reckoned with 2, 5 or 5; blocks
stay below 6, so that a sample fits, exactly does not fit, or does not fit by more,
and 4 samples fill two blocks and leave a part of a third. `QueueSize()` counts one id
a sample and is then above or below what a flush will append, so that a flush begins
that does not fill a block. `MCShapes` has three of the sequences of shapes; the
theorems are about all of them. The pre-trigger time is 0, so that two clock times are
enough to have samples before and after it.

Bounds of the reader: three records are one that is skipped, one that is read and
one that shows whether the reader is still in step. `LengthSize` is 2 instead of 4:
the least size that a block boundary can divide. VLSD data has 0 or 1 bytes, fixed
records 2 or 3, so that a record can begin, end and be divided at any byte and lie
in one, two or three blocks. `MaxMissing` lets a group have one record more than its
block says. For messages, 5 records are two pairs and a half, in the middle of
which the file may end; blocks do not matter there, and `read_samples` has them.
Blocks are not empty in the passing runs (`EmptyBlocks`);
`read_empty_block` shows why. Deadlock is checked: a read that returned stutters in
`Returned`, and until then a step is always possible.

Fairness of the reader: the loop of `MdfReader` runs on as long as the `Parse`
function returns true, and nothing else is waited for (weak fairness of `Next`).

Fairness of the writer: the scheduler runs the work thread and a client inside a
call, and `wait_for` ends after 10 s (weak fairness of `Work` and
`CallContinues`; `CompressedFairSpec` assumes the same of its own actions). Opening the file succeeds if it can succeed again and again
(strong fairness of `OpenFile`): an assumption about the file system that
`OpenMdfFile`, which retries for 6 s in each round, is written for. Nothing makes
the client call.

### Where the code and its documentation disagree

- `StartMeasurement` stores `write_state_` before `start_time_`
  (mdfwriter.cpp:280-286). If a round of the thread falls in between, it writes
  the queue to the file with absolute times; mdfwriter.h:217 promises relative
  ones. `start_window`.
- `StopMeasurement` stores `stop_time_` after the thread is gone
  (mdfwriter.cpp:322-324). The filter for samples after the stop time in
  `SaveQueue` and `CleanQueue` always sees 0. `stop_time`.
- `GetNextByte` opens the next block once and takes an empty one for the end of the
  data (readcache.cpp:395), although `SkipBytes` steps over such a block. All
  samples behind it are lost; mdfreader.h:198 promises all. The compressed writer
  produces an empty DZ block when the first sample of its last flush fills a block
  by itself. `read_empty_block`.
- `WriteCache::Init` gives a queue to every data group in which a channel group has no
  samples (writecache.cpp:41-74), also to one that took part in an earlier measurement
  and has its DT block in the file, be it empty or with the records of other channel
  groups. A flush appends its records at the end of the file and makes the DT block
  reach there (writer4samplequeue.cpp:110), over the blocks written in between, which a
  reader takes for records. dg4block.cpp:149-151 says that the DT block must be the
  last in the file. `layout_overlap`. `DataBlocksExact` says that data blocks are exact
  as long as no group gets a queue in a second measurement, and `FinishedGroupsStay`
  that a group whose channel groups all have samples is left alone; `RecordsReachable`
  holds also for a group that is neither.

More have no run because they are visible in the source.

- `FinalizeMeasurement` does not stop the thread, as mdfwriter.h:91 says it does; only
  `MdfConverter` does.
- The samples of a range count from 1 in `ReadPartialData` (readcache.cpp:140)
  while observers number them from 0; mdfreader.h:231 does not say which it means.
  The tests (testread.cpp:529 and 883) agree with the code, and so does the model.
- `ReadVlsdData` does not know the HL block (dg4block.cpp:473), behind which
  `Cn4Block` stores compressed signal data of more than 4 MB (cn4block.cpp:1271), and
  calls back for nothing; mdfreader.h:250 promises the data at the offsets.
- "Only save full 4MB DZ blocks" (writer4samplequeue.cpp:131) is not exact:
  `SampleSize` adds 4 bytes per sample to the size that is compared, whether or not it
  has VLSD data, and leaves out the second record id of one that has; and a flush that
  has begun also stores what does not fill a block.
- mdfwriter.h:82-85 says that compressed data is saved "at the 4MB size or a 10 minute
  max". No time is looked at: a shorter queue stays in memory until the stop.
- A compressed queue begins with `offset_` 0. A data group with samples and an empty
  channel group gets a new queue in the next measurement (writecache.cpp:46-72), and
  the offsets of its new DL blocks begin at 0 behind the blocks that are there.
  `OffsetsContiguous` is therefore about the blocks of one queue; the run `compressed`
  reaches the restart.
- When `PrepareForWriting` switches compression on itself (mdf4writer.cpp:88-90), a data
  group that an uncompressed flush has left with a DT block and an empty channel group
  gets a compressed queue, finds no HL block (writer4samplequeue.cpp:149-152), and loses
  its samples when the queue is dropped. `CleanFails`.
- A group whose last record is the last one of a range is not recognised as done: only
  a record behind the range ends the use of a group (readcache.cpp:156 and 187), and
  without one the file is read to its end. `StopsBehindRange` says what is guaranteed.
- A `CanBusObserver` with a callback does not set the type of the messages it makes
  (canbusobserver.cpp:134-159, against 170), looks for a channel "RO" (line 83) where
  `CanConfigAdapter` creates "R0", and stores the bit position in the frame duration
  (line 414). These are data of a message and not in the model.

### What a client has to know

`PreTrigKept`, the refinement and their proofs need a client that does not save
samples later than the start time while `StartMeasurement` runs: with
`ConcurrentSampling` they fail, since `TrimQueue` then measures the queue from such
a sample, with compression as without. The start time must exceed the pre-trigger
time (`ClockAssumption`), or the unsigned subtraction in `TrimQueue` wraps.

With compression, a flush that falls between the stores of `StartMeasurement` can
leave older samples in the file than the ones the queue keeps afterwards: there may
be a gap, but only before the pre-trigger time. That is why the record of a
compressed group begins with its first needed sample (`HoldsNeeded`). A sample that
is pushed back after such a flush keeps its absolute time. A sample that a block has
no room for even when it is empty (`MaxBytes`) fills a block of its own in the last
flush; a periodic flush pushes it back again and again, and appends a DL block without
data each time. `LongQueuesSaved` therefore needs an instance in which every sample
fits into a block, and speaks of data groups that can have an HL block.

`PopSample` asks a record for its size that `pop_front` has destroyed
(samplequeue.cpp:46-50). Each pop may find either vector as it was, empty, or in
between; `Trims` subtracts any number from the VLSD lengths alone to the whole, for
each trim anew. That a destroyed vector never reads longer than it was is an
assumption on the build: if it did, `size_` could wrap, and nothing in the source
says it cannot.

## What is proved

The theorems hold for every set of data groups, every number of samples and
measurements, every width of the clock word, every pre-trigger time, all record
lengths and block sizes, and, for the readers, for files of any length, every cut
into blocks and every choice of groups, ranges and offsets. They assume what the
modules assume of their constants, in particular that the start time exceeds the
pre-trigger time. Where a client must keep to the documented order of the calls, or
must not save while `StartMeasurement` runs, or a file must have no empty blocks, the
theorem says so in its `ASSUME` and the tables in their first column.

The writer:

| Theorem | States | Inductive invariant |
|---|---|---|
| `TypeCorrect` | `[]TypeOK` | itself |
| `FileIsExclusive`, with `DocumentedOrder` | `[]FileExclusive` | `FileInv`: the thread is in the file exactly in `lock`, `drain`, `write` and `close`, the client exactly in `finalizeWrite`, and there is no thread in the states `Create`, `StopMeas` and `Finalize` |
| `HeadersCount` | `[]HeaderCounts` | `CountInv`: `nof` is exact, and only the queue being stored may be ahead of its header |
| `StopKeepsSamples` | `StopLosesNothing` | `FlushInv`: in its last block the thread has flushed what it has visited, its loop cannot end in any other way, and while it runs no sample is saved |
| `QueueIsRelative`, with `DocumentedOrder` | `[]QueueRelative` | `RelativeInv`: no queue knows its master channels before the start time is stored |
| `FifoKept` | `[]Fifo` | `OrderInv`: file, hand and queue are each in order, one before the other, and no number exceeds `saved` |
| `PreTriggerKept`, with `DocumentedOrder` and without `ConcurrentSampling` | `[]PreTrigKept` | `StartInv` and `KeptInv`: no sample is later than the clock, and every accepted sample is in the file, in the hand or in the queue or is followed by one before the window; with `FlushInv` |
| `RecorderImplemented`, likewise | `ImplementsRecorder` | `SettledInv`: when the file holds a sample of this measurement (`Begun`), nothing in the queue can be trimmed any more; with `FileInv`, `CountInv`, `OrderInv`, `FlushInv` and `StartInv` |
| `LayoutIsWriter` | `LayoutSpec => Spec` | none |
| `FinishedStay` | `FinishedGroupsStay` | `StayInv`: data blocks lie inside the file and a finished group has no channel group without samples and hence no queue; with `CountInv` and `FlushInv` |
| `DataBlocksAreExact`, with `DocumentedOrder` | `[]DataBlocksExact` | `WrittenInv`: the groups in the file are the first ones created, and only they get DT blocks; `LastInv`: the records follow their DT block, which is the last of the file whenever the thread can visit its queue |
| `RecordsAreReachable` | `[]RecordsReachable` | `ReachInv`: the records of a group are in the file, in order, at ascending places behind its DT block, and those in front of the thread's flush within the length of the block |

The writer with compression:

| Theorem | States | Inductive invariant |
|---|---|---|
| `CompressedTypeCorrect` | `[]CompressedTypeOK` | `SamplesInv` and `SizeInv` |
| `OffsetsAddUp` | `[]OffsetsContiguous` | `BlockInv`: `offset_` is the end of the blocks that this queue has made of the group, those in the DL block that is being built included |
| `BlocksStayBelowMax` | `[]BlocksBelowMax` | `BlockInv`: the buffer is shorter than the maximum or holds one sample, since no sample appends more than was checked for |
| `CompressedFifoKept` | `[]CompressedFifo` | `WholeInv`: `OrderInv`, `CountInv` and `FlushInv` of the other writer, for a file that has in it what a flush has collected (`WholeFile`); with `BlocksInv` and `FinalizeInv`, together `SamplesInv` |
| `CompressedHeadersCount` | `[]HeaderCounts` | `SamplesInv`: `nof` counts the samples of `WholeFile`, and outside a flush that is the file |
| `CompressedStopKeepsSamples` | `CompressedStopLosesNothing` | `SamplesInv`; `FinalizeInv`: the last flush never decides to push a sample back |
| `CompressedPreTriggerKept`, with `DocumentedOrder` and without `ConcurrentSampling` | `[]CompressedPreTrigKept` | `KeptInv` and `StartInv` for `WholeFile`; with `SamplesInv` |
| `CompressedRecorderImplemented`, likewise | `CompressedImplementsRecorder` | `RecorderInv`: `StartInv` and `FileInv` for `WholeFile`; `TimeInv`: what was saved later has no earlier time, over the file, the hand and the queue of a group and over all measurements; `IdleInv`: a queue outside the cache is empty; with `SamplesInv` |
| `SizeIsEnough` | `[]SizeCoversQueue` | `SizeInv`: `size_` is at least the sum over the queue, and no trim subtracts more than the samples it pops |

The readers:

| Theorem | States | Inductive invariant |
|---|---|---|
| `ReaderInSync` | `[]InSync` | `SyncInv`: the reader is located at a record, in which `next`, `group` and `length` say where, has not counted more bytes than it passed, and its counters are those of the records in front; or, without record ids, it is behind the last record for good |
| `ReaderTypeCorrect` | `[]TypeOK` | `SyncInv`: what is counted is bounded by where the reader is |
| `ReadsNoFurther` | `[]StopsBehindRange` | `RangeInv`: the groups that are used have met no record behind the range (`UsedMetNone`), and between two records some group is used |
| `FlatReaderImplemented`, without empty blocks and with bytes in records | `ImplementsFlat`, provided the read returns | `GivenInv`: what was given is the first part of what is wanted, up to the record the reader is at; `LeftInv`: a group that is not used any more has nothing else in the range; with `SyncInv` and `RangeInv` |
| `VlsdOffsetInSync` | `[]OffsetInSync` | `OffsetInv`: the reader is located at a record, `offset_` is the offset of the next data, the offsets that are left lie ahead, and a reader that skips nothing counts every byte |
| `VlsdTypeCorrect` | `[]TypeOK` | `OffsetInv` |
| `VlsdFlatImplemented`, likewise and without an HL block | `ImplementsFlat`, provided the read returns | `GivenInv`: as above, and the loop over the filter has come to every offset that was passed |
| `MessagesArePaired` | `[]MessagesPaired` | `MInv`: of the samples of this range exactly those have a message that were read of every observed group; none is ahead of the current sample; while a message waits for its other record, the part it has is in `last_sample_`; with `SyncInv`, `RangeInv` and `LeftInv` |
| `MessagesAreComplete`, without empty blocks and with bytes in records | `[]MessagesComplete` | `CInv`: `MInv`; the ranges before this one are done; a read that returned has read every sample of its range, also if one of the two groups went beyond it |

Only the type invariants and few others are inductive as they stand. `HeaderCounts`
speaks of states without a thread in the file, and its proof needs what holds while
one is there; `StopLosesNothing` speaks of the step that joins the thread and needs to
know everything the thread did since it was asked to stop. `FileExclusive` and
`QueueRelative` are false for a client in any order: `StartMeasurement` twice gives
a queue a second start time, and `FinalizeMeasurement` without a stop meets the
thread in the file.

The proofs about the queues rest on lemmas about the queue operations: `TrimIsTail`
(trimming leaves a tail), `RecalculateKeeps` (only the base changes), `WorkShortens`
(the thread only removes at the front), `SaveAppends` (a client only appends), and
lemmas about sequences in order. For the pre-trigger window `PoppedMayGo` and
`TrimKeepsWindow` say which samples trimming may take: a sample goes only if the
next one is before the window, with the start time known or not.

`LayoutIsWriter` lifts every theorem about `MdfWriter` to `DataBlockLayout`, which
is how the layout proofs use `FileInv`, `CountInv` and `FlushInv`. The argument for
`DataBlocksExact` is that two DT blocks never grow in turn. With periodic saves
there is one queue; without them each queue is visited once, when its DT block is
written, and the file ends with its records. One queue is what `PrepareForWriting`
counts (`OneActive`), provided that the groups which are not written are the last
ones, and that no group in the file gets a queue again (`reused = {}`), because it or
a channel group of it has stayed empty. Without that premise it is false, as the run
`layout_overlap` shows.

For the blocks of a compressed group the argument is `AppendBlock`: blocks that are
contiguous stay so when one is appended with the end of the last as its offset. That
`offset_` is that end must hold across flushes and purged empty blocks. It does not
hold across measurements: a queue begins at 0, also for a group that has blocks
because only one of its channel groups is empty, and `before` is the number of the
blocks of earlier queues, from which the sums are not continued. A flush that is over has put its buffer into a block and its blocks into
the file (`WholeFile`); between flushes the compressed writer is in a state of the
uncompressed one, and the lemmas about queues and clients are used again.

As a recorder the compressed writer differs in what may still be trimmed. A full block
leaves samples in a queue that an uncompressed flush would have stored, so that a
group with records may still trim, and `SettledInv` does not hold. Its record
begins with the first sample the measurement needs (`HoldsNeeded`). What is in
the queue then was saved later (`OrderInv`) and hence is not earlier (`TimeInv`,
`LaterInQueue`): it is inside the window too, and `NothingTrimmed` follows. Taking a
sample, appending it, purging a full block and pushing a sample back are stutters
(`MovesStutter`), and `StoreBlocks` records at once everything that was collected
(`StoreRecords`).

Where a reader is in a file is a sum of lengths, and what is in a compressed flush is
a concatenation. Induction over data would be needed for what a recursive function
computes for every input; `DataInduction` does without a rule with a parameter: a set
that holds 0 and with every number the next one holds all numbers (`SetInduction`),
and the set is given by name in each use. From that follow the values, the
monotonicity and the uniqueness of sums (`SumValues`, `SumMonotone`, `SumSame`), which
give the ends of blocks (`EndsValues`), the beginnings of records (`StartsValues`) and
the offsets of data (`OffsetValues`). `GetArrayReads` and `SkipBytesMoves` then say
that n bytes further on the list of blocks is n bytes further in the data, whatever
blocks are opened in between, compressed or not. A record that begins at its place is
therefore recognised by its own bytes, and its successor begins where it ends.

That a reader in step delivers what it should is an argument about the chosen records:
`Ascending` lists them, `ListAdds` says that the number of chosen records in front of
one is its place in the list. Where a read ends, nothing is left: `NoMoreRecords` (no
data is left only behind the last record, because a record has bytes and the reader
never counts more than it passed), `RecordComplete` (nothing throws at a record),
`ReadyComplete` (no group can have another sample in the range), `FilterComplete` (no
data behind the last offset is asked for). `RecordComplete` needs files without empty
blocks, and `read_empty_block` shows that it is false with them. The premise
`BytesInRecords` says that a record without an id is not empty: a group without bytes
would have records that no reader can count. In `FlatReaderImplemented` and
`VlsdFlatImplemented` only that the read returns is a premise; it is liveness, which
TLC checks.

A message is paired because of what the file promises: of a group and its VLSD group
neither is ever ahead by more than one record (`Balanced`). A record that comes in
is hence never behind the current sample (`NotBehind`), and one beyond the range comes
only when all samples of its group in the range were read (`OverrunIsLate`). `NthIs`
says that a group and a number determine a record, so that the bytes that two
records with one number hold are those of one message.

Each invariant was checked with TLC before it was proved.

Only model-checked are

- liveness (`QueuesDrain`, `StopReturns`, `LongQueuesSaved`), which is out of the
  prover's reach, and with it that a read returns in `ImplementsFlat`;
- the four disagreements, which are single behaviours.

## What is not modelled

Of the writer: signal data of SD storage, and whether a compressed block is
written as DT or DZ; the blocks between the data blocks, which take space and have no
content; the step from the uncompressed writer to the compressed one, of which only the
result is modelled (`hasDt`): an uncompressed measurement, the switch and a compressed
one are not one behaviour of the model. VLSD channel groups are part of the sample
that they belong to and no channel groups of their own in `ChannelGroups`. `Init` on an existing file is a writer whose first data
groups hold samples, a state the model reaches with a second measurement. The early
returns of `SaveQueue` that leave the mutex unlocked need blocks that
`InitMeasurement` never leaves behind.

The difference in `TrimQueue` of a start time and a pre-trigger time that exceeds it
wraps; `ClockAssumption` excludes it, since times count from 1970.

The converter runs the same thread over a file that it keeps open, with queues
that are not trimmed: it leaves out steps of `WriteCache` and `CompressedQueue` and
adds none that touches shared state.

Finalizing on read repairs files that are marked unfinalized. The writer never sets
those flags, so a crash of the writer leaves a file that nothing of the library
recognises as such: there is no recovery of which a property could be stated.

Of the reader: damaged and truncated files, in which the blocks are not
where the links say or the file ends inside a block; failing reads; SR and sample
reduction blocks; how the list of blocks is collected; MDF 3 files, which have a
loop of their own; the observers of single channels, which copy a value per record.

The tasks are fixed sequences of calls around a temporary file in one thread. The
other components are layouts of blocks, channels, conversions, messages, metadata,
utilities, bindings and applications: reading, writing and converting data without
control, where a test with the data at hand says more than a small instance could.
They are by far the largest part of the repository by lines, together with the
tests, the viewer and vendored code. `PROJECT.json` gives the reason for each.

## What is left

1. A damaged file in `BlockStream`: blocks that end early, as after a crash.
2. MDF 3 reading, and the list of blocks behind a data link with its HL and DL blocks.
3. The switch to compression as a step, with the data blocks of both kinds in one file.

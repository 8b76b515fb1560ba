----------------------------- MODULE MdfWriter -----------------------------
(***************************************************************************)
(* MdfWriter: the life of a measurement.  A client configures data groups, *)
(* calls InitMeasurement, StartMeasurement, StopMeasurement and            *)
(* FinalizeMeasurement, and saves samples in between, while the work       *)
(* thread of WriteCache stores the queues.                                 *)
(*                                                                         *)
(* Each call is cut where another thread can see the difference: at every  *)
(* store to an atomic, at every critical section, where it waits for the   *)
(* work thread, and where it opens the file while that thread may live.    *)
(***************************************************************************)
EXTENDS WriteCache

CONSTANTS
  FirstTime,           \* the clock of the client when it begins
  MaxTime, MaxSamples, MaxInits,  \* bounds on the client
  ConcurrentSampling,  \* a second thread saves samples during StartMeasurement
  DocumentedOrder,     \* the client calls in the order the class documents
  CompressData         \* CompressData(), set before the first measurement

\* The clock counts nanoseconds since 1970: no pre-trigger time reaches that far
ASSUME ClockAssumption == FirstTime \in PreTrig + 1 .. Word - 1

ASSUME BoundsAssumption ==
  /\ MaxTime \in FirstTime .. Word - 1
  /\ MaxSamples \in Nat
  /\ MaxInits \in Nat

ASSUME ClientAssumption ==
  /\ ConcurrentSampling \in BOOLEAN
  /\ DocumentedOrder \in BOOLEAN
  /\ CompressData \in BOOLEAN

VARIABLES
  call,      \* where the client thread is; "idle" between its calls
  argument,  \* the time given to StartMeasurement or StopMeasurement
  remaining, \* queues StartMeasurement has not made relative yet
  created,   \* the data groups of the file in the order they were created
  now,       \* the client's clock: samples and calls come in this order
  saved,     \* samples saved so far
  inits,     \* measurements initiated so far
  accepted   \* history: the samples put into each queue of this measurement

clientVars == <<call, argument, remaining, created, now, saved, inits, accepted>>
vars == <<cacheVars, clientVars>>

ClientPcs == {"idle", "initExit", "initOpen", "startTime", "startRecalculate",
              "stopExit", "finalizeWrite"}

Clock == now .. MaxTime

TypeOK ==
  /\ write_state \in WriteStates
  /\ start_time \in Times /\ stop_time \in Times /\ stopAt \in Times
  /\ stop_thread \in BOOLEAN /\ locker \in BOOLEAN /\ final \in BOOLEAN
  /\ cache \subseteq DataGroups /\ masters \subseteq DataGroups
  /\ todo \subseteq DataGroups /\ unflushed \subseteq DataGroups
  /\ queue \in [DataGroups -> Seq(Samples)]
  /\ file \in [DataGroups -> Seq(Samples)]
  /\ accepted \in [DataGroups -> Seq(Samples)]
  /\ pc \in WorkerPcs
  /\ current \in DataGroups
  /\ hand \in Seq(Samples)
  /\ users \subseteq {"worker", "client"}
  /\ nof \in [DataGroups -> Nat] /\ header \in [DataGroups -> Nat]
  /\ unused \in [DataGroups -> SUBSET ChannelGroups]
  /\ call \in ClientPcs
  /\ argument \in Times /\ now \in Times
  /\ remaining \subseteq DataGroups /\ created \in Seq(DataGroups)
  /\ saved \in Nat /\ inits \in Nat

-----------------------------------------------------------------------------
Init ==
  /\ write_state = "Create"
  /\ start_time = 0 /\ stop_time = 0 /\ stopAt = 0
  /\ stop_thread = FALSE /\ locker = FALSE /\ final = FALSE
  /\ cache = {} /\ masters = {} /\ todo = {} /\ unflushed = {}
  /\ queue = [d \in DataGroups |-> <<>>]
  /\ file = [d \in DataGroups |-> <<>>]
  /\ accepted = [d \in DataGroups |-> <<>>]
  /\ pc = "none"
  /\ current \in DataGroups
  /\ hand = <<>>
  /\ users = {}
  /\ nof = [d \in DataGroups |-> 0] /\ header = [d \in DataGroups |-> 0]
  /\ unused = [d \in DataGroups |-> ChannelGroups]
  /\ call = "idle"
  /\ argument = 0 /\ now = FirstTime
  /\ remaining = {} /\ created = <<>>
  /\ saved = 0 /\ inits = 0

\* The client is free and, if it keeps to the documentation, in that state
MayCall(states) == call = "idle" /\ (DocumentedOrder => write_state \in states)

-----------------------------------------------------------------------------
(* Configuration: a new data group for the next measurement *)

Configured == {created[i] : i \in DOMAIN created}

CreateDataGroup(d) ==
  /\ MayCall({"Create", "Finalize"})
  /\ d \notin Configured
  /\ created' = Append(created, d)
  /\ UNCHANGED <<cacheVars, call, argument, remaining, now, saved, inits, accepted>>

-----------------------------------------------------------------------------
(* ExitWriteCache: ask the thread to stop, join it, drop the queues *)

\* Fault: the thread is joined but never told
LeaveThreadRunning == UNCHANGED stop_thread

AskThreadToStop == stop_thread' = TRUE

\* Fault: the thread is not waited for
ThreadLeft ==
  /\ stop_thread' = FALSE
  /\ cache' = {}
  /\ masters' = {}
  /\ queue' = [d \in DataGroups |-> <<>>]

ThreadJoined ==
  /\ pc = "none"
  /\ stop_thread' = FALSE
  /\ cache' = {}
  /\ masters' = {}
  /\ queue' = [d \in DataGroups |-> <<>>]

-----------------------------------------------------------------------------
InitMeasurement ==
  /\ MayCall({"Create", "Finalize"})
  /\ inits < MaxInits
  /\ inits' = inits + 1
  /\ AskThreadToStop
  /\ call' = "initExit"
  /\ UNCHANGED <<writerVars, queueVars, threadVars, fileVars, argument,
                 remaining, created, now, saved, accepted>>

InitExit ==
  /\ call = "initExit"
  /\ ThreadJoined
  /\ call' = "initOpen"
  /\ UNCHANGED <<writerVars, threadVars, fileVars, argument, remaining, created,
                 now, saved, inits, accepted>>

\* The file cannot be opened: return false
InitFails ==
  /\ call = "initOpen"
  /\ call' = "idle"
  /\ UNCHANGED <<cacheVars, argument, remaining, created, now, saved, inits,
                 accepted>>

\* Fault: the groups of earlier measurements get a queue again
EveryGroup == Configured

\* The data groups WriteCache::Init gives a queue: those with any channel group
\* without samples
Active == {d \in Configured : unused[d] # {}}

\* The active_list of Mdf4Writer::PrepareForWriting: it starts over at every
\* data group that holds samples in any channel group
ActiveList ==
  {created[i] : i \in {j \in DOMAIN created :
                  \A k \in j .. Len(created) : unused[created[k]] = ChannelGroups}}

\* Fault: several queues append to their data blocks in turn
NeverCompresses == TRUE

\* With several active data groups and a periodic save PrepareForWriting sets
\* CompressData(true) itself.  A writer that began uncompressed is followed up to
\* there; CompressedQueue is the writer from then on.
KeepsKindOfQueue ==
  WriterType = "Mdf4Basic" /\ SavePeriodic /\ Cardinality(ActiveList) > 1
    => CompressData

\* The configuration is written, the atomics reset, the queues and the thread
\* created
InitWrites ==
  /\ call = "initOpen"
  /\ KeepsKindOfQueue
  /\ header' = nof
  /\ write_state' = "Init"
  /\ start_time' = 0
  /\ stop_time' = 0
  /\ cache' = Active
  /\ accepted' = [d \in DataGroups |-> <<>>]
  /\ unflushed' = {}
  /\ pc' = "wait"
  /\ call' = "idle"
  /\ UNCHANGED <<stop_thread, queue, masters, locker, final, todo, current, hand,
                 stopAt, users, file, nof, unused, argument, remaining, created,
                 now, saved, inits>>

-----------------------------------------------------------------------------
\* write_state_ is stored before start_time_
StartMeasurement(t) ==
  /\ MayCall({"Init"})
  /\ argument' = t
  /\ now' = t
  /\ write_state' = "StartMeas"
  /\ call' = "startTime"
  /\ UNCHANGED <<start_time, stop_time, stop_thread, queueVars, threadVars,
                 fileVars, remaining, created, saved, inits, accepted>>

StartSetsTime ==
  /\ call = "startTime"
  /\ start_time' = argument
  /\ stop_time' = 0
  /\ remaining' = cache
  /\ call' = "startRecalculate"
  /\ UNCHANGED <<write_state, stop_thread, queueVars, threadVars, fileVars,
                 argument, created, now, saved, inits, accepted>>

\* WriteCache::RecalculateTimeMaster locks and releases for each queue
StartRecalculates(d) ==
  /\ call = "startRecalculate"
  /\ d \in remaining
  /\ ~locker
  /\ masters' = masters \union {d}
  /\ queue' = [queue EXCEPT ![d] = RecalculateTimeMaster(@, start_time)]
  /\ remaining' = remaining \ {d}
  /\ UNCHANGED <<writerVars, stop_thread, cache, threadVars, fileVars, call,
                 argument, created, now, saved, inits, accepted>>

StartReturns ==
  /\ call = "startRecalculate"
  /\ remaining = {}
  /\ call' = "idle"
  /\ UNCHANGED <<cacheVars, argument, remaining, created, now, saved, inits,
                 accepted>>

-----------------------------------------------------------------------------
\* The stop time may be any time; the flush does not depend on the clock
StopMeasurement(t) ==
  /\ MayCall({"StartMeas"})
  /\ argument' = t
  /\ AskThreadToStop
  /\ call' = "stopExit"
  /\ UNCHANGED <<writerVars, queueVars, threadVars, fileVars, remaining, created,
                 now, saved, inits, accepted>>

\* write_state_ and stop_time_ are stored when the thread is gone
StopExit ==
  /\ call = "stopExit"
  /\ ThreadJoined
  /\ write_state' = "StopMeas"
  /\ stop_time' = argument
  /\ call' = "idle"
  /\ UNCHANGED <<start_time, threadVars, fileVars, argument, remaining, created,
                 now, saved, inits, accepted>>

-----------------------------------------------------------------------------
\* FinalizeMeasurement opens the file; failing to, it returns false and has
\* changed nothing
FinalizeMeasurement ==
  /\ MayCall({"StopMeas"})
  /\ users' = users \union {"client"}
  /\ call' = "finalizeWrite"
  /\ UNCHANGED <<writerVars, stop_thread, queueVars, threadVars, file, nof,
                 unused, header, unflushed, argument, remaining, created, now,
                 saved, inits, accepted>>

FinalizeWrites ==
  /\ call = "finalizeWrite"
  /\ header' = nof
  /\ users' = users \ {"client"}
  /\ write_state' = "Finalize"
  /\ call' = "idle"
  /\ UNCHANGED <<start_time, stop_time, stop_thread, queueVars, threadVars, file,
                 nof, unused, unflushed, argument, remaining, created, now, saved,
                 inits, accepted>>

-----------------------------------------------------------------------------
\* The two GetSampleQueue functions, as the sets of queues they can return: by
\* data group, and by channel group, where a single queue serves every group
QueuesFor(d) ==
  {cache \intersect {d}, IF Cardinality(cache) = 1 THEN cache ELSE cache \intersect {d}}

\* AddSample and the Save functions: without a queue the sample is dropped
SaveSample(d, t) ==
  /\ \/ call = "idle"
     \/ ConcurrentSampling /\ call \in {"startTime", "startRecalculate"}
  /\ ~locker
  /\ d \in Configured
  /\ saved < MaxSamples
  /\ saved' = saved + 1
  /\ now' = t
  /\ \E queues \in QueuesFor(d) :
     LET s(q) == RecalculateTime([n |-> saved + 1, ts |-> t, base |-> 0],
                                 q \in masters, start_time)
         Put(f) == [q \in DataGroups |->
                      IF q \in queues THEN AddSample(f[q], s(q)) ELSE f[q]]
     IN  queue' = Put(queue) /\ accepted' = Put(accepted)
  /\ UNCHANGED <<writerVars, stop_thread, cache, masters, threadVars, fileVars,
                 call, argument, remaining, created, inits>>

-----------------------------------------------------------------------------
\* The steps of a call the client has begun
CallContinues ==
  \/ InitExit \/ InitWrites \/ InitFails
  \/ StartSetsTime \/ StartReturns
  \/ \E d \in DataGroups : StartRecalculates(d)
  \/ StopExit
  \/ FinalizeWrites

Client ==
  \/ InitMeasurement \/ FinalizeMeasurement \/ CallContinues
  \/ \E t \in Clock : StartMeasurement(t)
  \/ \E t \in FirstTime .. MaxTime : StopMeasurement(t)
  \/ \E d \in DataGroups : CreateDataGroup(d)
  \/ \E d \in DataGroups, t \in Clock : SaveSample(d, t)

\* A step of the work thread leaves the client where it is
Work == WorkThread /\ UNCHANGED clientVars

Next == Client \/ Work

Spec == Init /\ [][Next]_vars

(***************************************************************************)
(* The scheduler runs the work thread and a client inside a call; wait_for *)
(* returns after at most 10 s.  Nothing makes the client call.  That an    *)
(* Open() which can succeed again and again succeeds once is an assumption *)
(* on the file system: OpenMdfFile retries for 6 s and the next round      *)
(* tries again.                                                            *)
(***************************************************************************)
Fairness ==
  /\ WF_vars(Work)
  /\ SF_vars(OpenFile /\ UNCHANGED clientVars)
  /\ WF_vars(CallContinues)

FairSpec == Spec /\ Fairness

-----------------------------------------------------------------------------
(* Safety *)

\* A sequence of samples in the order they were saved, none of them twice
InOrder(seq) == \A i, j \in 1 .. Len(seq) : i < j => seq[i].n < seq[j].n

\* The file, the sample being written and the queue together hold the samples
\* in the order they were saved and never hold one twice, whatever the worker,
\* StartMeasurement and the sampling thread do to the queue meanwhile.
Fifo == \A d \in DataGroups : InOrder(Recorded(d))

\* file_ is one stream buffer without a lock of its own: the worker and
\* FinalizeMeasurement are never inside their Open/Close at the same time.
FileExclusive == users # {"worker", "client"}

Numbers(seq) == [i \in DOMAIN seq |-> seq[i].n]

\* From the sample before the pre-trigger time on, every sample saved in a
\* started measurement is in the queue, in the worker's hand or in the file:
\* TrimQueue, with the start time unset, late or stale, pops none of them.
PreTrigKept ==
  write_state = "StartMeas" =>
    \A d \in cache : \A i \in DOMAIN accepted[d] :
      \/ \E j \in DOMAIN Recorded(d) : Recorded(d)[j].n = accepted[d][i].n
      \/ /\ i < Len(accepted[d])
         /\ accepted[d][i + 1].ts <
              (IF call = "startTime" THEN argument ELSE start_time) - PreTrig

\* Outside a flush the sample counters on disk are the numbers of records
\* stored there, also while more samples are being saved.
HeaderCounts ==
  users = {} => \A d \in DataGroups : header[d] = Len(file[d])

\* Once StartMeasurement has visited a queue, its samples are relative to the
\* start time, those saved before and those saved concurrently.
QueueRelative ==
  \A d \in masters : \A i \in DOMAIN queue[d] : queue[d][i].base = start_time

\* StopMeasurement drops the queues only when the work thread has stored
\* their samples, unless the file could not be opened for its last flush.
StopLosesNothing ==
  [][\A d \in cache : d \notin cache' => Pending(d) = <<>> \/ d \in unflushed]_vars

\* The file holds a sample of this measurement
Begun(d) ==
  \E i \in DOMAIN file[d], j \in DOMAIN accepted[d] : file[d][i].n = accepted[d][j].n

\* The writer implements a recorder: nothing saved between two samples of a data
\* group that one measurement recorded is missing, and a stopped measurement is
\* complete.
Implements == INSTANCE Recorder WITH
  Groups <- DataGroups,
  log    <- [d \in DataGroups |-> Numbers(file[d])],
  buffer <- [d \in DataGroups |-> Numbers(Pending(d))],
  last   <- saved,
  begun  <- {d \in DataGroups : Begun(d)},
  failed <- unflushed

ImplementsRecorder == Implements!RecorderSpec

-----------------------------------------------------------------------------
(* Liveness *)

\* StopMeasurement returns: it joins a thread that may be anywhere in a round
StopReturns == call = "stopExit" ~> call = "idle"

\* While a periodic measurement runs, a saved sample leaves the queue for the
\* file within finitely many rounds, by the worker or by the last flush.
Drained(d) ==
  (d \in cache /\ write_state = "StartMeas" /\ Pending(d) # <<>>)
    ~> (Pending(d) = <<>> \/ write_state # "StartMeas")
QueuesDrain == \A d \in DataGroups : Drained(d)

-----------------------------------------------------------------------------
(* What the documentation and the comments say of the program *)

\* mdfwriter.h: the time of a sample is converted to a time relative to the
\* start of the measurement before it is stored onto the disc.
RecordsRelative ==
  \A d \in DataGroups : \A i \in DOMAIN file[d] : file[d][i].base # 0

\* samplequeue.cpp and writer4samplequeue.cpp skip a sample taken after the
\* stop time: a stopped measurement holds none.
StopTimeRespected ==
  write_state = "StopMeas" =>
    \A d \in DataGroups : \A i \in DOMAIN file[d] : ~IsAfterStop(file[d][i], stop_time)
=============================================================================

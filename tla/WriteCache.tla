----------------------------- MODULE WriteCache -----------------------------
(***************************************************************************)
(* WriteCache: the sample queues of a measurement and the work thread that *)
(* moves their samples to the file, for the queues that write uncompressed *)
(* data blocks (SampleQueue for MDF 3, Writer4SampleQueue for MDF 4).      *)
(*                                                                         *)
(* The work thread holds locker_ while it looks at the queues and gives it *)
(* up around every file operation.  A critical section of another thread   *)
(* is one action, so locker says whether the work thread owns the mutex.   *)
(* write_state_, start_time_, stop_time_ and stop_thread_ are atomics that *)
(* other threads change without the mutex.                                 *)
(***************************************************************************)
EXTENDS SampleQueue

CONSTANTS
  DataGroups,    \* the data groups of the file
  ChannelGroups, \* the channel groups of a data group, by their record id,
                 \* but for the VLSD groups that hold the data of others
  WriterType,    \* TypeOfWriter()
  SavePeriodic   \* IsSavePeriodic()

ASSUME WriterTypeAssumption   == WriterType \in {"Mdf3Basic", "Mdf4Basic"}
ASSUME SavePeriodicAssumption == SavePeriodic \in BOOLEAN
ASSUME DataGroupsAssumption   == IsFiniteSet(DataGroups)
ASSUME ChannelGroupsAssumption == ChannelGroups # {}

VARIABLES
  write_state, start_time, stop_time,   \* the atomics of MdfWriter
  stop_thread,  \* stop_thread_
  cache,        \* the data groups that have a queue in cache_
  queue,        \* queue_ of each data group
  masters,      \* the queues whose master_channels_ have been filled in
  locker,       \* does the work thread own locker_?
  pc,           \* where the work thread is; "none" when there is no thread
  final,        \* it runs the block after its loop
  todo,         \* the queues its for statement has not visited yet
  current,      \* the queue it saves
  hand,         \* the sample it took from that queue: a sequence of 0 or 1
  stopAt,       \* its copy of stop_time_
  users,        \* the threads between their Open() and Close() of file_
  file,         \* the records in the data block of each data group
  nof,          \* the samples counted in the channel groups of a data group
  unused,       \* the channel groups whose NofSamples() is 0
  header,       \* nof as the channel group blocks on disk have it
  unflushed     \* history: queues whose last flush could not open the file

writerVars == <<write_state, start_time, stop_time>>
queueVars  == <<cache, queue, masters>>
threadVars == <<locker, pc, final, todo, current, hand, stopAt>>
fileVars   == <<users, file, nof, unused, header, unflushed>>
cacheVars  == <<writerVars, stop_thread, queueVars, threadVars, fileVars>>

WriteStates == {"Create", "Init", "StartMeas", "StopMeas", "Finalize"}
WorkerPcs   == {"none", "wait", "clean", "round", "open", "lock", "drain",
                "write", "close"}

Hand(d)    == IF d = current THEN hand ELSE <<>>
Pending(d) == Hand(d) \o queue[d]
Recorded(d) == file[d] \o Pending(d)

-----------------------------------------------------------------------------
(* The thread *)

\* wait_for() returns when its 10 s have passed or the thread shall stop; a
\* notification alone never ends it, its predicate only reads stop_thread_.
Wake ==
  /\ pc = "wait"
  /\ ~locker
  /\ IF stop_thread
     THEN pc' = "clean" /\ UNCHANGED <<locker, todo>>
     ELSE pc' = "round" /\ locker' = TRUE /\ todo' = cache
  /\ UNCHANGED <<writerVars, stop_thread, queueVars, final, current, hand,
                 stopAt, fileVars>>

\* The block after the loop: lock again and clean every queue
CleanAll ==
  /\ pc = "clean"
  /\ ~locker
  /\ pc' = "round"
  /\ locker' = TRUE
  /\ final' = TRUE
  /\ todo' = cache
  /\ UNCHANGED <<writerVars, stop_thread, queueVars, current, hand, stopAt,
                 fileVars>>

\* Fault: the thread ends without the block after its loop
EndRoundAtOnce ==
  /\ pc = "round"
  /\ todo = {}
  /\ pc' = IF final \/ stop_thread THEN "none" ELSE "wait"
  /\ locker' = FALSE
  /\ final' = FALSE
  /\ UNCHANGED <<writerVars, stop_thread, queueVars, todo, current, hand,
                 stopAt, fileVars>>

\* The queues are visited; the thread loops, enters the last block or ends
EndRound ==
  /\ pc = "round"
  /\ todo = {}
  /\ pc' = IF final THEN "none" ELSE IF stop_thread THEN "clean" ELSE "wait"
  /\ locker' = FALSE
  /\ final' = FALSE
  /\ UNCHANGED <<writerVars, stop_thread, queueVars, todo, current, hand,
                 stopAt, fileVars>>

-----------------------------------------------------------------------------
(* What a round does to one queue *)

\* Fault: no round saves, only the last flush does
NeverSavesPeriodically == FALSE

\* An MDF 3 file can only grow in its last data group, so with more than one
\* queue their samples stay in memory until CleanQueue.
SavesPeriodically ==
  SavePeriodic /\ (WriterType = "Mdf3Basic" => Cardinality(cache) <= 1)

Saves ==
  \/ final
  \/ write_state = "StopMeas"
  \/ write_state = "StartMeas" /\ SavesPeriodically

Visit(d) ==
  /\ pc = "round"
  /\ d \in todo

\* WriteState::Init: purge the queue using the pre-trigger time
TrimStep(d) ==
  /\ Visit(d)
  /\ ~Saves
  /\ write_state = "Init"
  /\ queue' = [queue EXCEPT ![d] = TrimQueue(@, start_time)]
  /\ todo' = todo \ {d}
  /\ UNCHANGED <<writerVars, stop_thread, cache, masters, locker, pc, final,
                 current, hand, stopAt, fileVars>>

\* WriteState::StartMeas without a periodic save
SkipStep(d) ==
  /\ Visit(d)
  /\ ~Saves
  /\ write_state = "StartMeas"
  /\ todo' = todo \ {d}
  /\ UNCHANGED <<writerVars, stop_thread, queueVars, locker, pc, final,
                 current, hand, stopAt, fileVars>>

\* Any other state: Reset() throws the queue away
ResetStep(d) ==
  /\ Visit(d)
  /\ ~Saves
  /\ write_state \notin {"Init", "StartMeas"}
  /\ queue' = [queue EXCEPT ![d] = <<>>]
  /\ todo' = todo \ {d}
  /\ UNCHANGED <<writerVars, stop_thread, cache, masters, locker, pc, final,
                 current, hand, stopAt, fileVars>>

\* SaveQueue() and CleanQueue() begin by giving up the mutex
SaveStep(d) ==
  /\ Visit(d)
  /\ Saves
  /\ locker' = FALSE
  /\ pc' = "open"
  /\ current' = d
  /\ UNCHANGED <<writerVars, stop_thread, queueVars, final, todo, hand, stopAt,
                 fileVars>>

-----------------------------------------------------------------------------
(* SaveQueue() and CleanQueue() of one queue *)

OpenFile ==
  /\ pc = "open"
  /\ pc' = "lock"
  /\ users' = users \union {"worker"}
  /\ UNCHANGED <<writerVars, stop_thread, queueVars, locker, final, todo,
                 current, hand, stopAt, file, nof, unused, header, unflushed>>

\* Fault: the samples of a flush that failed are thrown away
OpenFailsResets ==
  /\ pc = "open"
  /\ ~locker
  /\ pc' = "round"
  /\ locker' = TRUE
  /\ todo' = todo \ {current}
  /\ unflushed' = IF final THEN unflushed \union {current} ELSE unflushed
  /\ queue' = [queue EXCEPT ![current] = <<>>]
  /\ UNCHANGED <<writerVars, stop_thread, cache, masters, final, current, hand,
                 stopAt, users, file, nof, unused, header>>

\* Open() gave up after 6 s, lock() and return
OpenFails ==
  /\ pc = "open"
  /\ ~locker
  /\ pc' = "round"
  /\ locker' = TRUE
  /\ todo' = todo \ {current}
  /\ unflushed' = IF final THEN unflushed \union {current} ELSE unflushed
  /\ UNCHANGED <<writerVars, stop_thread, queueVars, final, current, hand,
                 stopAt, users, file, nof, unused, header>>

LockAndTrim ==
  /\ pc = "lock"
  /\ ~locker
  /\ pc' = "drain"
  /\ locker' = TRUE
  /\ queue' = [queue EXCEPT ![current] = TrimQueue(@, start_time)]
  /\ stopAt' = stop_time
  /\ UNCHANGED <<writerVars, stop_thread, cache, masters, final, todo, current,
                 hand, fileVars>>

\* GetSample(), and unlock() to write it.  The sample that ends the loop has
\* left the queue and is not written.
TakeSample ==
  /\ pc = "drain"
  /\ queue[current] # <<>>
  /\ LET s    == Head(queue[current])
         past == IsAfterStop(s, stopAt)
     IN  /\ hand' = IF past THEN <<>> ELSE <<s>>
         /\ pc' = IF past THEN "close" ELSE "write"
  /\ queue' = [queue EXCEPT ![current] = Tail(@)]
  /\ locker' = FALSE
  /\ UNCHANGED <<writerVars, stop_thread, cache, masters, final, todo, current,
                 stopAt, fileVars>>

\* The record and the count of its channel group, whichever that is, then
\* lock() for the next sample
WriteSample ==
  /\ pc = "write"
  /\ ~locker
  /\ file' = [file EXCEPT ![current] = @ \o hand]
  /\ nof' = [nof EXCEPT ![current] = @ + 1]
  /\ \E g \in ChannelGroups : unused' = [unused EXCEPT ![current] = @ \ {g}]
  /\ hand' = <<>>
  /\ locker' = TRUE
  /\ pc' = "drain"
  /\ UNCHANGED <<writerVars, stop_thread, queueVars, final, todo, current,
                 stopAt, users, header, unflushed>>

EndDrain ==
  /\ pc = "drain"
  /\ queue[current] = <<>>
  /\ locker' = FALSE
  /\ pc' = "close"
  /\ UNCHANGED <<writerVars, stop_thread, queueVars, final, todo, current, hand,
                 stopAt, fileVars>>

\* Fault: the counters stay as InitMeasurement wrote them
CloseOnly ==
  /\ pc = "close"
  /\ ~locker
  /\ users' = users \ {"worker"}
  /\ locker' = TRUE
  /\ todo' = todo \ {current}
  /\ pc' = "round"
  /\ UNCHANGED <<writerVars, stop_thread, queueVars, final, current, hand,
                 stopAt, nof, unused, header, unflushed>>

\* Write the counters into the channel group blocks, Close() and lock()
UpdateAndCloseFile ==
  /\ pc = "close"
  /\ ~locker
  /\ header' = [header EXCEPT ![current] = nof[current]]
  /\ users' = users \ {"worker"}
  /\ locker' = TRUE
  /\ todo' = todo \ {current}
  /\ pc' = "round"
  /\ UNCHANGED <<writerVars, stop_thread, queueVars, final, current, hand,
                 stopAt, nof, unused, unflushed>>

UpdateAndClose == UpdateAndCloseFile /\ UNCHANGED file

SaveSteps ==
  OpenFile \/ OpenFails \/ LockAndTrim \/ TakeSample \/ WriteSample
    \/ EndDrain \/ UpdateAndClose

WorkThread ==
  \/ Wake \/ CleanAll \/ EndRound
  \/ \E d \in DataGroups : TrimStep(d) \/ SkipStep(d) \/ ResetStep(d) \/ SaveStep(d)
  \/ SaveSteps
=============================================================================

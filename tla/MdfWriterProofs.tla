-------------------------- MODULE MdfWriterProofs --------------------------
(***************************************************************************)
(* Theorems about MdfWriter, for every number of data groups, samples and  *)
(* measurements, every pre-trigger time and both kinds of writer: types,   *)
(* who uses the file, what its counters say, and what a stopped            *)
(* measurement leaves behind; that the samples in the queues become        *)
(* relative to the start time, reach the file in the order they were       *)
(* saved, and are never trimmed if a started measurement needs them; and   *)
(* that the writer implements Recorder: once a data group has a record in  *)
(* the file, no sample is trimmed away any more, and what is recorded,     *)
(* forgotten and dropped is what the abstract recorder allows.             *)
(***************************************************************************)
EXTENDS MdfWriterInvariants, SequenceTheorems, FiniteSetTheorems, TLAPS

-----------------------------------------------------------------------------
(* The operations of SampleQueue *)

\* Popping stops before the last sample: the number of popped samples is a
\* number below the length of the queue.
LEMMA PoppedType ==
  ASSUME NEW q \in Seq(Samples), NEW start
  PROVE  Popped(q, start) \in Nat
<1> DEFINE P == {i \in 1 .. Len(q) : \A j \in 1 .. i : ~StopsTrim(q, j, start)}
<1>1. Len(q) \in Nat
  OBVIOUS
<1>2. IsFiniteSet(1 .. Len(q))
  BY <1>1, FS_Interval
<1>3. IsFiniteSet(P)
  BY <1>2, FS_Subset
<1> QED
  BY <1>3, FS_CardinalityType DEF Popped

\* TrimQueue leaves a tail of the queue.
LEMMA TrimIsTail ==
  ASSUME NEW q \in Seq(Samples), NEW start
  PROVE  /\ TrimQueue(q, start) \in Seq(Samples)
         /\ \E k \in Nat : TrimQueue(q, start) = SubSeq(q, k + 1, Len(q))
<1>1. Popped(q, start) \in Nat
  BY PoppedType
<1>2. \A i \in Popped(q, start) + 1 .. Len(q) : q[i] \in Samples
  BY <1>1
<1>3. SubSeq(q, Popped(q, start) + 1, Len(q)) \in Seq(Samples)
  BY <1>1, <1>2, SubSeqProperties
<1> QED
  BY <1>1, <1>3 DEF TrimQueue

\* RecalculateTimeMaster changes the base of the samples and nothing else.
LEMMA RecalculateKeeps ==
  ASSUME NEW q \in Seq(Samples), NEW start \in Times
  PROVE  /\ RecalculateTimeMaster(q, start) \in Seq(Samples)
         /\ Len(RecalculateTimeMaster(q, start)) = Len(q)
         /\ \A i \in 1 .. Len(q) :
              /\ RecalculateTimeMaster(q, start)[i].n = q[i].n
              /\ RecalculateTimeMaster(q, start)[i].base = start
<1> DEFINE r == RecalculateTimeMaster(q, start)
<1>1. /\ Len(q) \in Nat
      /\ DOMAIN q = 1 .. Len(q)
      /\ \A i \in 1 .. Len(q) : q[i] \in Samples
  OBVIOUS
<1>2. \A i \in 1 .. Len(q) :
         /\ Relative(q[i], start) \in Samples
         /\ Relative(q[i], start).n = q[i].n
         /\ Relative(q[i], start).base = start
  BY <1>1 DEF Relative, Samples
<1>3. r \in [1 .. Len(q) -> Samples]
  BY <1>1, <1>2 DEF RecalculateTimeMaster
<1>4. r \in Seq(Samples) /\ Len(r) = Len(q)
  BY <1>1, <1>3, SeqDef, Z3
<1> QED
  BY <1>1, <1>2, <1>4 DEF RecalculateTimeMaster

\* A saved sample is a sample, whether or not it is made relative.
LEMMA NewSample ==
  ASSUME NEW n \in Nat, NEW t \in Times, NEW start \in Times, NEW known \in BOOLEAN
  PROVE  LET s == RecalculateTime([n |-> n, ts |-> t, base |-> 0], known, start)
         IN  s \in Samples /\ s.n = n /\ (known => s.base = start)
<1>1. 0 \in Times
  BY WordAssumption DEF Times
<1> QED
  BY <1>1 DEF RecalculateTime, Relative, Samples
-----------------------------------------------------------------------------
(* Type correctness *)

\* The bounds lie in the range of the clock word.
LEMMA TimesInRange ==
  /\ 0 \in Times /\ FirstTime \in Times
  /\ FirstTime .. MaxTime \subseteq Times
  /\ TypeOK => Clock \subseteq Times
<1>1. Word \in Nat /\ PreTrig \in Nat /\ FirstTime \in PreTrig + 1 .. Word - 1
  BY WordAssumption, PreTrigAssumption, ClockAssumption
<1>2. FirstTime \in 0 .. Word - 1 /\ MaxTime \in FirstTime .. Word - 1 /\ 0 < Word
  BY <1>1, WordAssumption, BoundsAssumption
<1>3. TypeOK => now \in 0 .. Word - 1
  BY DEF TypeOK, Times
<1> QED
  BY <1>1, <1>2, <1>3 DEF Times, Clock

LEMMA InitTypeOK == Init => TypeOK
<1> SUFFICES ASSUME Init PROVE TypeOK
  OBVIOUS
<1>1. <<>> \in Seq(Samples) /\ <<>> \in Seq(DataGroups)
  OBVIOUS
<1>2. 0 \in Times /\ FirstTime \in Times
  BY TimesInRange
<1>3. /\ queue \in [DataGroups -> Seq(Samples)]
      /\ file \in [DataGroups -> Seq(Samples)]
      /\ accepted \in [DataGroups -> Seq(Samples)]
      /\ nof \in [DataGroups -> Nat] /\ header \in [DataGroups -> Nat]
  BY <1>1 DEF Init
<1> QED
  BY <1>1, <1>2, <1>3 DEF Init, TypeOK, WriteStates, WorkerPcs, ClientPcs

\* What the work thread changes keeps its type.
LEMMA WorkTypeOK == TypeOK /\ Work => TypeOK'
<1> SUFFICES ASSUME TypeOK, Work PROVE TypeOK'
  OBVIOUS
<1> USE DEF TypeOK, clientVars, writerVars, queueVars, threadVars, fileVars,
            WorkerPcs
<1>c. UNCHANGED clientVars
  BY DEF Work
<1>1. CASE Wake
  BY <1>c, <1>1 DEF Wake
<1>2. CASE CleanAll
  BY <1>c, <1>2 DEF CleanAll
<1>3. CASE EndRound
  BY <1>c, <1>3 DEF EndRound
<1>4. CASE OpenFile
  BY <1>c, <1>4 DEF OpenFile
<1>5. CASE OpenFails
  BY <1>c, <1>5 DEF OpenFails
<1>6. CASE EndDrain
  BY <1>c, <1>6 DEF EndDrain
<1>7. CASE UpdateAndClose
  BY <1>c, <1>7 DEF UpdateAndClose, UpdateAndCloseFile
<1>8. ASSUME NEW d \in DataGroups, TrimStep(d) PROVE TypeOK'
  BY <1>c, <1>8, TrimIsTail DEF TrimStep, Visit
<1>9. ASSUME NEW d \in DataGroups, SkipStep(d) PROVE TypeOK'
  BY <1>c, <1>9 DEF SkipStep, Visit
<1>10. ASSUME NEW d \in DataGroups, ResetStep(d) PROVE TypeOK'
  BY <1>c, <1>10 DEF ResetStep, Visit
<1>11. ASSUME NEW d \in DataGroups, SaveStep(d) PROVE TypeOK'
  BY <1>c, <1>11 DEF SaveStep, Visit
<1>12. CASE LockAndTrim
  BY <1>c, <1>12, TrimIsTail DEF LockAndTrim
<1>13. CASE TakeSample
  <2> DEFINE q == queue[current]
  <2>1. q \in Seq(Samples) /\ q # <<>>
    BY <1>13 DEF TakeSample
  <2>2. Head(q) \in Samples /\ Tail(q) \in Seq(Samples)
    BY <2>1, HeadTailProperties
  <2>3. hand' \in Seq(Samples)
    BY <1>13, <2>2 DEF TakeSample
  <2>4. queue' \in [DataGroups -> Seq(Samples)]
    BY <1>13, <2>2 DEF TakeSample
  <2>5. pc' \in WorkerPcs /\ locker' \in BOOLEAN
    BY <1>13 DEF TakeSample
  <2>6. UNCHANGED <<writerVars, stop_thread, cache, masters, final, todo, current,
                    stopAt, fileVars>>
    BY <1>13 DEF TakeSample
  <2> QED
    BY <1>c, <2>3, <2>4, <2>5, <2>6
<1>14. CASE WriteSample
  <2>1. file[current] \o hand \in Seq(Samples)
    OBVIOUS
  <2>2. file' \in [DataGroups -> Seq(Samples)]
    BY <1>14, <2>1 DEF WriteSample
  <2>3. nof' \in [DataGroups -> Nat]
    BY <1>14 DEF WriteSample
  <2>4. hand' \in Seq(Samples)
    BY <1>14 DEF WriteSample
  <2> QED
    BY <1>c, <1>14, <2>2, <2>3, <2>4 DEF WriteSample
<1> QED
  BY <1>1, <1>2, <1>3, <1>4, <1>5, <1>6, <1>7, <1>8, <1>9, <1>10, <1>11, <1>12, <1>13, <1>14
     DEF Work, WorkThread, SaveSteps
\* So does what the client changes.
LEMMA ClientTypeOK == TypeOK /\ Client => TypeOK'
<1> SUFFICES ASSUME TypeOK, Client PROVE TypeOK'
  OBVIOUS
<1> USE DEF TypeOK, cacheVars, writerVars, queueVars, threadVars, fileVars,
            ClientPcs
<1>0. 0 \in Times /\ Clock \subseteq Times /\ FirstTime .. MaxTime \subseteq Times
  BY TimesInRange
<1>1. ASSUME ThreadJoined PROVE queue' \in [DataGroups -> Seq(Samples)]
  BY <1>1 DEF ThreadJoined
<1>2. CASE InitMeasurement
  BY <1>2 DEF InitMeasurement, AskThreadToStop
<1>3. CASE InitExit
  BY <1>1, <1>3 DEF InitExit, ThreadJoined
<1>4. CASE InitFails
  BY <1>4 DEF InitFails
<1>5. CASE InitWrites
  <2>1. Active \subseteq DataGroups
    BY DEF Active, Configured
  <2>2. accepted' \in [DataGroups -> Seq(Samples)]
    BY <1>5 DEF InitWrites
  <2> QED
    BY <1>0, <1>5, <2>1, <2>2 DEF InitWrites, WriteStates, WorkerPcs
<1>6. ASSUME NEW t \in Clock, StartMeasurement(t) PROVE TypeOK'
  BY <1>0, <1>6 DEF StartMeasurement, WriteStates
<1>7. CASE StartSetsTime
  BY <1>0, <1>7 DEF StartSetsTime
<1>8. ASSUME NEW d \in DataGroups, StartRecalculates(d) PROVE TypeOK'
  <2>1. RecalculateTimeMaster(queue[d], start_time) \in Seq(Samples)
    BY RecalculateKeeps
  <2>2. queue' \in [DataGroups -> Seq(Samples)]
    BY <1>8, <2>1 DEF StartRecalculates
  <2> QED
    BY <1>8, <2>2 DEF StartRecalculates
<1>9. CASE StartReturns
  BY <1>9 DEF StartReturns
<1>10. ASSUME NEW t \in FirstTime .. MaxTime, StopMeasurement(t) PROVE TypeOK'
  BY <1>0, <1>10 DEF StopMeasurement, AskThreadToStop
<1>11. CASE StopExit
  BY <1>1, <1>11 DEF StopExit, ThreadJoined, WriteStates
<1>12. CASE FinalizeMeasurement
  BY <1>12 DEF FinalizeMeasurement
<1>13. CASE FinalizeWrites
  BY <1>13 DEF FinalizeWrites, WriteStates
<1>14. ASSUME NEW d \in DataGroups, CreateDataGroup(d) PROVE TypeOK'
  <2>1. created' \in Seq(DataGroups)
    BY <1>14 DEF CreateDataGroup
  <2> QED
    BY <1>14, <2>1 DEF CreateDataGroup
<1>15. ASSUME NEW d \in DataGroups, NEW t \in Clock, SaveSample(d, t) PROVE TypeOK'
  <2> PICK queues \in QueuesFor(d) :
        LET s(q) == RecalculateTime([n |-> saved + 1, ts |-> t, base |-> 0],
                                    q \in masters, start_time)
            Put(f) == [q \in DataGroups |->
                         IF q \in queues THEN AddSample(f[q], s(q)) ELSE f[q]]
        IN  queue' = Put(queue) /\ accepted' = Put(accepted)
    BY <1>15 DEF SaveSample
  <2> DEFINE s(q) == RecalculateTime([n |-> saved + 1, ts |-> t, base |-> 0],
                                     q \in masters, start_time)
             Put(f) == [q \in DataGroups |->
                          IF q \in queues THEN AddSample(f[q], s(q)) ELSE f[q]]
  <2>1. \A q \in DataGroups : s(q) \in Samples
    <3>1. saved + 1 \in Nat /\ t \in Times /\ start_time \in Times
      BY <1>0
    <3>2. TAKE q \in DataGroups
    <3>3. (q \in masters) \in BOOLEAN
      OBVIOUS
    <3> QED
      BY ONLY <3>1, <3>3, NewSample
  <2>2. ASSUME NEW f \in [DataGroups -> Seq(Samples)]
        PROVE  Put(f) \in [DataGroups -> Seq(Samples)]
    <3>1. ASSUME NEW q \in DataGroups
          PROVE  AddSample(f[q], s(q)) \in Seq(Samples)
      <4> HIDE DEF s
      <4>1. s(q) \in Samples /\ f[q] \in Seq(Samples)
        BY <2>1
      <4> QED
        BY <4>1, AppendProperties DEF AddSample
    <3> HIDE DEF s
    <3> QED
      BY <3>1
  <2>3. queue' = Put(queue) /\ accepted' = Put(accepted)
    OBVIOUS
  <2>4. queue' \in [DataGroups -> Seq(Samples)] /\ accepted' \in [DataGroups -> Seq(Samples)]
    <3> HIDE DEF Put
    <3> QED
      BY <2>2, <2>3
  <2>5. /\ saved' = saved + 1 /\ now' = t
        /\ UNCHANGED <<writerVars, stop_thread, cache, masters, threadVars,
                      fileVars, call, argument, remaining, created, inits>>
    BY <1>15 DEF SaveSample
  <2>6. t \in Times /\ saved' \in Nat /\ UNCHANGED <<users, file, nof, unused, header, unflushed>>
    BY <1>0, <2>5
  <2> QED
    BY <2>4, <2>5, <2>6
<1> HIDE DEF TypeOK
<1> QED
  BY <1>2, <1>3, <1>4, <1>5, <1>6, <1>7, <1>8, <1>9, <1>10, <1>11, <1>12, <1>13,
     <1>14, <1>15
     DEF Client, CallContinues

\* Every variable of the writer, its queues and its threads keeps its type.
THEOREM TypeCorrect == Spec => []TypeOK
<1>1. TypeOK /\ [Next]_vars => TypeOK'
  <2> SUFFICES ASSUME TypeOK, [Next]_vars PROVE TypeOK'
    OBVIOUS
  <2>1. CASE Next
    BY <2>1, WorkTypeOK, ClientTypeOK DEF Next
  <2>2. CASE UNCHANGED vars
    BY <2>2 DEF TypeOK, vars, cacheVars, clientVars, writerVars, queueVars,
                threadVars, fileVars
  <2> QED
    BY <2>1, <2>2
<1> QED
  BY <1>1, InitTypeOK, PTL DEF Spec

-----------------------------------------------------------------------------
(* FileExclusive *)

LEMMA WorkFileInv == TypeOK /\ FileInv /\ Work => FileInv'
<1> SUFFICES ASSUME TypeOK, FileInv, Work PROVE FileInv'
  OBVIOUS
<1> USE DEF FileInv, InFile, clientVars, writerVars
<1>c. UNCHANGED clientVars
  BY DEF Work
<1>1. CASE Wake
  BY <1>c, <1>1 DEF Wake, fileVars
<1>2. CASE CleanAll
  BY <1>c, <1>2 DEF CleanAll, fileVars
<1>3. CASE EndRound
  BY <1>c, <1>3 DEF EndRound, fileVars
<1>4. ASSUME NEW d \in DataGroups, TrimStep(d) \/ SkipStep(d) \/ ResetStep(d)
      PROVE  FileInv'
  BY <1>c, <1>4 DEF TrimStep, SkipStep, ResetStep, Visit, fileVars
<1>5. ASSUME NEW d \in DataGroups, SaveStep(d) PROVE FileInv'
  BY <1>c, <1>5 DEF SaveStep, Visit, fileVars
<1>6. CASE OpenFile
  BY <1>c, <1>6 DEF OpenFile
<1>7. CASE OpenFails
  BY <1>c, <1>7 DEF OpenFails
<1>8. CASE LockAndTrim
  BY <1>c, <1>8 DEF LockAndTrim, fileVars
<1>9. CASE TakeSample
  BY <1>c, <1>9 DEF TakeSample, fileVars
<1>10. CASE WriteSample
  BY <1>c, <1>10 DEF WriteSample
<1>11. CASE EndDrain
  BY <1>c, <1>11 DEF EndDrain, fileVars
<1>12. CASE UpdateAndClose
  BY <1>c, <1>12 DEF UpdateAndClose, UpdateAndCloseFile
<1> QED
  BY <1>1, <1>2, <1>3, <1>4, <1>5, <1>6, <1>7, <1>8, <1>9, <1>10, <1>11, <1>12
     DEF Work, WorkThread, SaveSteps

LEMMA ClientFileInv ==
  ASSUME DocumentedOrder
  PROVE  TypeOK /\ FileInv /\ Client => FileInv'
<1> SUFFICES ASSUME TypeOK, FileInv, Client PROVE FileInv'
  OBVIOUS
<1> USE DEF FileInv, InFile, MayCall, cacheVars, writerVars, threadVars, fileVars
<1>1. CASE InitMeasurement
  BY <1>1 DEF InitMeasurement
<1>2. CASE InitExit
  BY <1>2 DEF InitExit, ThreadJoined
<1>3. CASE InitFails
  BY <1>3 DEF InitFails
<1>4. CASE InitWrites
  BY <1>4 DEF InitWrites
<1>5. ASSUME NEW t, StartMeasurement(t) PROVE FileInv'
  BY <1>5 DEF StartMeasurement
<1>6. CASE StartSetsTime
  BY <1>6 DEF StartSetsTime
<1>7. ASSUME NEW d, StartRecalculates(d) PROVE FileInv'
  BY <1>7 DEF StartRecalculates
<1>8. CASE StartReturns
  BY <1>8 DEF StartReturns
<1>9. ASSUME NEW t, StopMeasurement(t) PROVE FileInv'
  BY <1>9 DEF StopMeasurement
<1>10. CASE StopExit
  BY <1>10 DEF StopExit, ThreadJoined
<1>11. CASE FinalizeMeasurement
  BY <1>11 DEF FinalizeMeasurement
<1>12. CASE FinalizeWrites
  BY <1>12 DEF FinalizeWrites
<1>13. ASSUME NEW d, CreateDataGroup(d) PROVE FileInv'
  BY <1>13 DEF CreateDataGroup
<1>14. ASSUME NEW d, NEW t, SaveSample(d, t) PROVE FileInv'
  BY <1>14 DEF SaveSample
<1> QED
  BY <1>1, <1>2, <1>3, <1>4, <1>5, <1>6, <1>7, <1>8, <1>9, <1>10, <1>11, <1>12,
     <1>13, <1>14
     DEF Client, CallContinues

\* A client that keeps to the documented order and the work thread are never
\* between their Open and Close of file_ at the same time.
THEOREM FileIsExclusive ==
  ASSUME DocumentedOrder
  PROVE  Spec => []FileExclusive
<1>1. Init => FileInv
  BY DEF Init, FileInv, InFile
<1>2. TypeOK /\ FileInv /\ [Next]_vars => FileInv'
  <2>1. FileInv /\ UNCHANGED vars => FileInv'
    BY DEF FileInv, InFile, vars, cacheVars, clientVars, writerVars, threadVars, fileVars
  <2> QED
    BY <2>1, WorkFileInv, ClientFileInv DEF Next
<1>3. FileInv => FileExclusive
  BY DEF FileInv, FileExclusive, InFile
<1> QED
  BY <1>1, <1>2, <1>3, TypeCorrect, PTL DEF Spec
-----------------------------------------------------------------------------
(* HeaderCounts *)

LEMMA WorkCountInv == TypeOK /\ CountInv /\ Work => CountInv'
<1> SUFFICES ASSUME TypeOK, CountInv, Work PROVE CountInv'
  OBVIOUS
<1> USE DEF CountInv, InFile, clientVars, fileVars
<1>c. UNCHANGED clientVars
  BY DEF Work
<1>1. CASE Wake
  BY <1>c, <1>1 DEF Wake
<1>2. CASE CleanAll
  BY <1>c, <1>2 DEF CleanAll
<1>3. CASE EndRound
  BY <1>c, <1>3 DEF EndRound
<1>4. ASSUME NEW d \in DataGroups, TrimStep(d) \/ SkipStep(d) \/ ResetStep(d)
      PROVE  CountInv'
  BY <1>c, <1>4 DEF TrimStep, SkipStep, ResetStep, Visit
<1>5. ASSUME NEW d \in DataGroups, SaveStep(d) PROVE CountInv'
  BY <1>c, <1>5 DEF SaveStep, Visit
<1>6. CASE OpenFile
  BY <1>c, <1>6 DEF OpenFile
<1>7. CASE OpenFails
  BY <1>c, <1>7 DEF OpenFails
<1>8. CASE LockAndTrim
  BY <1>c, <1>8 DEF LockAndTrim
<1>9. CASE TakeSample
  <2> DEFINE s == Head(queue[current])
  <2>1. Len(<<s>>) = 1
    OBVIOUS
  <2>2. pc' = "write" => Len(hand') = 1
    BY <1>9, <2>1 DEF TakeSample
  <2>3. pc = "drain" /\ pc' \in {"write", "close"} /\ UNCHANGED <<fileVars, current>>
    BY <1>9 DEF TakeSample
  <2> QED
    BY <1>c, <2>2, <2>3
<1>10. CASE WriteSample
  <2>1. Len(file[current] \o hand) = Len(file[current]) + 1
    <3>1. file[current] \in Seq(Samples) /\ hand \in Seq(Samples)
      BY DEF TypeOK
    <3>2. Len(hand) = 1
      BY <1>10 DEF WriteSample
    <3>3. Len(file[current] \o hand) = Len(file[current]) + Len(hand)
      BY ONLY <3>1, ConcatProperties, Zenon
    <3> QED
      BY ONLY <3>2, <3>3
  <2>2. \A d \in DataGroups : nof'[d] = Len(file'[d])
    BY <1>10, <2>1 DEF WriteSample, TypeOK
  <2>3. \A d \in DataGroups : d # current => nof'[d] = nof[d]
    BY <1>10 DEF WriteSample, TypeOK
  <2>4. pc' = "drain" /\ UNCHANGED <<header, current, users>>
    BY <1>10 DEF WriteSample
  <2> QED
    BY <1>c, <1>10, <2>2, <2>3, <2>4 DEF WriteSample
<1>11. CASE EndDrain
  BY <1>c, <1>11 DEF EndDrain
<1>12. CASE UpdateAndClose
  BY <1>c, <1>12 DEF UpdateAndClose, UpdateAndCloseFile, TypeOK
<1> QED
  BY <1>1, <1>2, <1>3, <1>4, <1>5, <1>6, <1>7, <1>8, <1>9, <1>10, <1>11, <1>12
     DEF Work, WorkThread, SaveSteps

LEMMA ClientCountInv == TypeOK /\ CountInv /\ Client => CountInv'
<1> SUFFICES ASSUME TypeOK, CountInv, Client PROVE CountInv'
  OBVIOUS
<1> USE DEF CountInv, InFile, cacheVars, threadVars, fileVars
<1>1. CASE InitMeasurement
  BY <1>1 DEF InitMeasurement
<1>2. CASE InitExit
  BY <1>2 DEF InitExit, ThreadJoined
<1>3. CASE InitFails
  BY <1>3 DEF InitFails
<1>4. CASE InitWrites
  BY <1>4 DEF InitWrites
<1>5. ASSUME NEW t, StartMeasurement(t) PROVE CountInv'
  BY <1>5 DEF StartMeasurement
<1>6. CASE StartSetsTime
  BY <1>6 DEF StartSetsTime
<1>7. ASSUME NEW d, StartRecalculates(d) PROVE CountInv'
  BY <1>7 DEF StartRecalculates
<1>8. CASE StartReturns
  BY <1>8 DEF StartReturns
<1>9. ASSUME NEW t, StopMeasurement(t) PROVE CountInv'
  BY <1>9 DEF StopMeasurement
<1>10. CASE StopExit
  BY <1>10 DEF StopExit, ThreadJoined
<1>11. CASE FinalizeMeasurement
  BY <1>11 DEF FinalizeMeasurement
<1>12. CASE FinalizeWrites
  BY <1>12 DEF FinalizeWrites
<1>13. ASSUME NEW d, CreateDataGroup(d) PROVE CountInv'
  BY <1>13 DEF CreateDataGroup
<1>14. ASSUME NEW d, NEW t, SaveSample(d, t) PROVE CountInv'
  BY <1>14 DEF SaveSample
<1> QED
  BY <1>1, <1>2, <1>3, <1>4, <1>5, <1>6, <1>7, <1>8, <1>9, <1>10, <1>11, <1>12,
     <1>13, <1>14
     DEF Client, CallContinues

\* Whenever nobody is in the file, the sample counter of every channel group
\* block on disk is the number of records stored for it.
THEOREM HeadersCount == Spec => []HeaderCounts
<1>1. Init => CountInv
  BY DEF Init, CountInv, InFile
<1>2. TypeOK /\ CountInv /\ [Next]_vars => CountInv'
  <2>1. CountInv /\ UNCHANGED vars => CountInv'
    BY DEF CountInv, InFile, vars, cacheVars, clientVars, threadVars, fileVars
  <2> QED
    BY <2>1, WorkCountInv, ClientCountInv DEF Next
<1>3. TypeOK /\ CountInv => HeaderCounts
  BY DEF CountInv, HeaderCounts, InFile, TypeOK
<1> QED
  BY <1>1, <1>2, <1>3, TypeCorrect, PTL DEF Spec
-----------------------------------------------------------------------------
(* StopLosesNothing *)

LEMMA WorkFlushInv == TypeOK /\ FlushInv /\ Work => FlushInv'
<1> SUFFICES ASSUME TypeOK, FlushInv, Work PROVE FlushInv'
  OBVIOUS
<1> USE DEF FlushInv, InFile, Flushed, Pending, Hand, clientVars, writerVars,
            queueVars, fileVars
<1>c. UNCHANGED clientVars
  BY DEF Work
<1>1. CASE Wake
  BY <1>c, <1>1 DEF Wake
<1>2. CASE CleanAll
  BY <1>c, <1>2 DEF CleanAll
<1>3. CASE EndRound
  BY <1>c, <1>3 DEF EndRound
<1>4. ASSUME NEW d \in DataGroups, TrimStep(d) \/ ResetStep(d) PROVE FlushInv'
  <2>1. ~final /\ pc = "round"
    BY <1>4 DEF TrimStep, ResetStep, Visit, Saves
  <2> QED
    BY <1>c, <1>4, <2>1 DEF TrimStep, ResetStep
<1>5. ASSUME NEW d \in DataGroups, SkipStep(d) PROVE FlushInv'
  <2>1. ~final /\ pc = "round"
    BY <1>5 DEF SkipStep, Visit, Saves
  <2> QED
    BY <1>c, <1>5, <2>1 DEF SkipStep
<1>6. ASSUME NEW d \in DataGroups, SaveStep(d) PROVE FlushInv'
  BY <1>c, <1>6 DEF SaveStep, Visit
<1>7. CASE OpenFile
  BY <1>c, <1>7 DEF OpenFile
<1>8. CASE OpenFails
  BY <1>c, <1>8 DEF OpenFails
<1>9. CASE LockAndTrim
  BY <1>c, <1>9, TrimIsTail DEF LockAndTrim, TypeOK
<1>10. CASE TakeSample
  BY <1>c, <1>10 DEF TakeSample, IsAfterStop
<1>11. CASE WriteSample
  BY <1>c, <1>11 DEF WriteSample
<1>12. CASE EndDrain
  BY <1>c, <1>12 DEF EndDrain
<1>13. CASE UpdateAndClose
  BY <1>c, <1>13 DEF UpdateAndClose, UpdateAndCloseFile
<1> QED
  BY <1>1, <1>2, <1>3, <1>4, <1>5, <1>6, <1>7, <1>8, <1>9, <1>10, <1>11, <1>12, <1>13
     DEF Work, WorkThread, SaveSteps

LEMMA ClientFlushInv == TypeOK /\ FlushInv /\ Client => FlushInv'
<1> SUFFICES ASSUME TypeOK, FlushInv, Client PROVE FlushInv'
  OBVIOUS
<1> USE DEF FlushInv, InFile, Flushed, Pending, Hand, cacheVars, writerVars,
            queueVars, threadVars, fileVars
<1>1. CASE InitMeasurement
  BY <1>1 DEF InitMeasurement, MayCall, AskThreadToStop
<1>2. CASE InitExit
  BY <1>2 DEF InitExit, ThreadJoined
<1>3. CASE InitFails
  BY <1>3 DEF InitFails
<1>4. CASE InitWrites
  BY <1>4 DEF InitWrites
<1>5. ASSUME NEW t, StartMeasurement(t) PROVE FlushInv'
  BY <1>5 DEF StartMeasurement, MayCall
<1>6. CASE StartSetsTime
  BY <1>6 DEF StartSetsTime
<1>7. ASSUME NEW d, StartRecalculates(d) PROVE FlushInv'
  BY <1>7 DEF StartRecalculates
<1>8. CASE StartReturns
  BY <1>8 DEF StartReturns
<1>9. ASSUME NEW t, StopMeasurement(t) PROVE FlushInv'
  BY <1>9 DEF StopMeasurement, MayCall, AskThreadToStop
<1>10. CASE StopExit
  BY <1>10 DEF StopExit, ThreadJoined
<1>11. CASE FinalizeMeasurement
  BY <1>11 DEF FinalizeMeasurement, MayCall
<1>12. CASE FinalizeWrites
  BY <1>12 DEF FinalizeWrites
<1>13. ASSUME NEW d, CreateDataGroup(d) PROVE FlushInv'
  BY <1>13 DEF CreateDataGroup, MayCall
<1>14. ASSUME NEW d, NEW t, SaveSample(d, t) PROVE FlushInv'
  <2>1. call \notin {"stopExit", "initExit", "initOpen"} /\ UNCHANGED call
    BY <1>14 DEF SaveSample
  <2>2. ~stop_thread /\ ~final
    BY <2>1
  <2>3. pc = "none" => cache = {}
    BY <2>2
  <2>4. UNCHANGED <<writerVars, stop_thread, cache, threadVars, fileVars>>
    BY <1>14 DEF SaveSample
  <2> QED
    BY <2>1, <2>2, <2>3, <2>4
<1> QED
  BY <1>1, <1>2, <1>3, <1>4, <1>5, <1>6, <1>7, <1>8, <1>9, <1>10, <1>11, <1>12,
     <1>13, <1>14
     DEF Client, CallContinues

\* The queues of a measurement are dropped only when the work thread has stored
\* their samples, or could not open the file for its last flush.  It holds for a
\* client that calls in any order.
THEOREM StopKeepsSamples == Spec => StopLosesNothing
<1>1. Init => FlushInv
  BY DEF Init, FlushInv, InFile
<1>2. TypeOK /\ FlushInv /\ [Next]_vars => FlushInv'
  <2>1. FlushInv /\ UNCHANGED vars => FlushInv'
    BY DEF FlushInv, InFile, Flushed, Pending, Hand, vars, cacheVars, clientVars,
           writerVars, queueVars, threadVars, fileVars
  <2> QED
    BY <2>1, WorkFlushInv, ClientFlushInv DEF Next
<1>3. FlushInv /\ [Next]_vars =>
        [\A d \in cache : d \notin cache' => Pending(d) = <<>> \/ d \in unflushed]_vars
  <2> SUFFICES ASSUME FlushInv, Next, NEW d \in cache, d \notin cache'
               PROVE  Pending(d) = <<>> \/ d \in unflushed
    OBVIOUS
  <2>1. pc = "none"
    <3>1. InitExit \/ StopExit \/ InitWrites
      BY DEF Next, Work, WorkThread, SaveSteps, Client, CallContinues, cacheVars,
             queueVars, Wake, CleanAll, EndRound, TrimStep, SkipStep, ResetStep,
             SaveStep, OpenFile, OpenFails, LockAndTrim, TakeSample, WriteSample,
             EndDrain, UpdateAndClose, UpdateAndCloseFile, InitMeasurement, InitFails,
             StartMeasurement, StartSetsTime, StartRecalculates, StartReturns,
             StopMeasurement, FinalizeMeasurement, FinalizeWrites,
             CreateDataGroup, SaveSample
    <3> QED
      BY <3>1 DEF InitExit, StopExit, InitWrites, ThreadJoined, FlushInv
  <2> QED
    BY <2>1 DEF FlushInv, Flushed
<1> QED
  BY <1>1, <1>2, <1>3, TypeCorrect, PTL DEF Spec, StopLosesNothing

-----------------------------------------------------------------------------
(* How a step changes a queue *)

\* r is q without its first samples
IsTailOf(r, q) ==
  \E k \in Nat : \A i \in 1 .. Len(r) : i + k \in 1 .. Len(q) /\ r[i] = q[i + k]

LEMMA TrimSuffix ==
  ASSUME NEW q \in Seq(Samples), NEW start
  PROVE  TrimQueue(q, start) \in Seq(Samples) /\ IsTailOf(TrimQueue(q, start), q)
<1>1. TrimQueue(q, start) \in Seq(Samples)
  BY TrimIsTail
<1>2. PICK k \in Nat : TrimQueue(q, start) = SubSeq(q, k + 1, Len(q))
  BY TrimIsTail
<1>3. Len(q) \in Nat /\ \A i \in k + 1 .. Len(q) : q[i] \in Samples
  OBVIOUS
<1> DEFINE r == SubSeq(q, k + 1, Len(q))
<1>4. /\ Len(r) = IF k + 1 <= Len(q) THEN Len(q) - k ELSE 0
      /\ \A i \in 1 .. Len(q) - k : r[i] = q[k + i]
  BY <1>3, SubSeqProperties
<1>5. \A i \in 1 .. Len(r) : i + k \in 1 .. Len(q) /\ r[i] = q[i + k]
  BY <1>3, <1>4
<1> QED
  BY <1>1, <1>2, <1>5 DEF IsTailOf

LEMMA TailSuffix ==
  ASSUME NEW q \in Seq(Samples), q # <<>>
  PROVE  Tail(q) \in Seq(Samples) /\ IsTailOf(Tail(q), q)
<1>1. /\ Tail(q) \in Seq(Samples)
      /\ Len(Tail(q)) = Len(q) - 1
      /\ \A i \in 1 .. Len(Tail(q)) : Tail(q)[i] = q[i + 1]
  BY HeadTailProperties
<1>2. \A i \in 1 .. Len(Tail(q)) : i + 1 \in 1 .. Len(q) /\ Tail(q)[i] = q[i + 1]
  BY <1>1
<1> QED
  BY <1>1, <1>2 DEF IsTailOf

LEMMA SameSuffix ==
  ASSUME NEW q \in Seq(Samples)
  PROVE  IsTailOf(q, q) /\ IsTailOf(<<>>, q)
<1>1. \A i \in 1 .. Len(q) : i + 0 \in 1 .. Len(q) /\ q[i] = q[i + 0]
  OBVIOUS
<1>2. \A i \in 1 .. Len(<<>>) : i + 0 \in 1 .. Len(q) /\ <<>>[i] = q[i + 0]
  OBVIOUS
<1>3. 0 \in Nat
  OBVIOUS
<1> QED
  BY <1>1, <1>2, <1>3 DEF IsTailOf

\* The work thread only removes samples at the front of a queue.
LEMMA WorkShortens ==
  ASSUME TypeOK, Work, NEW d \in DataGroups
  PROVE  IsTailOf(queue'[d], queue[d])
<1> USE DEF TypeOK
<1>0. queue[d] \in Seq(Samples) /\ queue \in [DataGroups -> Seq(Samples)]
  OBVIOUS
<1>1. CASE UNCHANGED queue
  BY <1>0, <1>1, SameSuffix
<1>2. ASSUME NEW e \in DataGroups,
             queue' = [queue EXCEPT ![e] = TrimQueue(@, start_time)]
      PROVE  IsTailOf(queue'[d], queue[d])
  BY <1>0, <1>2, SameSuffix, TrimSuffix
<1>3. ASSUME NEW e \in DataGroups, queue' = [queue EXCEPT ![e] = <<>>]
      PROVE  IsTailOf(queue'[d], queue[d])
  BY <1>0, <1>3, SameSuffix
<1>4. ASSUME NEW e \in DataGroups, queue[e] # <<>>,
             queue' = [queue EXCEPT ![e] = Tail(@)]
      PROVE  IsTailOf(queue'[d], queue[d])
  BY <1>0, <1>4, SameSuffix, TailSuffix
<1>5. \/ UNCHANGED queue
      \/ \E e \in DataGroups :
           \/ queue' = [queue EXCEPT ![e] = TrimQueue(@, start_time)]
           \/ queue' = [queue EXCEPT ![e] = <<>>]
           \/ queue[e] # <<>> /\ queue' = [queue EXCEPT ![e] = Tail(@)]
  BY DEF Work, WorkThread, SaveSteps, queueVars, Wake, CleanAll, EndRound,
         TrimStep, SkipStep, ResetStep, SaveStep, OpenFile, OpenFails,
         LockAndTrim, TakeSample, WriteSample, EndDrain, UpdateAndClose, UpdateAndCloseFile
<1> QED
  BY <1>1, <1>2, <1>3, <1>4, <1>5

\* SaveSample appends a sample with a new number, relative if the queue knows
\* its master channels, or leaves the queue alone.
LEMMA SaveAppends ==
  ASSUME TypeOK, NEW d, NEW t \in Clock, SaveSample(d, t), NEW e \in DataGroups
  PROVE  \/ queue'[e] = queue[e]
         \/ \E s \in Samples : /\ queue'[e] = Append(queue[e], s)
                               /\ s.n = saved + 1
                               /\ e \in masters => s.base = start_time
<1> DEFINE s(q) == RecalculateTime([n |-> saved + 1, ts |-> t, base |-> 0],
                                   q \in masters, start_time)
<1>1. PICK queues \in QueuesFor(d) :
        queue' = [q \in DataGroups |->
                    IF q \in queues THEN AddSample(queue[q], s(q)) ELSE queue[q]]
  BY DEF SaveSample
<1>2. s(e) \in Samples /\ s(e).n = saved + 1 /\ (e \in masters => s(e).base = start_time)
  <2>1. saved + 1 \in Nat /\ t \in Times /\ start_time \in Times
    <3>1. Clock \subseteq Times
      BY TimesInRange
    <3> QED
      BY <3>1 DEF TypeOK
  <2>2. 0 \in Times
    BY TimesInRange
  <2> QED
    BY <2>1, <2>2 DEF RecalculateTime, Relative, Samples
<1> HIDE DEF s
<1> QED
  BY <1>1, <1>2 DEF AddSample
-----------------------------------------------------------------------------
(* QueueRelative *)

LEMMA WorkRelativeInv == TypeOK /\ RelativeInv /\ Work => RelativeInv'
<1> SUFFICES ASSUME TypeOK, RelativeInv, Work PROVE RelativeInv'
  OBVIOUS
<1>1. UNCHANGED <<writerVars, masters, call>>
  BY DEF Work, WorkThread, SaveSteps, clientVars, queueVars, writerVars, Wake,
         CleanAll, EndRound, TrimStep, SkipStep, ResetStep, SaveStep, OpenFile,
         OpenFails, LockAndTrim, TakeSample, WriteSample, EndDrain, UpdateAndClose, UpdateAndCloseFile
<1>2. TypeOK'
  BY WorkTypeOK
<1>3. ASSUME NEW d \in masters, NEW i \in DOMAIN queue'[d]
      PROVE  queue'[d][i].base = start_time
  <2>1. /\ d \in DataGroups
        /\ queue[d] \in Seq(Samples) /\ queue'[d] \in Seq(Samples)
        /\ i \in 1 .. Len(queue'[d])
    <3>1. d \in DataGroups /\ queue[d] \in Seq(Samples)
      BY <1>3 DEF TypeOK
    <3>2. queue'[d] \in Seq(Samples)
      BY <1>2, <3>1 DEF TypeOK
    <3> QED
      BY <1>3, <3>1, <3>2
  <2>2. PICK k \in Nat : i + k \in 1 .. Len(queue[d]) /\ queue'[d][i] = queue[d][i + k]
    BY <2>1, WorkShortens DEF IsTailOf
  <2>3. i + k \in DOMAIN queue[d]
    BY <2>1, <2>2
  <2> QED
    BY <2>2, <2>3 DEF RelativeInv, QueueRelative
<1>4. QueueRelative'
  BY <1>1, <1>3 DEF QueueRelative, writerVars
<1> QED
  BY <1>1, <1>4 DEF RelativeInv, writerVars

\* StartMeasurement makes the queues relative one by one, and SaveSample adds
\* relative samples to those it has visited.
LEMMA ClientRelativeInv ==
  ASSUME DocumentedOrder
  PROVE  TypeOK /\ RelativeInv /\ Client => RelativeInv'
<1> SUFFICES ASSUME TypeOK, RelativeInv, Client PROVE RelativeInv'
  OBVIOUS
<1> USE DEF RelativeInv, MayCall, cacheVars, writerVars, queueVars
<1>1. CASE InitMeasurement
  BY <1>1 DEF InitMeasurement, QueueRelative
<1>2. CASE InitExit \/ StopExit
  BY <1>2 DEF InitExit, StopExit, ThreadJoined, QueueRelative
<1>3. CASE InitFails \/ InitWrites
  BY <1>3 DEF InitFails, InitWrites, QueueRelative
<1>4. ASSUME NEW t, StartMeasurement(t) PROVE RelativeInv'
  BY <1>4 DEF StartMeasurement, QueueRelative
<1>5. CASE StartSetsTime \/ StartReturns
  BY <1>5 DEF StartSetsTime, StartReturns, QueueRelative
<1>6. ASSUME NEW e \in DataGroups, StartRecalculates(e) PROVE RelativeInv'
  <2>1. /\ masters' = masters \union {e}
        /\ queue' = [queue EXCEPT ![e] = RecalculateTimeMaster(@, start_time)]
        /\ UNCHANGED <<writerVars, call>>
        /\ call = "startRecalculate"
    BY <1>6 DEF StartRecalculates
  <2>2. queue[e] \in Seq(Samples) /\ start_time \in Times /\ queue \in [DataGroups -> Seq(Samples)]
    BY DEF TypeOK
  <2>3. \A i \in DOMAIN queue'[e] : queue'[e][i].base = start_time
    <3>1. queue'[e] = RecalculateTimeMaster(queue[e], start_time)
      BY <2>1, <2>2
    <3>2. queue'[e] \in Seq(Samples) /\ Len(queue'[e]) = Len(queue[e])
      BY <2>2, <3>1, RecalculateKeeps
    <3>3. \A i \in 1 .. Len(queue[e]) : queue'[e][i].base = start_time
      BY <2>2, <3>1, RecalculateKeeps
    <3> QED
      BY <3>2, <3>3
  <2>4. \A d \in masters \ {e} : queue'[d] = queue[d]
    BY <2>1, <2>2 DEF TypeOK
  <2>5. QueueRelative'
    BY <2>1, <2>3, <2>4 DEF QueueRelative
  <2> QED
    BY <2>1, <2>5
<1>7. ASSUME NEW t, StopMeasurement(t) PROVE RelativeInv'
  BY <1>7 DEF StopMeasurement, QueueRelative
<1>8. CASE FinalizeMeasurement \/ FinalizeWrites
  BY <1>8 DEF FinalizeMeasurement, FinalizeWrites, QueueRelative
<1>9. ASSUME NEW d, CreateDataGroup(d) PROVE RelativeInv'
  BY <1>9 DEF CreateDataGroup, QueueRelative
<1>10. ASSUME NEW d, NEW t \in Clock, SaveSample(d, t) PROVE RelativeInv'
  <2>1. UNCHANGED <<writerVars, masters, call>>
    BY <1>10 DEF SaveSample
  <2>2. ASSUME NEW e \in masters, NEW i \in DOMAIN queue'[e]
        PROVE  queue'[e][i].base = start_time
    <3>1. e \in DataGroups /\ queue[e] \in Seq(Samples)
      BY DEF TypeOK
    <3>2. CASE queue'[e] = queue[e]
      BY <2>2, <3>2 DEF QueueRelative
    <3>3. CASE queue'[e] # queue[e]
      <4>1. PICK s \in Samples : queue'[e] = Append(queue[e], s) /\ s.base = start_time
        BY <1>10, <3>1, <3>3, SaveAppends
      <4>2. i \in 1 .. Len(queue[e]) + 1
        BY <2>2, <3>1, <4>1
      <4>3. CASE i = Len(queue[e]) + 1
        BY <3>1, <4>1, <4>3
      <4>4. CASE i # Len(queue[e]) + 1
        <5>1. i \in DOMAIN queue[e] /\ queue'[e][i] = queue[e][i]
          BY <3>1, <4>1, <4>2, <4>4
        <5> QED
          BY <5>1 DEF QueueRelative
      <4> QED
        BY <4>3, <4>4
    <3> QED
      BY <3>2, <3>3
  <2>3. QueueRelative'
    BY <2>1, <2>2 DEF QueueRelative
  <2> QED
    BY <2>1, <2>3
<1> QED
  BY <1>1, <1>2, <1>3, <1>4, <1>5, <1>6, <1>7, <1>8, <1>9, <1>10
     DEF Client, CallContinues

\* Once StartMeasurement has visited a queue every sample in it, saved before,
\* during or after that visit, is relative to the start time, for a client that
\* keeps to the documented order.
THEOREM QueueIsRelative ==
  ASSUME DocumentedOrder
  PROVE  Spec => []QueueRelative
<1>1. Init => RelativeInv
  BY DEF Init, RelativeInv, QueueRelative
<1>2. TypeOK /\ RelativeInv /\ [Next]_vars => RelativeInv'
  <2>1. RelativeInv /\ UNCHANGED vars => RelativeInv'
    BY DEF RelativeInv, QueueRelative, vars, cacheVars, clientVars, writerVars,
           queueVars
  <2> QED
    BY <2>1, WorkRelativeInv, ClientRelativeInv DEF Next
<1>3. RelativeInv => QueueRelative
  BY DEF RelativeInv
<1> QED
  BY <1>1, <1>2, <1>3, TypeCorrect, PTL DEF Spec
-----------------------------------------------------------------------------
(* Fifo: sequences in order *)

LEMMA Numbered ==
  ASSUME NEW a \in Seq(Samples), NEW i \in 1 .. Len(a)
  PROVE  a[i] \in Samples /\ a[i].n \in Nat
<1>1. a[i] \in Samples
  OBVIOUS
<1> QED
  BY <1>1 DEF Samples

LEMMA ConcatIndex ==
  ASSUME NEW a \in Seq(Samples), NEW b \in Seq(Samples), NEW i \in 1 .. Len(a \o b)
  PROVE  \/ i \in 1 .. Len(a) /\ (a \o b)[i] = a[i]
         \/ i - Len(a) \in 1 .. Len(b) /\ (a \o b)[i] = b[i - Len(a)]
<1>1. Len(a \o b) = Len(a) + Len(b) /\ Len(a) \in Nat /\ Len(b) \in Nat
  OBVIOUS
<1>2. CASE i <= Len(a)
  BY <1>1, <1>2
<1>3. CASE i > Len(a)
  BY <1>1, <1>3
<1> QED
  BY <1>1, <1>2, <1>3

\* Two sequences in order, one before the other, are in order end to end.
LEMMA ConcatOrder ==
  ASSUME NEW a \in Seq(Samples), NEW b \in Seq(Samples),
         InOrder(a), InOrder(b), Before(a, b)
  PROVE  InOrder(a \o b)
<1> DEFINE c == a \o b
<1> SUFFICES ASSUME NEW i \in 1 .. Len(c), NEW j \in 1 .. Len(c), i < j
             PROVE  c[i].n < c[j].n
  BY DEF InOrder
<1>0. Len(a) \in Nat
  OBVIOUS
<1>1. \/ i \in 1 .. Len(a) /\ c[i] = a[i]
      \/ i - Len(a) \in 1 .. Len(b) /\ c[i] = b[i - Len(a)]
  BY ConcatIndex
<1>2. \/ j \in 1 .. Len(a) /\ c[j] = a[j]
      \/ j - Len(a) \in 1 .. Len(b) /\ c[j] = b[j - Len(a)]
  BY ConcatIndex
<1> HIDE DEF c
<1>3. CASE i \in 1 .. Len(a) /\ j \in 1 .. Len(a)
  BY <1>0, <1>1, <1>2, <1>3 DEF InOrder
<1>4. CASE i \in 1 .. Len(a) /\ j \notin 1 .. Len(a)
  BY <1>0, <1>1, <1>2, <1>4 DEF Before
<1>5. CASE i \notin 1 .. Len(a)
  <2>1. i - Len(a) \in 1 .. Len(b) /\ c[i] = b[i - Len(a)]
    BY <1>1, <1>5
  <2>2. i \in Int /\ j \in Int /\ j \notin 1 .. Len(a)
    BY <1>0, <2>1
  <2>3. j - Len(a) \in 1 .. Len(b) /\ c[j] = b[j - Len(a)]
    BY <1>2, <2>2
  <2>4. i - Len(a) < j - Len(a)
    BY <1>0, <2>2
  <2> QED
    BY <2>1, <2>3, <2>4 DEF InOrder
<1> QED
  BY <1>3, <1>4, <1>5

LEMMA ConcatBefore ==
  ASSUME NEW a \in Seq(Samples), NEW b \in Seq(Samples), NEW c \in Seq(Samples)
  PROVE  /\ Before(a, c) /\ Before(b, c) => Before(a \o b, c)
         /\ Before(c, a) /\ Before(c, b) => Before(c, a \o b)
<1>1. ASSUME NEW i \in 1 .. Len(a \o b)
      PROVE  \/ \E k \in 1 .. Len(a) : (a \o b)[i] = a[k]
             \/ \E k \in 1 .. Len(b) : (a \o b)[i] = b[k]
  BY ConcatIndex
<1> QED
  BY <1>1 DEF Before

LEMMA ConcatUpTo ==
  ASSUME NEW a \in Seq(Samples), NEW b \in Seq(Samples), NEW n,
         UpTo(a, n), UpTo(b, n)
  PROVE  UpTo(a \o b, n)
<1>1. ASSUME NEW i \in 1 .. Len(a \o b)
      PROVE  \/ \E k \in 1 .. Len(a) : (a \o b)[i] = a[k]
             \/ \E k \in 1 .. Len(b) : (a \o b)[i] = b[k]
  BY ConcatIndex
<1> QED
  BY <1>1 DEF UpTo

LEMMA EmptyOrder ==
  ASSUME NEW a
  PROVE  InOrder(<<>>) /\ Before(a, <<>>) /\ Before(<<>>, a) /\ UpTo(<<>>, a)
BY DEF InOrder, Before, UpTo

\* What is left of a queue is as much in order as the queue.
LEMMA SuffixOrder ==
  ASSUME NEW r \in Seq(Samples), NEW q \in Seq(Samples), IsTailOf(r, q), NEW a, NEW n
  PROVE  /\ InOrder(q) => InOrder(r)
         /\ Before(a, q) => Before(a, r)
         /\ UpTo(q, n) => UpTo(r, n)
<1> PICK k \in Nat : \A i \in 1 .. Len(r) : i + k \in 1 .. Len(q) /\ r[i] = q[i + k]
  BY DEF IsTailOf
<1>1. ASSUME InOrder(q), NEW i \in 1 .. Len(r), NEW j \in 1 .. Len(r), i < j
      PROVE  r[i].n < r[j].n
  <2>1. i + k < j + k
    BY <1>1
  <2> QED
    BY <1>1, <2>1 DEF InOrder
<1> QED
  BY <1>1 DEF InOrder, Before, UpTo

\* A new sample with a higher number than any other goes to the end.
LEMMA AppendOrder ==
  ASSUME NEW q \in Seq(Samples), NEW s \in Samples, NEW n \in Nat, s.n = n + 1,
         NEW a \in Seq(Samples), UpTo(a, n), UpTo(q, n)
  PROVE  /\ InOrder(q) => InOrder(Append(q, s))
         /\ Before(a, q) => Before(a, Append(q, s))
         /\ UpTo(Append(q, s), n + 1) /\ UpTo(a, n + 1)
<1> DEFINE r == Append(q, s)
<1>1. /\ Len(q) \in Nat /\ Len(r) = Len(q) + 1 /\ r[Len(q) + 1] = s
      /\ \A i \in 1 .. Len(q) : r[i] = q[i]
  OBVIOUS
<1>2. /\ \A i \in 1 .. Len(q) : q[i].n \in Nat /\ q[i].n <= n
      /\ \A i \in 1 .. Len(a) : a[i].n \in Nat /\ a[i].n <= n
  BY Numbered DEF UpTo
<1> HIDE DEF r
<1>3. ASSUME InOrder(q), NEW i \in 1 .. Len(r), NEW j \in 1 .. Len(r), i < j
      PROVE  r[i].n < r[j].n
  <2>1. i \in 1 .. Len(q) /\ (j \in 1 .. Len(q) \/ j = Len(q) + 1)
    BY <1>1, <1>3
  <2>2. CASE j \in 1 .. Len(q)
    BY <1>1, <1>3, <2>1, <2>2 DEF InOrder
  <2>3. CASE j = Len(q) + 1
    BY <1>1, <1>2, <2>1, <2>3
  <2> QED
    BY <2>1, <2>2, <2>3
<1>4. ASSUME Before(a, q), NEW i \in 1 .. Len(a), NEW j \in 1 .. Len(r)
      PROVE  a[i].n < r[j].n
  <2>1. CASE j \in 1 .. Len(q)
    BY <1>1, <1>4, <2>1 DEF Before
  <2>2. CASE j = Len(q) + 1
    BY <1>1, <1>2, <2>2
  <2> QED
    BY <1>1, <2>1, <2>2
<1>5. ASSUME NEW j \in 1 .. Len(r) PROVE r[j].n <= n + 1
  <2>1. CASE j \in 1 .. Len(q)
    BY <1>1, <1>2, <2>1
  <2>2. CASE j = Len(q) + 1
    BY <1>1, <2>2
  <2> QED
    BY <1>1, <2>1, <2>2
<1>6. UpTo(a, n + 1)
  BY <1>2 DEF UpTo
<1>7. (InOrder(q) => InOrder(r)) /\ (Before(a, q) => Before(a, r)) /\ UpTo(r, n + 1)
  BY <1>3, <1>4, <1>5 DEF InOrder, Before, UpTo
<1> QED
  BY <1>6, <1>7 DEF r

\* Making samples relative does not change their numbers.
LEMMA RestampOrder ==
  ASSUME NEW q \in Seq(Samples), NEW start \in Times, NEW a, NEW n
  PROVE  /\ InOrder(q) => InOrder(RecalculateTimeMaster(q, start))
         /\ Before(a, q) => Before(a, RecalculateTimeMaster(q, start))
         /\ UpTo(q, n) => UpTo(RecalculateTimeMaster(q, start), n)
<1>1. /\ Len(RecalculateTimeMaster(q, start)) = Len(q)
      /\ \A i \in 1 .. Len(q) : RecalculateTimeMaster(q, start)[i].n = q[i].n
  BY RecalculateKeeps
<1> QED
  BY <1>1 DEF InOrder, Before, UpTo

\* The first sample of a queue in order is before the others.
LEMMA HeadOrder ==
  ASSUME NEW q \in Seq(Samples), q # <<>>, InOrder(q), NEW a, NEW n
  PROVE  /\ InOrder(<<Head(q)>>) /\ Before(<<Head(q)>>, Tail(q))
         /\ Before(a, q) => Before(a, <<Head(q)>>)
         /\ UpTo(q, n) => UpTo(<<Head(q)>>, n)
<1>1. /\ Len(q) \in Nat /\ Len(q) >= 1 /\ Head(q) = q[1]
      /\ Len(Tail(q)) = Len(q) - 1
      /\ \A i \in 1 .. Len(Tail(q)) : Tail(q)[i] = q[i + 1]
  BY HeadTailProperties, EmptySeq
<1> DEFINE h == <<Head(q)>>
<1>2. Len(h) = 1 /\ h[1] = q[1]
  BY <1>1
<1> HIDE DEF h
<1>3. Before(h, Tail(q))
  <2> SUFFICES ASSUME NEW i \in 1 .. Len(h), NEW j \in 1 .. Len(Tail(q))
               PROVE  h[i].n < Tail(q)[j].n
    BY DEF Before
  <2>1. i = 1 /\ 1 \in 1 .. Len(q) /\ j + 1 \in 1 .. Len(q) /\ 1 < j + 1
    BY <1>1, <1>2
  <2>2. q[1].n < q[j + 1].n
    BY <2>1 DEF InOrder
  <2> QED
    BY <1>1, <1>2, <2>1, <2>2
<1>4. InOrder(h)
  BY <1>2 DEF InOrder
<1>5. (Before(a, q) => Before(a, h)) /\ (UpTo(q, n) => UpTo(h, n))
  BY <1>1, <1>2 DEF Before, UpTo
<1> QED
  BY <1>3, <1>4, <1>5 DEF h
-----------------------------------------------------------------------------
(* Fifo: the steps *)

\* The steps that neither take nor write a sample leave the file alone, and
\* what the thread holds.
LEMMA WorkMovesOne ==
  ASSUME TypeOK, OrderInv, Work, ~WriteSample
  PROVE  /\ UNCHANGED <<file, saved, call>>
         /\ hand' # <<>> => TakeSample
         /\ pc' # "write" => hand' = <<>>
         /\ call = "initOpen" => pc' = "none"
<1> USE DEF clientVars, fileVars
<1>1. pc # "write" => hand = <<>>
  BY DEF OrderInv
<1>2. call = "initOpen" => pc = "none"
  BY DEF OrderInv
<1>3. UNCHANGED <<saved, call>>
  BY DEF Work
<1>4. CASE Wake \/ CleanAll \/ EndRound
  BY <1>1, <1>2, <1>3, <1>4 DEF Wake, CleanAll, EndRound
<1>5. ASSUME NEW d \in DataGroups,
             TrimStep(d) \/ SkipStep(d) \/ ResetStep(d) \/ SaveStep(d)
      PROVE  /\ UNCHANGED <<file, hand>>
             /\ pc' # "write" => hand' = <<>>
             /\ hand = <<>> /\ call # "initOpen"
  BY <1>1, <1>2, <1>5 DEF TrimStep, SkipStep, ResetStep, SaveStep, Visit
<1>6. CASE OpenFile \/ OpenFails \/ LockAndTrim \/ EndDrain \/ UpdateAndClose
  BY <1>1, <1>2, <1>3, <1>6
     DEF OpenFile, OpenFails, LockAndTrim, EndDrain, UpdateAndClose, UpdateAndCloseFile
<1>7. CASE TakeSample
  BY <1>1, <1>2, <1>3, <1>7 DEF TakeSample
<1> QED
  BY <1>3, <1>4, <1>5, <1>6, <1>7 DEF Work, WorkThread, SaveSteps

LEMMA WorkOrderInv == TypeOK /\ OrderInv /\ Work => OrderInv'
<1> SUFFICES ASSUME TypeOK, OrderInv, Work PROVE OrderInv'
  OBVIOUS
<1>1. TypeOK'
  BY WorkTypeOK
<1>2. ASSUME NEW d \in DataGroups
      PROVE  /\ file[d] \in Seq(Samples) /\ Hand(d) \in Seq(Samples)
             /\ queue[d] \in Seq(Samples) /\ queue'[d] \in Seq(Samples)
             /\ Chain(file[d], Hand(d), queue[d])
             /\ UpTo(file[d], saved) /\ UpTo(Hand(d), saved) /\ UpTo(queue[d], saved)
  <2>1. file[d] \in Seq(Samples) /\ hand \in Seq(Samples) /\ queue[d] \in Seq(Samples)
    BY DEF TypeOK
  <2>2. queue'[d] \in Seq(Samples)
    BY <1>1 DEF TypeOK
  <2> QED
    BY <2>1, <2>2 DEF OrderInv, Hand
<1>3. CASE WriteSample
  <2>0. pc = "write" /\ hand' = <<>> /\ pc' = "drain"
    BY <1>3 DEF WriteSample
  <2>1. UNCHANGED <<queue, current, saved, call>>
    BY <1>3 DEF WriteSample, Work, queueVars, clientVars
  <2>2. ASSUME NEW d \in DataGroups
        PROVE  /\ Chain(file'[d], Hand(d)', queue'[d])
               /\ UpTo(file'[d], saved) /\ UpTo(Hand(d)', saved) /\ UpTo(queue'[d], saved)
    <3>1. Hand(d)' = <<>> /\ file'[d] = file[d] \o Hand(d)
      <4>1. file' = [file EXCEPT ![current] = @ \o hand] /\ file \in [DataGroups -> Seq(Samples)]
        BY <1>3 DEF WriteSample, TypeOK
      <4>2. CASE d = current
        BY <2>0, <4>1, <4>2 DEF Hand
      <4>3. CASE d # current
        BY <1>2, <2>0, <2>1, <4>1, <4>3, ConcatEmptySeq DEF Hand
      <4> QED
        BY <4>2, <4>3
    <3>2. InOrder(file[d] \o Hand(d)) /\ UpTo(file[d] \o Hand(d), saved)
      BY <1>2, ConcatOrder, ConcatUpTo DEF Chain
    <3>3. Before(file[d] \o Hand(d), queue[d])
      BY <1>2, ConcatBefore DEF Chain
    <3> QED
      BY <1>2, <2>1, <3>1, <3>2, <3>3, EmptyOrder DEF Chain
  <2>3. call # "initOpen"
    BY <2>0 DEF OrderInv
  <2> QED
    BY <2>0, <2>1, <2>2, <2>3 DEF OrderInv
<1>4. CASE ~WriteSample
  <2>1. /\ UNCHANGED <<file, saved, call>>
        /\ hand' # <<>> => TakeSample
        /\ pc' # "write" => hand' = <<>>
        /\ call = "initOpen" => pc' = "none"
    BY <1>4, WorkMovesOne
  <2>2. ASSUME NEW d \in DataGroups
        PROVE  /\ InOrder(queue'[d]) /\ Before(file[d], queue'[d])
               /\ UpTo(queue'[d], saved)
    <3>1. IsTailOf(queue'[d], queue[d])
      BY WorkShortens
    <3> QED
      BY <1>2, <3>1, SuffixOrder DEF Chain
  <2>3. ASSUME NEW d \in DataGroups
        PROVE  /\ InOrder(Hand(d)') /\ Before(file[d], Hand(d)')
               /\ Before(Hand(d)', queue'[d]) /\ UpTo(Hand(d)', saved)
    <3>1. CASE Hand(d)' = <<>>
      BY <3>1, EmptyOrder
    <3>2. CASE Hand(d)' # <<>>
      <4>1. TakeSample /\ hand' # <<>> /\ d = current'
        BY <2>1, <3>2 DEF Hand
      <4>2. /\ queue[d] # <<>> /\ Hand(d)' = <<Head(queue[d])>>
            /\ queue'[d] = Tail(queue[d])
        BY <4>1 DEF TakeSample, Hand, TypeOK
      <4>3. /\ queue[d] \in Seq(Samples) /\ InOrder(queue[d])
            /\ Before(file[d], queue[d]) /\ UpTo(queue[d], saved)
        BY <1>2 DEF Chain
      <4> QED
        BY <4>2, <4>3, HeadOrder
    <3> QED
      BY <3>1, <3>2
  <2> QED
    BY <1>2, <2>1, <2>2, <2>3 DEF OrderInv, Chain
<1> QED
  BY <1>3, <1>4

LEMMA ClientOrderInv == TypeOK /\ OrderInv /\ Client => OrderInv'
<1> SUFFICES ASSUME TypeOK, OrderInv, Client PROVE OrderInv'
  OBVIOUS
<1> USE DEF cacheVars, writerVars, queueVars, threadVars, fileVars
<1>1. /\ UNCHANGED <<file, hand, current>>
      /\ pc' = pc \/ (pc' = "wait" /\ pc = "none")
      /\ call' = "initOpen" => pc' = "none"
  <2>1. CASE InitWrites
    BY <2>1 DEF InitWrites, OrderInv
  <2>2. CASE InitExit \/ StopExit
    BY <2>2 DEF InitExit, StopExit, ThreadJoined
  <2>3. CASE ~(InitWrites \/ InitExit \/ StopExit)
    BY <2>3 DEF Client, CallContinues, OrderInv, InitMeasurement, InitFails,
       StartMeasurement, StartSetsTime, StartRecalculates, StartReturns,
       StopMeasurement, FinalizeMeasurement, FinalizeWrites, CreateDataGroup,
       SaveSample
  <2> QED
    BY <2>1, <2>2, <2>3
<1>2. /\ pc' # "write" => hand' = <<>>
      /\ call' = "initOpen" => pc' = "none"
  BY <1>1 DEF OrderInv
<1>3. ASSUME NEW d \in DataGroups
      PROVE  /\ Hand(d)' = Hand(d) /\ file'[d] = file[d]
             /\ file[d] \in Seq(Samples) /\ Hand(d) \in Seq(Samples)
             /\ queue[d] \in Seq(Samples) /\ queue \in [DataGroups -> Seq(Samples)]
             /\ Chain(file[d], Hand(d), queue[d])
             /\ UpTo(file[d], saved) /\ UpTo(Hand(d), saved) /\ UpTo(queue[d], saved)
  <2>1. file[d] \in Seq(Samples) /\ hand \in Seq(Samples) /\ queue \in [DataGroups -> Seq(Samples)]
    BY DEF TypeOK
  <2> QED
    BY <1>1, <2>1 DEF OrderInv, Hand
<1>4. ASSUME NEW d \in DataGroups, queue'[d] = <<>>, UNCHANGED saved
      PROVE  /\ Chain(file'[d], Hand(d)', queue'[d])
             /\ UpTo(file'[d], saved') /\ UpTo(Hand(d)', saved') /\ UpTo(queue'[d], saved')
  BY <1>3, <1>4, EmptyOrder DEF Chain
<1>5. ASSUME NEW d \in DataGroups, queue'[d] = queue[d], UNCHANGED saved
      PROVE  /\ Chain(file'[d], Hand(d)', queue'[d])
             /\ UpTo(file'[d], saved') /\ UpTo(Hand(d)', saved') /\ UpTo(queue'[d], saved')
  BY <1>3, <1>5 DEF Chain
<1>6. CASE InitExit \/ StopExit
  <2>1. UNCHANGED saved /\ \A d \in DataGroups : queue'[d] = <<>>
    BY <1>6 DEF InitExit, StopExit, ThreadJoined
  <2> QED
    BY <1>2, <1>4, <2>1 DEF OrderInv
<1>7. ASSUME NEW e \in DataGroups, StartRecalculates(e) PROVE OrderInv'
  <2>1. /\ queue' = [queue EXCEPT ![e] = RecalculateTimeMaster(@, start_time)]
        /\ UNCHANGED saved
    BY <1>7 DEF StartRecalculates
  <2>2. ASSUME NEW d \in DataGroups
        PROVE  /\ Chain(file'[d], Hand(d)', queue'[d])
               /\ UpTo(file'[d], saved') /\ UpTo(Hand(d)', saved') /\ UpTo(queue'[d], saved')
    <3>1. CASE d = e
      <4>1. queue'[d] = RecalculateTimeMaster(queue[d], start_time) /\ start_time \in Times
        BY <1>3, <2>1, <3>1 DEF TypeOK
      <4>2. /\ InOrder(queue'[d]) /\ UpTo(queue'[d], saved)
            /\ Before(file[d], queue'[d]) /\ Before(Hand(d), queue'[d])
        BY <1>3, <4>1, RestampOrder DEF Chain
      <4> QED
        BY <1>3, <2>1, <4>2 DEF Chain
    <3>2. CASE d # e
      BY <1>3, <1>5, <2>1, <3>2
    <3> QED
      BY <3>1, <3>2
  <2> QED
    BY <1>2, <2>2 DEF OrderInv
<1>8. ASSUME NEW c, NEW t \in Clock, SaveSample(c, t) PROVE OrderInv'
  <2>1. saved' = saved + 1 /\ saved \in Nat
    BY <1>8 DEF SaveSample, TypeOK
  <2>2. ASSUME NEW d \in DataGroups
        PROVE  /\ Chain(file'[d], Hand(d)', queue'[d])
               /\ UpTo(file'[d], saved') /\ UpTo(Hand(d)', saved') /\ UpTo(queue'[d], saved')
    <3>1. ASSUME NEW a \in Seq(Samples), UpTo(a, saved) PROVE UpTo(a, saved + 1)
      BY <2>1, <3>1, Numbered DEF UpTo
    <3>2. CASE queue'[d] = queue[d]
      BY <1>3, <2>1, <3>1, <3>2
    <3>3. CASE queue'[d] # queue[d]
      <4>1. PICK s \in Samples : queue'[d] = Append(queue[d], s) /\ s.n = saved + 1
        BY <1>8, <3>3, SaveAppends
      <4>2. /\ InOrder(queue'[d]) /\ UpTo(queue'[d], saved + 1)
            /\ Before(file[d], queue'[d]) /\ Before(Hand(d), queue'[d])
        <5>1. /\ InOrder(queue[d]) /\ UpTo(queue[d], saved)
              /\ Before(file[d], queue[d]) /\ UpTo(file[d], saved)
              /\ Before(Hand(d), queue[d]) /\ UpTo(Hand(d), saved)
              /\ file[d] \in Seq(Samples) /\ Hand(d) \in Seq(Samples)
              /\ queue[d] \in Seq(Samples)
          BY <1>3 DEF Chain
        <5>2. /\ InOrder(Append(queue[d], s)) /\ UpTo(Append(queue[d], s), saved + 1)
              /\ Before(file[d], Append(queue[d], s))
          BY ONLY <2>1, <4>1, <5>1, s \in Samples, AppendOrder, Zenon
        <5>3. Before(Hand(d), Append(queue[d], s))
          BY ONLY <2>1, <4>1, <5>1, s \in Samples, AppendOrder, Zenon
        <5> QED
          BY <4>1, <5>2, <5>3
      <4> QED
        BY <1>3, <2>1, <3>1, <4>2 DEF Chain
    <3> QED
      BY <3>2, <3>3
  <2> QED
    BY <1>2, <2>2 DEF OrderInv
<1>9. CASE UNCHANGED <<queue, saved>>
  BY <1>2, <1>5, <1>9 DEF OrderInv
<1> QED
  BY <1>6, <1>7, <1>8, <1>9
     DEF Client, CallContinues, InitMeasurement, InitFails, InitWrites,
         StartMeasurement, StartSetsTime, StartReturns, StopMeasurement,
         FinalizeMeasurement, FinalizeWrites, CreateDataGroup

LEMMA InitOrderInv == Init => OrderInv
<1> SUFFICES ASSUME Init PROVE OrderInv
  OBVIOUS
<1>1. ASSUME NEW d \in DataGroups
      PROVE  file[d] = <<>> /\ Hand(d) = <<>> /\ queue[d] = <<>>
  BY DEF Init, Hand
<1> QED
  BY <1>1, EmptyOrder DEF Init, OrderInv, Chain

LEMMA OrderGivesFifo == TypeOK /\ OrderInv => Fifo
<1> SUFFICES ASSUME TypeOK, OrderInv, NEW d \in DataGroups PROVE InOrder(Recorded(d))
  BY DEF Fifo
<1>1. /\ file[d] \in Seq(Samples) /\ Hand(d) \in Seq(Samples) /\ queue[d] \in Seq(Samples)
      /\ Chain(file[d], Hand(d), queue[d])
  BY DEF TypeOK, OrderInv, Hand
<1>2. InOrder(Pending(d)) /\ Pending(d) \in Seq(Samples)
  BY <1>1, ConcatOrder DEF Chain, Pending
<1>3. Before(file[d], Pending(d))
  BY <1>1, ConcatBefore DEF Chain, Pending
<1> QED
  BY <1>1, <1>2, <1>3, ConcatOrder DEF Chain, Recorded

\* Whatever the work thread, StartMeasurement and the sampling threads do, the
\* file, the sample being written and the queue hold the samples of a data group
\* in the order they were saved and none of them twice.  It holds for a client
\* that calls in any order.
THEOREM FifoKept == Spec => []Fifo
<1>1. TypeOK /\ OrderInv /\ [Next]_vars => OrderInv'
  <2>1. OrderInv /\ UNCHANGED vars => OrderInv'
    BY DEF OrderInv, Chain, Before, InOrder, UpTo, Hand, vars, cacheVars,
           clientVars, writerVars, queueVars, threadVars, fileVars
  <2> QED
    BY <2>1, WorkOrderInv, ClientOrderInv DEF Next
<1> QED
  BY <1>1, OrderGivesFifo, InitOrderInv, TypeCorrect, PTL DEF Spec
-----------------------------------------------------------------------------
(* What TrimQueue removes *)

\* Every sample that is popped was allowed to be: the popped samples are those
\* before the first one that stops the trimming.
LEMMA PoppedMayGo ==
  ASSUME NEW q \in Seq(Samples), NEW start
  PROVE  \A j \in 1 .. Popped(q, start) : j \in 1 .. Len(q) /\ ~StopsTrim(q, j, start)
<1> DEFINE P == {i \in 1 .. Len(q) : \A j \in 1 .. i : ~StopsTrim(q, j, start)}
<1> SUFFICES ASSUME NEW j \in 1 .. Popped(q, start)
             PROVE  j \in 1 .. Len(q) /\ ~StopsTrim(q, j, start)
  OBVIOUS
<1>1. Len(q) \in Nat /\ Popped(q, start) \in Nat
  BY PoppedType
<1>2. Popped(q, start) = Cardinality(P)
  BY DEF Popped
<1> HIDE DEF P
<1>3. ASSUME j \notin P PROVE FALSE
  <2>1. P \subseteq 1 .. j - 1
    <3> SUFFICES ASSUME NEW i \in P, i >= j PROVE FALSE
      BY <1>1 DEF P
    <3>1. i \in 1 .. Len(q) /\ \A k \in 1 .. i : ~StopsTrim(q, k, start)
      BY DEF P
    <3>2. j \in 1 .. Len(q) /\ \A k \in 1 .. j : ~StopsTrim(q, k, start)
      BY <1>1, <3>1
    <3> QED
      BY <1>3, <3>2 DEF P
  <2>2. IsFiniteSet(1 .. j - 1) /\ Cardinality(1 .. j - 1) = j - 1
    <3>1. 1 \in Int /\ j - 1 \in Int
      BY <1>1
    <3>2. Cardinality(1 .. j - 1) = IF 1 > j - 1 THEN 0 ELSE (j - 1) - 1 + 1
      BY <3>1, FS_Interval
    <3> QED
      BY <1>1, <3>1, <3>2, FS_Interval
  <2>3. Cardinality(P) <= j - 1
    BY <2>1, <2>2, FS_Subset
  <2> QED
    BY <1>1, <1>2, <2>3
<1>4. j \in P
  BY <1>3
<1> QED
  BY <1>1, <1>4 DEF P

\* The unsigned difference is the difference where it does not wrap.
LEMMA MinusExact ==
  ASSUME NEW a \in Times, NEW b \in Times, b <= a
  PROVE  Minus(a, b) = a - b
<1>1. /\ Word \in Nat /\ Word > 0
      /\ a \in Nat /\ b \in Nat /\ a < Word
  BY WordAssumption DEF Times
<1> DEFINE c == a - b
<1>2. c \in Int /\ 0 <= c /\ c < Word
  BY <1>1
<1> HIDE DEF c
<1>3. c % Word = c
  BY <1>1, <1>2
<1> QED
  BY <1>3 DEF Minus, c

\* A sample goes only if the one after it lies before the pre-trigger time:
\* of the start time or, while that is 0, of any later one.
LEMMA TrimKeepsWindow ==
  ASSUME NEW q \in Seq(Samples), NEW start \in Times, NEW bound \in Times,
         start = 0 => InTime(q, bound),
         start # 0 => start > PreTrig /\ start = bound
  PROVE  \E k \in 0 .. Len(q) :
           /\ TrimQueue(q, start) = SubSeq(q, k + 1, Len(q))
           /\ \A j \in 1 .. k : j < Len(q) /\ q[j + 1].ts < bound - PreTrig
<1> DEFINE k == Popped(q, start)
<1>1. /\ k \in Nat /\ Len(q) \in Nat
      /\ \A j \in 1 .. k : j \in 1 .. Len(q) /\ ~StopsTrim(q, j, start)
  BY PoppedType, PoppedMayGo
<1>2. k <= Len(q)
  BY <1>1
<1>3. ASSUME NEW j \in 1 .. k PROVE j < Len(q) /\ q[j + 1].ts < bound - PreTrig
  <2>1. j \in 1 .. Len(q) /\ ~StopsTrim(q, j, start)
    BY <1>1
  <2>2. j < Len(q)
    BY <1>1, <2>1 DEF StopsTrim
  <2>3. j + 1 \in 1 .. Len(q) /\ Len(q) \in 1 .. Len(q)
    BY <1>1, <2>1, <2>2
  <2>4. q[j + 1].ts \in Times /\ q[Len(q)].ts \in Times
    <3>1. q[j + 1] \in Samples /\ q[Len(q)] \in Samples
      BY <2>3
    <3> QED
      BY <3>1 DEF Samples
  <2>5. Word \in Nat /\ PreTrig \in Nat /\ start \in Nat /\ bound \in Nat /\ start < Word
    BY WordAssumption, PreTrigAssumption DEF Times
  <2>6. CASE start = 0
    <3>1. Minus(q[Len(q)].ts, q[j + 1].ts) > PreTrig
      <4>1. ~(Minus(q[Len(q)].ts, q[j + 1].ts) <= PreTrig)
        BY <2>1, <2>6 DEF StopsTrim
      <4>2. Minus(q[Len(q)].ts, q[j + 1].ts) \in Int
        BY <2>4, <2>5, WordAssumption DEF Minus, Times
      <4> QED
        BY <2>5, <4>1, <4>2
    <3>2. q[j + 1].ts <= q[Len(q)].ts /\ q[Len(q)].ts <= bound
      BY <2>2, <2>3, <2>6, <1>1 DEF InTime
    <3>3. Minus(q[Len(q)].ts, q[j + 1].ts) = q[Len(q)].ts - q[j + 1].ts
      BY <2>4, <3>2, MinusExact
    <3> QED
      BY <2>2, <2>4, <2>5, <3>1, <3>2, <3>3 DEF Times
  <2>7. CASE start # 0
    <3>1. start > 0
      BY <2>5, <2>7
    <3>2. ~(q[j + 1].ts >= Minus(start, PreTrig))
      BY <2>1, <3>1 DEF StopsTrim
    <3>3. Minus(start, PreTrig) = start - PreTrig
      BY <2>5, <2>7, WordAssumption DEF Minus
    <3> QED
      BY <2>2, <2>4, <2>5, <2>7, <3>2, <3>3 DEF Times
  <2> QED
    BY <2>6, <2>7
<1>4. k \in 0 .. Len(q) /\ TrimQueue(q, start) = SubSeq(q, k + 1, Len(q))
  BY <1>1, <1>2 DEF TrimQueue
<1> HIDE DEF k
<1> QED
  BY <1>3, <1>4
-----------------------------------------------------------------------------
(* Queues and the samples put into them *)

\* A queue that loses its first samples still follows, and the samples that have
\* left it are accounted for if those that leave now are.
LEMMA DropKeeps ==
  ASSUME NEW q \in Seq(Samples), NEW a \in Seq(Samples), NEW r \in Seq(Samples),
         NEW k \in 0 .. Len(q), NEW held, NEW start,
         Len(r) = Len(q) - k, \A i \in 1 .. Len(r) : r[i] = q[k + i],
         Follows(q, a), Accounted(a, Len(a) - Len(q), held, start),
         \A j \in 1 .. k : \/ q[j].n \in held
                           \/ j < Len(q) /\ q[j + 1].ts < start - PreTrig
  PROVE  Follows(r, a) /\ Accounted(a, Len(a) - Len(r), held, start)
<1> DEFINE m == Len(a) - Len(q)
<1>1. /\ Len(a) \in Nat /\ Len(q) \in Nat /\ Len(r) \in Nat /\ k \in Nat
      /\ m \in Nat /\ Len(a) = m + Len(q) /\ Len(a) - Len(r) = m + k
  BY DEF Follows
<1>2. \A i \in 1 .. Len(q) : q[i].n = a[m + i].n /\ q[i].ts = a[m + i].ts
  BY <1>1 DEF Follows
<1>3. \A j \in 1 .. m : a[j].n \in held \/ (j < Len(a) /\ a[j + 1].ts < start - PreTrig)
  BY DEF Accounted
<1> HIDE DEF m
<1>4. Follows(r, a)
  <2>1. ASSUME NEW i \in 1 .. Len(r)
        PROVE  r[i].n = a[m + k + i].n /\ r[i].ts = a[m + k + i].ts
    <3>1. k + i \in 1 .. Len(q) /\ m + (k + i) = m + k + i
      BY <1>1
    <3> QED
      BY <1>2, <3>1
  <2> QED
    BY <1>1, <2>1 DEF Follows
<1>5. ASSUME NEW j \in 1 .. m + k
      PROVE  a[j].n \in held \/ (j < Len(a) /\ a[j + 1].ts < start - PreTrig)
  <2>1. CASE j <= m
    BY <1>1, <1>3, <2>1
  <2>2. CASE j > m
    <3> DEFINE i == j - m
    <3>1. i \in 1 .. k /\ i \in 1 .. Len(q) /\ m + i = j
      BY <1>1, <2>2
    <3>2. q[i].n = a[j].n
      BY <1>2, <3>1
    <3>3. i < Len(q) => j < Len(a) /\ q[i + 1].ts = a[j + 1].ts
      <4> SUFFICES ASSUME i < Len(q) PROVE j < Len(a) /\ q[i + 1].ts = a[j + 1].ts
        OBVIOUS
      <4>1. i + 1 \in 1 .. Len(q) /\ m + (i + 1) = j + 1 /\ j < Len(a)
        BY <1>1, <3>1
      <4> QED
        BY <1>2, <4>1
    <3> HIDE DEF i
    <3> QED
      BY <3>1, <3>2, <3>3
  <2> QED
    BY <1>1, <2>1, <2>2
<1> QED
  BY <1>1, <1>4, <1>5 DEF Accounted

\* TrimQueue drops samples that are not needed.
LEMMA TrimFollows ==
  ASSUME NEW q \in Seq(Samples), NEW a \in Seq(Samples), NEW held,
         NEW start \in Times, NEW bound \in Times,
         start = 0 => InTime(a, bound),
         start # 0 => start > PreTrig /\ start = bound,
         Follows(q, a), Accounted(a, Len(a) - Len(q), held, bound)
  PROVE  LET r == TrimQueue(q, start)
         IN  Follows(r, a) /\ Accounted(a, Len(a) - Len(r), held, bound)
<1>1. start = 0 => InTime(q, bound)
  <2> SUFFICES ASSUME start = 0 PROVE InTime(q, bound)
    OBVIOUS
  <2> DEFINE m == Len(a) - Len(q)
  <2>1. m \in Nat /\ Len(q) \in Nat /\ Len(a) = m + Len(q)
    BY DEF Follows
  <2>2. \A i \in 1 .. Len(q) : m + i \in 1 .. Len(a) /\ q[i].ts = a[m + i].ts
    BY <2>1 DEF Follows
  <2> HIDE DEF m
  <2>3. ASSUME NEW i \in 1 .. Len(q), NEW j \in 1 .. Len(q), i <= j
        PROVE  q[i].ts <= q[j].ts
    <3>1. m + i <= m + j
      BY <2>1, <2>3
    <3> QED
      BY <2>2, <3>1 DEF InTime
  <2>4. ASSUME NEW i \in 1 .. Len(q) PROVE q[i].ts <= bound
    BY <2>2 DEF InTime
  <2> QED
    BY <2>3, <2>4 DEF InTime
<1>2. PICK k \in 0 .. Len(q) :
        /\ TrimQueue(q, start) = SubSeq(q, k + 1, Len(q))
        /\ \A j \in 1 .. k : j < Len(q) /\ q[j + 1].ts < bound - PreTrig
  BY <1>1, TrimKeepsWindow
<1> DEFINE r == TrimQueue(q, start)
<1>3. r \in Seq(Samples)
  BY TrimIsTail
<1>4. Len(r) = Len(q) - k /\ \A i \in 1 .. Len(r) : r[i] = q[k + i]
  <2>1. Len(q) \in Nat /\ k \in Nat /\ \A i \in k + 1 .. Len(q) : q[i] \in Samples
    OBVIOUS
  <2>2. /\ Len(SubSeq(q, k + 1, Len(q))) = IF k + 1 <= Len(q) THEN Len(q) - k ELSE 0
        /\ \A i \in 1 .. Len(q) - k : SubSeq(q, k + 1, Len(q))[i] = q[k + i]
    BY <2>1, SubSeqProperties
  <2> QED
    BY <1>2, <2>1, <2>2
<1> HIDE DEF r
<1>5. Follows(r, a) /\ Accounted(a, Len(a) - Len(r), held, bound)
  BY <1>2, <1>3, <1>4, DropKeeps
<1> QED
  BY <1>5 DEF r

\* What is in the hand is stored.
LEMMA StoreFollows ==
  ASSUME NEW h \in Seq(Samples), NEW q \in Seq(Samples), NEW a \in Seq(Samples),
         NEW held, NEW start, NumbersOf(h) \subseteq held,
         Follows(h \o q, a), Accounted(a, Len(a) - Len(h \o q), held, start)
  PROVE  Follows(q, a) /\ Accounted(a, Len(a) - Len(q), held, start)
<1> DEFINE p == h \o q
<1>1. /\ Len(h) \in Nat /\ Len(q) \in Nat /\ Len(p) = Len(h) + Len(q) /\ p \in Seq(Samples)
      /\ \A i \in 1 .. Len(q) : p[Len(h) + i] = q[i]
      /\ \A j \in 1 .. Len(h) : p[j] = h[j]
  OBVIOUS
<1> HIDE DEF p
<1>2. /\ Len(h) \in 0 .. Len(p) /\ Len(q) = Len(p) - Len(h)
      /\ \A i \in 1 .. Len(q) : q[i] = p[Len(h) + i]
  BY <1>1
<1>3. \A j \in 1 .. Len(h) : p[j].n \in held
  BY <1>1 DEF NumbersOf
<1>4. Follows(p, a) /\ Accounted(a, Len(a) - Len(p), held, start)
  BY DEF p
<1> QED
  BY <1>1, <1>2, <1>3, <1>4, DropKeeps

\* AddSample puts a sample into the queue and into the history.
LEMMA AddFollows ==
  ASSUME NEW q \in Seq(Samples), NEW a \in Seq(Samples), NEW held, NEW start,
         NEW s \in Samples,
         Follows(q, a), Accounted(a, Len(a) - Len(q), held, start)
  PROVE  LET r == Append(q, s)
             b == Append(a, s)
         IN  Follows(r, b) /\ Accounted(b, Len(b) - Len(r), held, start)
<1> DEFINE r == Append(q, s)
           b == Append(a, s)
<1>1. /\ Len(q) \in Nat /\ Len(r) = Len(q) + 1 /\ r[Len(q) + 1] = s
      /\ \A i \in 1 .. Len(q) : r[i] = q[i]
      /\ Len(a) \in Nat /\ Len(b) = Len(a) + 1 /\ b[Len(a) + 1] = s
      /\ \A i \in 1 .. Len(a) : b[i] = a[i]
  OBVIOUS
<1>2. Len(q) <= Len(a) /\ Len(b) - Len(r) = Len(a) - Len(q)
  BY <1>1 DEF Follows
<1> HIDE DEF r, b
<1> DEFINE m == Len(a) - Len(q)
<1>3. ASSUME NEW i \in 1 .. Len(r) PROVE r[i].n = b[m + i].n /\ r[i].ts = b[m + i].ts
  <2>1. CASE i = Len(q) + 1
    <3>1. m + i = Len(a) + 1
      BY <1>1, <2>1
    <3> QED
      BY <1>1, <2>1, <3>1
  <2>2. CASE i \in 1 .. Len(q)
    <3>1. m + i \in 1 .. Len(a) /\ r[i] = q[i]
      BY <1>1, <1>2, <2>2
    <3>2. q[i].n = a[m + i].n /\ q[i].ts = a[m + i].ts
      BY <2>2 DEF Follows
    <3> QED
      BY <1>1, <3>1, <3>2
  <2> QED
    BY <1>1, <2>1, <2>2
<1>4. Follows(r, b)
  BY <1>1, <1>2, <1>3 DEF Follows
<1>5. ASSUME NEW j \in 1 .. m
      PROVE  b[j].n \in held \/ (j < Len(b) /\ b[j + 1].ts < start - PreTrig)
  <2>1. a[j].n \in held \/ (j < Len(a) /\ a[j + 1].ts < start - PreTrig)
    BY DEF Accounted
  <2>2. j \in 1 .. Len(a) /\ (j < Len(a) => j + 1 \in 1 .. Len(a))
    BY <1>1, <1>2
  <2> QED
    BY <1>1, <2>1, <2>2
<1>6. Accounted(b, Len(b) - Len(r), held, start)
  BY <1>2, <1>5 DEF Accounted
<1> QED
  BY <1>4, <1>6 DEF r, b

\* RecalculateTimeMaster changes neither numbers nor times.
LEMMA RecalculateFollows ==
  ASSUME NEW q \in Seq(Samples), NEW a \in Seq(Samples), NEW start \in Times,
         Follows(q, a)
  PROVE  LET r == RecalculateTimeMaster(q, start)
         IN  Len(r) = Len(q) /\ Follows(r, a)
<1> DEFINE r == RecalculateTimeMaster(q, start)
<1>1. Len(r) = Len(q) /\ Len(q) \in Nat /\ \A i \in 1 .. Len(q) : r[i].n = q[i].n
  BY RecalculateKeeps
<1>2. ASSUME NEW i \in 1 .. Len(q) PROVE r[i].ts = q[i].ts
  <2>1. q[i] \in Samples /\ r[i] = Relative(q[i], start)
    BY DEF RecalculateTimeMaster
  <2> QED
    BY <2>1 DEF Relative, Samples
<1> HIDE DEF r
<1>3. Follows(r, a)
  BY <1>1, <1>2 DEF Follows
<1> QED
  BY <1>1, <1>3 DEF r

\* Neither does it behind a sample in the hand.
LEMMA RecalculateBehind ==
  ASSUME NEW h \in Seq(Samples), NEW q \in Seq(Samples), NEW a \in Seq(Samples),
         NEW start \in Times, Follows(h \o q, a)
  PROVE  LET r == RecalculateTimeMaster(q, start)
         IN  Len(h \o r) = Len(h \o q) /\ Follows(h \o r, a)
<1> DEFINE r == RecalculateTimeMaster(q, start)
           p == h \o q
           b == h \o r
<1>1. /\ r \in Seq(Samples) /\ Len(r) = Len(q) /\ Len(q) \in Nat
      /\ \A i \in 1 .. Len(q) : r[i].n = q[i].n
  BY RecalculateKeeps
<1>2. ASSUME NEW i \in 1 .. Len(q) PROVE r[i].ts = q[i].ts
  <2>1. q[i] \in Samples /\ r[i] = Relative(q[i], start)
    BY DEF RecalculateTimeMaster
  <2> QED
    BY <2>1 DEF Relative, Samples
<1> HIDE DEF r
<1>3. /\ Len(h) \in Nat /\ Len(p) = Len(h) + Len(q) /\ Len(b) = Len(p)
      /\ \A i \in 1 .. Len(p) : p[i] = IF i <= Len(h) THEN h[i] ELSE q[i - Len(h)]
      /\ \A i \in 1 .. Len(p) : b[i] = IF i <= Len(h) THEN h[i] ELSE r[i - Len(h)]
  <2>1. /\ Len(p) = Len(h) + Len(q)
        /\ \A i \in 1 .. Len(h) + Len(q) : p[i] = IF i <= Len(h) THEN h[i] ELSE q[i - Len(h)]
    BY ConcatProperties
  <2>2. /\ Len(b) = Len(h) + Len(r)
        /\ \A i \in 1 .. Len(h) + Len(r) : b[i] = IF i <= Len(h) THEN h[i] ELSE r[i - Len(h)]
    <3>1. r \in Seq(Samples)
      BY <1>1
    <3> QED
      BY ONLY h \in Seq(Samples), <3>1, ConcatProperties DEF b
  <2> QED
    BY <1>1, <2>1, <2>2
<1> HIDE DEF p, b
<1>4. ASSUME NEW i \in 1 .. Len(p) PROVE b[i].n = p[i].n /\ b[i].ts = p[i].ts
  <2>1. CASE i <= Len(h)
    BY <1>3, <2>1
  <2>2. CASE ~(i <= Len(h))
    <3>1. i - Len(h) \in 1 .. Len(q)
      BY <1>1, <1>3, <2>2
    <3> QED
      BY <1>1, <1>2, <1>3, <2>2, <3>1
  <2> QED
    BY <2>1, <2>2
<1>5. Follows(p, a)
  BY DEF p
<1>6. Follows(b, a)
  BY <1>3, <1>4, <1>5 DEF Follows
<1> QED
  BY <1>3, <1>6 DEF p, b, r

\* More samples may be held, and the start time may only become later.
LEMMA AccountedLater ==
  ASSUME NEW a \in Seq(Samples), NEW k \in Int, k <= Len(a),
         NEW held, NEW held2, held \subseteq held2,
         NEW start \in Int, NEW start2 \in Int, start <= start2,
         Accounted(a, k, held, start)
  PROVE  Accounted(a, k, held2, start2)
<1> SUFFICES ASSUME NEW j \in 1 .. k, a[j].n \notin held2
             PROVE  j < Len(a) /\ a[j + 1].ts < start2 - PreTrig
  BY DEF Accounted
<1>1. j < Len(a) /\ a[j + 1].ts < start - PreTrig
  BY DEF Accounted
<1>2. a[j + 1].ts \in Int
  <2>1. j + 1 \in 1 .. Len(a)
    BY <1>1
  <2>2. a[j + 1] \in Samples
    BY <2>1
  <2> QED
    BY <2>2 DEF Samples, Times
<1>3. PreTrig \in Int
  BY PreTrigAssumption
<1> QED
  BY <1>1, <1>2, <1>3
-----------------------------------------------------------------------------
(* The start time *)

\* SaveSample puts the same sample into the queue and into the history.
LEMMA SaveAdds ==
  ASSUME TypeOK, NEW d, NEW t \in Clock, SaveSample(d, t), NEW e \in DataGroups
  PROVE  \/ queue'[e] = queue[e] /\ accepted'[e] = accepted[e]
         \/ \E s \in Samples : /\ queue'[e] = Append(queue[e], s)
                               /\ accepted'[e] = Append(accepted[e], s)
                               /\ s.n = saved + 1 /\ s.ts = t
<1> DEFINE s(q) == RecalculateTime([n |-> saved + 1, ts |-> t, base |-> 0],
                                   q \in masters, start_time)
<1>1. PICK queues \in QueuesFor(d) :
        /\ queue' = [q \in DataGroups |->
                       IF q \in queues THEN AddSample(queue[q], s(q)) ELSE queue[q]]
        /\ accepted' = [q \in DataGroups |->
                       IF q \in queues THEN AddSample(accepted[q], s(q)) ELSE accepted[q]]
  BY DEF SaveSample
<1>2. s(e) \in Samples /\ s(e).n = saved + 1 /\ s(e).ts = t
  <2>1. saved + 1 \in Nat /\ t \in Times /\ start_time \in Times
    <3>1. Clock \subseteq Times
      BY TimesInRange
    <3> QED
      BY <3>1 DEF TypeOK
  <2>2. 0 \in Times
    BY TimesInRange
  <2> QED
    BY <2>1, <2>2 DEF RecalculateTime, Relative, Samples
<1> HIDE DEF s
<1> QED
  BY <1>1, <1>2 DEF AddSample

LEMMA InTimeAppend ==
  ASSUME NEW a \in Seq(Samples), NEW t1 \in Times, NEW t2 \in Times, t1 <= t2,
         InTime(a, t1)
  PROVE  /\ InTime(a, t2)
         /\ \A s \in Samples : s.ts = t2 => InTime(Append(a, s), t2)
<1>1. \A i \in 1 .. Len(a) : a[i].ts \in Nat /\ a[i].ts <= t2
  <2> SUFFICES ASSUME NEW i \in 1 .. Len(a) PROVE a[i].ts \in Nat /\ a[i].ts <= t2
    OBVIOUS
  <2>1. a[i] \in Samples /\ a[i].ts <= t1
    BY DEF InTime
  <2> QED
    BY <2>1 DEF Samples, Times
<1>2. ASSUME NEW s \in Samples, s.ts = t2 PROVE InTime(Append(a, s), t2)
  <2> DEFINE b == Append(a, s)
  <2>1. /\ Len(a) \in Nat /\ Len(b) = Len(a) + 1 /\ b[Len(a) + 1] = s
        /\ \A i \in 1 .. Len(a) : b[i] = a[i]
    OBVIOUS
  <2> HIDE DEF b
  <2>2. \A i \in 1 .. Len(b) : b[i].ts <= t2
    BY <1>1, <1>2, <2>1 DEF Times
  <2>3. ASSUME NEW i \in 1 .. Len(b), NEW j \in 1 .. Len(b), i <= j
        PROVE  b[i].ts <= b[j].ts
    <3>1. CASE j = Len(a) + 1
      BY <1>2, <2>1, <2>2, <3>1
    <3>2. CASE j # Len(a) + 1
      <4>1. i \in 1 .. Len(a) /\ j \in 1 .. Len(a)
        BY <2>1, <2>3, <3>2
      <4> QED
        BY <2>1, <2>3, <4>1 DEF InTime
    <3> QED
      BY <3>1, <3>2
  <2>4. InTime(b, t2)
    BY <2>2, <2>3 DEF InTime
  <2> QED
    BY <2>4 DEF b
<1> QED
  BY <1>1, <1>2 DEF InTime

LEMMA WorkStartInv == StartInv /\ Work => StartInv'
<1>1. Work => UNCHANGED <<write_state, start_time, call, argument, now, accepted>>
  BY DEF Work, WorkThread, SaveSteps, clientVars, writerVars, Wake,
         CleanAll, EndRound, TrimStep, SkipStep, ResetStep, SaveStep, OpenFile,
         OpenFails, LockAndTrim, TakeSample, WriteSample, EndDrain, UpdateAndClose,
         UpdateAndCloseFile
<1> QED
  BY <1>1 DEF StartInv, InTime

LEMMA ClientStartInv ==
  ASSUME DocumentedOrder, ~ConcurrentSampling
  PROVE  TypeOK /\ StartInv /\ Client => StartInv'
<1> SUFFICES ASSUME TypeOK, StartInv, Client PROVE StartInv'
  OBVIOUS
<1> USE DEF StartInv, MayCall, cacheVars, writerVars
<1>0. /\ now \in Times /\ Clock \subseteq Times /\ PreTrig \in Nat
      /\ FirstTime \in Nat /\ FirstTime > PreTrig
      /\ \A d \in DataGroups : accepted[d] \in Seq(Samples)
  BY TimesInRange, PreTrigAssumption, WordAssumption, ClockAssumption DEF TypeOK
<1>t. ASSUME NEW t \in Clock
      PROVE  t \in Times /\ now <= t /\ t > PreTrig /\ t >= FirstTime
  <2>1. t \in Times /\ now \in Nat /\ t \in Nat /\ now <= t
    BY <1>0 DEF Clock, Times
  <2> QED
    BY <1>0, <2>1
<1>1. CASE InitMeasurement
  BY <1>1 DEF InitMeasurement
<1>2. CASE InitExit \/ StopExit
  BY <1>2 DEF InitExit, StopExit, ThreadJoined
<1>3. CASE InitFails
  BY <1>3 DEF InitFails
<1>4. CASE InitWrites
  <2>1. /\ write_state' = "Init" /\ start_time' = 0 /\ call' = "idle" /\ now' = now
        /\ \A d \in DataGroups : accepted'[d] = <<>>
    BY <1>4 DEF InitWrites
  <2> QED
    BY <2>1 DEF InTime
<1>5. ASSUME NEW t \in Clock, StartMeasurement(t) PROVE StartInv'
  <2>1. /\ call' = "startTime" /\ write_state' = "StartMeas" /\ argument' = t
        /\ now' = t /\ start_time' = start_time /\ accepted' = accepted
        /\ write_state = "Init"
    BY <1>5 DEF StartMeasurement
  <2>2. \A d \in DataGroups : InTime(accepted[d], t)
    BY <1>0, <1>t, InTimeAppend
  <2> QED
    BY <1>t, <2>1, <2>2
<1>6. CASE StartSetsTime
  <2>1. argument > PreTrig
    BY <1>0, <1>6 DEF StartSetsTime, Times
  <2> QED
    BY <1>6, <2>1 DEF StartSetsTime
<1>7. ASSUME NEW d, StartRecalculates(d) PROVE StartInv'
  BY <1>7 DEF StartRecalculates
<1>8. CASE StartReturns
  BY <1>8 DEF StartReturns
<1>9. ASSUME NEW t, StopMeasurement(t) PROVE StartInv'
  BY <1>9 DEF StopMeasurement
<1>11. CASE FinalizeMeasurement
  BY <1>11 DEF FinalizeMeasurement
<1>12. CASE FinalizeWrites
  BY <1>12 DEF FinalizeWrites
<1>13. ASSUME NEW d, CreateDataGroup(d) PROVE StartInv'
  BY <1>13 DEF CreateDataGroup
<1>14. ASSUME NEW d, NEW t \in Clock, SaveSample(d, t) PROVE StartInv'
  <2>1. /\ call = "idle" /\ now' = t
        /\ UNCHANGED <<call, write_state, start_time, argument>>
    BY <1>14 DEF SaveSample
  <2>2. ASSUME NEW e \in DataGroups PROVE InTime(accepted'[e], t)
    <3>1. \/ accepted'[e] = accepted[e]
          \/ \E s \in Samples : accepted'[e] = Append(accepted[e], s) /\ s.ts = t
      BY <1>14, SaveAdds
    <3>2. /\ InTime(accepted[e], t)
          /\ \A s \in Samples : s.ts = t => InTime(Append(accepted[e], s), t)
      <4>1. accepted[e] \in Seq(Samples) /\ InTime(accepted[e], now)
        BY <1>0
      <4>2. now \in Times /\ t \in Times /\ now <= t
        BY <1>0, <1>t
      <4> QED
        BY ONLY <4>1, <4>2, InTimeAppend
    <3> QED
      BY ONLY <3>1, <3>2
  <2> QED
    BY <1>t, <2>1, <2>2
<1> QED
  BY <1>1, <1>2, <1>3, <1>4, <1>5, <1>6, <1>7, <1>8, <1>9, <1>11, <1>12,
     <1>13, <1>14
     DEF Client, CallContinues
-----------------------------------------------------------------------------
(* PreTrigKept *)

LEMMA NumbersOfConcat ==
  ASSUME NEW a \in Seq(Samples), NEW b \in Seq(Samples)
  PROVE  NumbersOf(a \o b) = NumbersOf(a) \union NumbersOf(b)
<1> DEFINE c == a \o b
<1>1. /\ Len(a) \in Nat /\ Len(b) \in Nat /\ Len(c) = Len(a) + Len(b)
      /\ \A i \in 1 .. Len(a) : c[i] = a[i]
      /\ \A i \in 1 .. Len(b) : c[Len(a) + i] = b[i]
  OBVIOUS
<1> HIDE DEF c
<1>2. ASSUME NEW i \in 1 .. Len(c)
      PROVE  c[i].n \in NumbersOf(a) \union NumbersOf(b)
  <2>1. CASE i <= Len(a)
    BY <1>1, <2>1 DEF NumbersOf
  <2>2. CASE i > Len(a)
    <3> DEFINE k == i - Len(a)
    <3>1. k \in 1 .. Len(b) /\ Len(a) + k = i
      BY <1>1, <2>2
    <3> HIDE DEF k
    <3> QED
      BY <1>1, <3>1 DEF NumbersOf
  <2> QED
    BY <1>1, <2>1, <2>2
<1>3. ASSUME NEW i \in 1 .. Len(a) PROVE a[i].n \in NumbersOf(c)
  <2>1. i \in 1 .. Len(c) /\ c[i] = a[i]
    BY <1>1
  <2> QED
    BY <2>1 DEF NumbersOf
<1>4. ASSUME NEW i \in 1 .. Len(b) PROVE b[i].n \in NumbersOf(c)
  <2>1. Len(a) + i \in 1 .. Len(c) /\ c[Len(a) + i] = b[i]
    BY <1>1
  <2> QED
    BY <2>1 DEF NumbersOf
<1>5. NumbersOf(c) = NumbersOf(a) \union NumbersOf(b)
  BY <1>2, <1>3, <1>4 DEF NumbersOf
<1> QED
  BY <1>5 DEF c

LEMMA NumbersOfNone == NumbersOf(<<>>) = {}
BY DEF NumbersOf

LEMMA HandEmpty ==
  ASSUME TypeOK, hand = <<>>, NEW d \in DataGroups
  PROVE  Hand(d) = <<>> /\ Pending(d) = queue[d]
BY ConcatEmptySeq DEF TypeOK, Hand, Pending

LEMMA AppendToConcat ==
  ASSUME NEW S, NEW a \in Seq(S), NEW b \in Seq(S), NEW e \in S
  PROVE  a \o Append(b, e) = Append(a \o b, e)
<1> DEFINE t == <<e>>
<1>1. t \in Seq(S) /\ a \o b \in Seq(S)
  BY ConcatProperties
<1>2. Append(b, e) = b \o t /\ Append(a \o b, e) = (a \o b) \o t
  BY <1>1, AppendIsConcat
<1> HIDE DEF t
<1>3. (a \o b) \o t = a \o (b \o t)
  BY <1>1, ConcatAssociative
<1> QED
  BY <1>2, <1>3

LEMMA HeadOfQueue ==
  ASSUME NEW q \in Seq(Samples), q # <<>>
  PROVE  <<Head(q)>> \o Tail(q) = q
<1>1. Len(q) \in Nat \ {0}
  BY EmptySeq
<1>2. /\ Tail(q) = SubSeq(q, 2, Len(q)) /\ SubSeq(q, 1, Len(q)) = q
      /\ 1 \in 1 .. Len(q) /\ Len(q) \in 1 .. Len(q) /\ Head(q) = q[1]
  BY <1>1, TailIsSubSeq, SubSeqFull
<1>3. SubSeq(q, 1, Len(q)) = <<q[1]>> \o SubSeq(q, 1 + 1, Len(q))
  BY <1>2, SubSeqRecursiveFirst
<1> QED
  BY <1>2, <1>3

\* GetSample moves the first sample of the queue into the hand.
LEMMA TakePending ==
  ASSUME TypeOK, FlushInv, TakeSample, NEW d \in DataGroups
  PROVE  Pending(d)' = Pending(d)
<1>1. /\ pc = "drain" /\ hand = <<>> /\ queue[current] # <<>> /\ current \in DataGroups
      /\ queue \in [DataGroups -> Seq(Samples)]
      /\ hand' = <<Head(queue[current])>>
      /\ queue' = [queue EXCEPT ![current] = Tail(@)]
      /\ UNCHANGED current
  BY DEF TakeSample, FlushInv, IsAfterStop, TypeOK
<1>2. Pending(d) = queue[d] /\ queue[d] \in Seq(Samples)
  BY <1>1, HandEmpty
<1>3. CASE d = current
  <2> DEFINE q == queue[d]
  <2>1. Pending(d)' = <<Head(q)>> \o Tail(q)
    BY <1>1, <1>3 DEF Pending, Hand
  <2>2. q \in Seq(Samples) /\ q # <<>>
    BY <1>1, <1>2, <1>3
  <2>3. <<Head(q)>> \o Tail(q) = q
    BY <2>2, HeadOfQueue
  <2> QED
    BY <1>2, <2>1, <2>3
<1>4. CASE d # current
  <2>1. Pending(d)' = <<>> \o queue[d]
    BY <1>1, <1>4 DEF Pending, Hand
  <2> QED
    BY <1>2, <2>1, ConcatEmptySeq
<1> QED
  BY <1>3, <1>4


LEMMA KeptTypes ==
  ASSUME TypeOK, NEW d \in DataGroups
  PROVE  /\ queue[d] \in Seq(Samples) /\ accepted[d] \in Seq(Samples)
         /\ file[d] \in Seq(Samples) /\ Hand(d) \in Seq(Samples)
         /\ Start \in Times
BY DEF TypeOK, Hand, Start

\* Before the start time is set no sample is later than the earliest it can become.
LEMMA TrimsInTime ==
  ASSUME StartInv, write_state \in {"Init", "StartMeas"}, NEW d \in DataGroups
  PROVE  /\ start_time = 0 => InTime(accepted[d], Start)
         /\ start_time # 0 => start_time > PreTrig /\ start_time = Start
<1>1. ASSUME start_time = 0 PROVE InTime(accepted[d], Start)
  <2>1. InTime(accepted[d], now)
    BY DEF StartInv
  <2>2. Start = now
    <3>1. PreTrig \in Nat
      BY PreTrigAssumption
    <3>2. write_state = "StartMeas" => call = "startTime"
      BY <1>1, <3>1 DEF StartInv
    <3> QED
      BY <3>2 DEF StartInv, Start
  <2> QED
    BY <2>1, <2>2
<1>2. start_time # 0 => start_time > PreTrig /\ start_time = Start
  BY DEF StartInv, Start
<1> QED
  BY <1>1, <1>2

\* The work thread trims within the window, and what it takes stays pending until
\* it is in the file.
LEMMA WorkKeptInv == TypeOK /\ StartInv /\ FlushInv /\ KeptInv /\ Work => KeptInv'
<1> SUFFICES ASSUME TypeOK, StartInv, FlushInv, KeptInv, Work,
                    write_state' \in {"Init", "StartMeas"}, NEW d \in cache'
             PROVE  /\ Follows(Pending(d)', accepted'[d])
                    /\ Accounted(accepted'[d], Len(accepted'[d]) - Len(Pending(d)'),
                                 Held(d)', Start')
  BY DEF KeptInv
<1> USE DEF clientVars, writerVars, queueVars, fileVars
<1>1. UNCHANGED <<write_state, start_time, cache, call, argument, now, accepted>>
  BY DEF Work, WorkThread, SaveSteps, Wake, CleanAll, EndRound, TrimStep, SkipStep,
         ResetStep, SaveStep, OpenFile, OpenFails, LockAndTrim, TakeSample,
         WriteSample, EndDrain, UpdateAndClose, UpdateAndCloseFile
<1>2. d \in DataGroups /\ Start' = Start /\ accepted'[d] = accepted[d]
  BY <1>1 DEF TypeOK, Start
<1>3. /\ Follows(Pending(d), accepted[d])
      /\ Accounted(accepted[d], Len(accepted[d]) - Len(Pending(d)), Held(d), Start)
  BY <1>1 DEF KeptInv
<1>4. /\ queue[d] \in Seq(Samples) /\ accepted[d] \in Seq(Samples)
      /\ file[d] \in Seq(Samples) /\ Hand(d) \in Seq(Samples)
      /\ queue \in [DataGroups -> Seq(Samples)] /\ file \in [DataGroups -> Seq(Samples)]
      /\ Start \in Times /\ start_time \in Times
  BY <1>2, KeptTypes DEF TypeOK
<1>5. pc # "write" => hand = <<>>
  BY DEF FlushInv
<1>6. ASSUME Pending(d)' = Pending(d), file'[d] = file[d]
      PROVE  /\ Follows(Pending(d)', accepted'[d])
             /\ Accounted(accepted'[d], Len(accepted'[d]) - Len(Pending(d)'), Held(d)', Start')
  BY <1>2, <1>3, <1>6 DEF Held
<1>7. ASSUME hand = <<>>, hand' = <<>>, UNCHANGED file,
             queue'[d] = queue[d] \/ queue'[d] = TrimQueue(queue[d], start_time)
      PROVE  /\ Follows(Pending(d)', accepted'[d])
             /\ Accounted(accepted'[d], Len(accepted'[d]) - Len(Pending(d)'), Held(d)', Start')
  <2>1. Pending(d) = queue[d] /\ Pending(d)' = queue'[d] /\ Held(d)' = Held(d)
    <3>1. Pending(d) = <<>> \o queue[d] /\ Pending(d)' = <<>> \o queue'[d]
      BY <1>7 DEF Pending, Hand
    <3>2. queue'[d] \in Seq(Samples)
      BY <1>4, <1>7, TrimIsTail
    <3> QED
      BY <1>4, <1>7, <3>1, <3>2, ConcatEmptySeq DEF Held
  <2>2. CASE queue'[d] = queue[d]
    BY <1>2, <1>3, <2>1, <2>2
  <2>3. CASE queue'[d] = TrimQueue(queue[d], start_time)
    <3>1. /\ start_time = 0 => InTime(accepted[d], Start)
          /\ start_time # 0 => start_time > PreTrig /\ start_time = Start
      BY <1>1, <1>2, TrimsInTime
    <3> QED
      BY <1>2, <1>3, <1>4, <2>1, <2>3, <3>1, TrimFollows, ZenonT(60)
  <2> QED
    BY <1>7, <2>2, <2>3
<1>8. CASE TakeSample
  <2>1. Pending(d)' = Pending(d)
    BY <1>2, <1>8, TakePending
  <2>2. file'[d] = file[d]
    BY <1>8 DEF TakeSample
  <2> QED
    BY <1>6, <2>1, <2>2
<1>9. CASE WriteSample
  <2>1. /\ file' = [file EXCEPT ![current] = @ \o hand] /\ hand' = <<>>
        /\ UNCHANGED <<current, queue>>
    BY <1>9 DEF WriteSample
  <2>2. /\ Pending(d) = Hand(d) \o queue[d] /\ Pending(d)' = queue[d]
        /\ file'[d] = file[d] \o Hand(d)
    <3>1. Pending(d)' = <<>> \o queue[d]
      BY <2>1 DEF Pending, Hand
    <3>2. file'[d] = file[d] \o Hand(d)
      BY <1>2, <1>4, <2>1, ConcatEmptySeq DEF Hand
    <3> QED
      BY <1>4, <3>1, <3>2, ConcatEmptySeq DEF Pending
  <2>3. Held(d)' = Held(d) \union NumbersOf(Hand(d))
    BY <1>4, <2>2, NumbersOfConcat DEF Held
  <2>4. Accounted(accepted[d], Len(accepted[d]) - Len(Hand(d) \o queue[d]), Held(d)', Start)
    BY <1>3, <2>2, <2>3 DEF Accounted
  <2>5. /\ Follows(queue[d], accepted[d])
        /\ Accounted(accepted[d], Len(accepted[d]) - Len(queue[d]), Held(d)', Start)
    BY <1>3, <1>4, <2>2, <2>3, <2>4, StoreFollows
  <2> QED
    BY <1>2, <2>2, <2>5
<1>10. ASSUME NEW e \in DataGroups, TrimStep(e) \/ SkipStep(e) \/ SaveStep(e)
       PROVE  /\ Follows(Pending(d)', accepted'[d])
              /\ Accounted(accepted'[d], Len(accepted'[d]) - Len(Pending(d)'), Held(d)', Start')
  <2>1. hand = <<>> /\ hand' = <<>> /\ UNCHANGED file
    BY <1>5, <1>10 DEF TrimStep, SkipStep, SaveStep, Visit
  <2>2. queue' = queue \/ queue' = [queue EXCEPT ![e] = TrimQueue(@, start_time)]
    BY <1>10 DEF TrimStep, SkipStep, SaveStep
  <2> QED
    BY <1>2, <1>4, <1>7, <2>1, <2>2
<1>11. ASSUME NEW e \in DataGroups, ResetStep(e) PROVE FALSE
  BY <1>1, <1>11 DEF ResetStep
<1>12. CASE \/ Wake \/ CleanAll \/ EndRound \/ OpenFile \/ OpenFails \/ EndDrain
            \/ UpdateAndClose \/ LockAndTrim
  <2>1. hand = <<>> /\ hand' = <<>> /\ UNCHANGED file
    BY <1>5, <1>12 DEF Wake, CleanAll, EndRound, OpenFile, OpenFails, EndDrain,
                       UpdateAndClose, UpdateAndCloseFile, LockAndTrim
  <2>2. queue' = queue \/ queue' = [queue EXCEPT ![current] = TrimQueue(@, start_time)]
    BY <1>12 DEF Wake, CleanAll, EndRound, OpenFile, OpenFails, EndDrain,
                 UpdateAndClose, UpdateAndCloseFile, LockAndTrim
  <2> QED
    BY <1>2, <1>4, <1>7, <2>1, <2>2
<1> QED
  BY <1>8, <1>9, <1>10, <1>11, <1>12 DEF Work, WorkThread, SaveSteps

\* The start time a client can still give only moves on, and a new sample is put
\* behind those that have to be accounted for.
LEMMA ClientKeptInv ==
  ASSUME DocumentedOrder, ~ConcurrentSampling
  PROVE  TypeOK /\ StartInv /\ FlushInv /\ KeptInv /\ Client => KeptInv'
<1> SUFFICES ASSUME TypeOK, StartInv, FlushInv, KeptInv, Client,
                    write_state' \in {"Init", "StartMeas"}, NEW d \in cache'
             PROVE  /\ Follows(Pending(d)', accepted'[d])
                    /\ Accounted(accepted'[d], Len(accepted'[d]) - Len(Pending(d)'),
                                 Held(d)', Start')
  BY DEF KeptInv
<1> USE DEF MayCall, cacheVars, writerVars, queueVars, threadVars, fileVars
<1>1. TypeOK' /\ StartInv'
  BY ClientTypeOK, ClientStartInv
<1>2. /\ d \in DataGroups
      /\ queue[d] \in Seq(Samples) /\ accepted[d] \in Seq(Samples)
      /\ queue \in [DataGroups -> Seq(Samples)] /\ Start \in Int /\ Start' \in Int
      /\ now \in Nat /\ start_time \in Times
      /\ Hand(d) \in Seq(Samples) /\ Pending(d) \in Seq(Samples)
  <2>1. d \in DataGroups
    BY <1>1 DEF TypeOK
  <2>2. Start \in Times /\ Start' \in Times
    BY <1>1, <2>1 DEF TypeOK, Start
  <2>3. /\ queue[d] \in Seq(Samples) /\ accepted[d] \in Seq(Samples)
        /\ Hand(d) \in Seq(Samples)
    BY <2>1, KeptTypes
  <2>4. Pending(d) \in Seq(Samples)
    BY <2>3 DEF Pending
  <2> QED
    BY <2>1, <2>2, <2>3, <2>4 DEF TypeOK, Times
<1>3. ASSUME write_state \in {"Init", "StartMeas"}, d \in cache,
             Held(d)' = Held(d), Start <= Start'
      PROVE  /\ Follows(Pending(d), accepted[d])
             /\ Accounted(accepted[d], Len(accepted[d]) - Len(Pending(d)), Held(d)', Start')
  <2>1. /\ Follows(Pending(d), accepted[d])
        /\ Accounted(accepted[d], Len(accepted[d]) - Len(Pending(d)), Held(d), Start)
    BY <1>3 DEF KeptInv
  <2>2. /\ Len(accepted[d]) - Len(Pending(d)) \in Int
        /\ Len(accepted[d]) - Len(Pending(d)) <= Len(accepted[d])
    BY <1>2
  <2> QED
    BY <1>2, <1>3, <2>1, <2>2, AccountedLater
<1>4. ASSUME UNCHANGED <<file, hand, current>>
      PROVE  /\ Held(d)' = Held(d) /\ Hand(d)' = Hand(d)
             /\ queue'[d] = queue[d] => Pending(d)' = Pending(d)
  BY <1>4 DEF Held, Hand, Pending
<1>5. ASSUME UNCHANGED <<cache, write_state, queue, accepted, file, hand, current>>,
             Start <= Start'
      PROVE  /\ Follows(Pending(d)', accepted'[d])
             /\ Accounted(accepted'[d], Len(accepted'[d]) - Len(Pending(d)'), Held(d)', Start')
  BY <1>3, <1>4, <1>5
<1>6. CASE InitMeasurement \/ InitFails \/ FinalizeMeasurement \/ FinalizeWrites
  BY <1>6 DEF InitMeasurement, InitFails, FinalizeMeasurement, FinalizeWrites, StartInv
<1>7. CASE InitExit \/ StopExit
  BY <1>7 DEF InitExit, StopExit, ThreadJoined
<1>8. CASE InitWrites
  <2>1. accepted'[d] = <<>> /\ Pending(d)' = <<>>
    <3>1. accepted'[d] = <<>> /\ Pending(d)' = <<>> \o <<>>
      BY <1>2, <1>8 DEF InitWrites, FlushInv, Pending, Hand
    <3> QED
      BY <3>1
  <2> QED
    BY <2>1 DEF Follows, Accounted
<1>9. ASSUME NEW t \in Clock, StartMeasurement(t)
      PROVE  /\ Follows(Pending(d)', accepted'[d])
             /\ Accounted(accepted'[d], Len(accepted'[d]) - Len(Pending(d)'), Held(d)', Start')
  <2>1. Start = now /\ Start' = t /\ write_state = "Init"
    BY <1>9 DEF StartMeasurement, Start
  <2>2. now <= t
    BY <1>2 DEF Clock
  <2>3. UNCHANGED <<cache, queue, accepted, file, hand, current>>
    BY <1>9 DEF StartMeasurement
  <2> QED
    BY <1>3, <1>4, <2>1, <2>2, <2>3
<1>10. CASE StartSetsTime
  <2>1. Start' = Start
    BY <1>10 DEF StartSetsTime, StartInv, Start
  <2> QED
    BY <1>2, <1>5, <1>10, <2>1 DEF StartSetsTime
<1>11. ASSUME NEW e, StartRecalculates(e)
       PROVE  /\ Follows(Pending(d)', accepted'[d])
              /\ Accounted(accepted'[d], Len(accepted'[d]) - Len(Pending(d)'), Held(d)', Start')
  <2>1. /\ queue' = [queue EXCEPT ![e] = RecalculateTimeMaster(@, start_time)]
        /\ UNCHANGED <<cache, write_state, accepted, file, hand, current>>
        /\ Start' = Start
    BY <1>11 DEF StartRecalculates, Start
  <2>2. /\ Follows(Pending(d), accepted[d])
        /\ Accounted(accepted[d], Len(accepted[d]) - Len(Pending(d)), Held(d)', Start')
    BY <1>2, <1>3, <1>4, <2>1
  <2>3. \/ queue'[d] = queue[d]
        \/ queue'[d] = RecalculateTimeMaster(queue[d], start_time)
    BY <1>2, <2>1
  <2>4. Pending(d) = Hand(d) \o queue[d] /\ Pending(d)' = Hand(d) \o queue'[d]
    BY <1>4, <2>1 DEF Pending
  <2>5. CASE queue'[d] = queue[d]
    BY <2>1, <2>2, <2>4, <2>5
  <2>6. CASE queue'[d] = RecalculateTimeMaster(queue[d], start_time)
    <3>1. Follows(Hand(d) \o queue[d], accepted[d])
      BY <2>2, <2>4
    <3>2. /\ Len(Hand(d) \o queue'[d]) = Len(Hand(d) \o queue[d])
          /\ Follows(Hand(d) \o queue'[d], accepted[d])
      BY <1>2, <2>6, <3>1, RecalculateBehind
    <3> QED
      BY <2>1, <2>2, <2>4, <3>2
  <2> QED
    BY <2>3, <2>5, <2>6
<1>12. CASE StartReturns
  <2>1. Start' = Start
    BY <1>12 DEF StartReturns, Start
  <2> QED
    BY <1>2, <1>5, <1>12, <2>1 DEF StartReturns
<1>13. ASSUME NEW t, StopMeasurement(t)
       PROVE  /\ Follows(Pending(d)', accepted'[d])
              /\ Accounted(accepted'[d], Len(accepted'[d]) - Len(Pending(d)'), Held(d)', Start')
  <2>1. Start' = Start
    BY <1>13 DEF StopMeasurement, Start
  <2> QED
    BY <1>2, <1>5, <1>13, <2>1 DEF StopMeasurement
<1>14. ASSUME NEW e, CreateDataGroup(e) PROVE FALSE
  BY <1>14 DEF CreateDataGroup
<1>15. ASSUME NEW e, NEW t \in Clock, SaveSample(e, t)
       PROVE  /\ Follows(Pending(d)', accepted'[d])
              /\ Accounted(accepted'[d], Len(accepted'[d]) - Len(Pending(d)'), Held(d)', Start')
  <2>1. /\ call = "idle" /\ now' = t
        /\ UNCHANGED <<call, write_state, start_time, cache, file, hand, current>>
    BY <1>15 DEF SaveSample
  <2>2. Start <= Start'
    BY <1>2, <2>1 DEF Start, Clock, Times
  <2>3. /\ Follows(Pending(d), accepted[d])
        /\ Accounted(accepted[d], Len(accepted[d]) - Len(Pending(d)), Held(d)', Start')
    BY <1>3, <1>4, <2>1, <2>2
  <2>4. \/ queue'[d] = queue[d] /\ accepted'[d] = accepted[d]
        \/ \E s \in Samples :
             queue'[d] = Append(queue[d], s) /\ accepted'[d] = Append(accepted[d], s)
    BY <1>2, <1>15, SaveAdds
  <2>5. CASE queue'[d] = queue[d] /\ accepted'[d] = accepted[d]
    BY <1>4, <2>1, <2>3, <2>5
  <2>6. ASSUME NEW s \in Samples, queue'[d] = Append(queue[d], s),
               accepted'[d] = Append(accepted[d], s)
        PROVE  /\ Follows(Pending(d)', accepted'[d])
               /\ Accounted(accepted'[d], Len(accepted'[d]) - Len(Pending(d)'), Held(d)', Start')
    <3>1. Pending(d) = Hand(d) \o queue[d] /\ Pending(d)' = Hand(d) \o Append(queue[d], s)
      BY <1>4, <2>1, <2>6 DEF Pending
    <3>2. Pending(d)' = Append(Pending(d), s)
      BY <1>2, <2>6, <3>1, AppendToConcat
    <3> QED
      BY <1>2, <2>3, <2>6, <3>2, AddFollows
  <2> QED
    BY <2>4, <2>5, <2>6
<1> QED
  BY <1>6, <1>7, <1>8, <1>9, <1>10, <1>11, <1>12, <1>13, <1>14, <1>15
     DEF Client, CallContinues

\* What is still pending is in q.
LEMMA AccountedForAll ==
  ASSUME NEW q \in Seq(Samples), NEW a \in Seq(Samples), NEW held, NEW start,
         Follows(q, a), Accounted(a, Len(a) - Len(q), held, start)
  PROVE  \A i \in 1 .. Len(a) :
           \/ a[i].n \in held \union NumbersOf(q)
           \/ i < Len(a) /\ a[i + 1].ts < start - PreTrig
<1> SUFFICES ASSUME NEW i \in 1 .. Len(a), a[i].n \notin held \union NumbersOf(q)
             PROVE  i < Len(a) /\ a[i + 1].ts < start - PreTrig
  OBVIOUS
<1> DEFINE m == Len(a) - Len(q)
<1>1. Len(a) \in Nat /\ Len(q) \in Nat /\ m \in Nat /\ Len(a) = m + Len(q)
  BY DEF Follows
<1>2. \A k \in 1 .. Len(q) : q[k].n = a[m + k].n
  BY <1>1 DEF Follows
<1>3. \A j \in 1 .. m : a[j].n \in held \/ (j < Len(a) /\ a[j + 1].ts < start - PreTrig)
  BY DEF Accounted
<1> HIDE DEF m
<1>4. CASE i \in 1 .. m
  BY <1>3, <1>4
<1>5. CASE i > m
  <2> DEFINE k == i - m
  <2>1. k \in 1 .. Len(q) /\ m + k = i
    BY <1>1, <1>5
  <2> HIDE DEF k
  <2>2. a[i].n \in NumbersOf(q)
    BY <1>2, <2>1 DEF NumbersOf
  <2> QED
    BY <2>2
<1> QED
  BY <1>1, <1>4, <1>5

LEMMA KeptGivesPreTrig == TypeOK /\ KeptInv => PreTrigKept
<1> SUFFICES ASSUME TypeOK, KeptInv, write_state = "StartMeas", NEW d \in cache,
                    NEW i \in DOMAIN accepted[d],
                    ~\E j \in DOMAIN Recorded(d) : Recorded(d)[j].n = accepted[d][i].n
             PROVE  /\ i < Len(accepted[d])
                    /\ accepted[d][i + 1].ts < Start - PreTrig
  BY DEF PreTrigKept, Start
<1>1. /\ accepted[d] \in Seq(Samples) /\ file[d] \in Seq(Samples)
      /\ Pending(d) \in Seq(Samples)
  <2>1. d \in DataGroups
    BY DEF TypeOK
  <2> QED
    BY <2>1, KeptTypes DEF Pending
<1>2. NumbersOf(Recorded(d)) = Held(d) \union NumbersOf(Pending(d))
  BY <1>1, NumbersOfConcat DEF Recorded, Held
<1>3. accepted[d][i].n \notin NumbersOf(Recorded(d))
  <2>1. Recorded(d) \in Seq(Samples)
    BY <1>1 DEF Recorded
  <2> QED
    BY <2>1 DEF NumbersOf
<1>4. /\ Follows(Pending(d), accepted[d])
      /\ Accounted(accepted[d], Len(accepted[d]) - Len(Pending(d)), Held(d), Start)
  BY DEF KeptInv
<1>5. i \in 1 .. Len(accepted[d])
  BY <1>1
<1> QED
  BY <1>1, <1>2, <1>3, <1>4, <1>5, AccountedForAll

\* While a measurement runs, every sample from the last one before the pre-trigger
\* time on is in the queue, in the hand of the work thread or in the file: for a
\* client that keeps to the documented order and saves nothing while
\* StartMeasurement runs, TrimQueue takes no sample too many, whatever start time
\* it happens to see.
THEOREM PreTriggerKept ==
  ASSUME DocumentedOrder, ~ConcurrentSampling
  PROVE  Spec => []PreTrigKept
<1> DEFINE Inv == FlushInv /\ StartInv /\ KeptInv
<1>1. Init => Inv
  <2> SUFFICES ASSUME Init PROVE Inv
    OBVIOUS
  <2>1. FlushInv
    BY DEF Init, FlushInv, InFile
  <2>2. now = FirstTime /\ FirstTime \in Nat /\ \A d \in DataGroups : accepted[d] = <<>>
    BY ClockAssumption, PreTrigAssumption, WordAssumption DEF Init
  <2>3. StartInv
    BY <2>2 DEF Init, StartInv, InTime
  <2>4. KeptInv
    BY DEF Init, KeptInv
  <2> QED
    BY <2>1, <2>3, <2>4
<1>2. TypeOK /\ Inv /\ [Next]_vars => Inv'
  <2>1. FlushInv /\ UNCHANGED vars => FlushInv'
    BY DEF FlushInv, InFile, Flushed, Pending, Hand, vars, cacheVars, clientVars,
           writerVars, queueVars, threadVars, fileVars
  <2>2. StartInv /\ UNCHANGED vars => StartInv'
    BY DEF StartInv, InTime, vars, cacheVars, clientVars, writerVars
  <2>3. KeptInv /\ UNCHANGED vars => KeptInv'
    <3> SUFFICES ASSUME KeptInv, UNCHANGED vars PROVE KeptInv'
      OBVIOUS
    <3>1. /\ UNCHANGED <<write_state, cache, accepted>> /\ Start' = Start
          /\ \A d \in cache : Held(d)' = Held(d) /\ Pending(d)' = Pending(d)
      BY DEF Held, Pending, Hand, Start, vars, cacheVars, clientVars, writerVars, queueVars,
             threadVars, fileVars
    <3> QED
      BY <3>1 DEF KeptInv
  <2>4. TypeOK /\ Inv /\ Work => Inv'
    BY WorkFlushInv, WorkStartInv, WorkKeptInv
  <2>5. TypeOK /\ Inv /\ Client => Inv'
    BY ClientFlushInv, ClientStartInv, ClientKeptInv
  <2> QED
    BY <2>1, <2>2, <2>3, <2>4, <2>5 DEF Next
<1> QED
  BY <1>1, <1>2, KeptGivesPreTrig, TypeCorrect, PTL DEF Spec
-----------------------------------------------------------------------------
(* The times of the samples *)

LEMMA StampsType ==
  ASSUME NEW a \in Seq(Samples)
  PROVE  StampsOf(a) \subseteq Nat \X Nat
<1>1. \A i \in 1 .. Len(a) : a[i].n \in Nat /\ a[i].ts \in Nat
  <2> TAKE i \in 1 .. Len(a)
  <2>1. a[i] \in Samples
    BY Numbered
  <2> QED
    BY <2>1, WordAssumption DEF Samples, Times
<1> QED
  BY <1>1 DEF StampsOf

LEMMA StampsNone == StampsOf(<<>>) = {}
BY DEF StampsOf

LEMMA StampsTail ==
  ASSUME NEW r, NEW q, IsTailOf(r, q)
  PROVE  StampsOf(r) \subseteq StampsOf(q)
<1>1. PICK k \in Nat : \A i \in 1 .. Len(r) : i + k \in 1 .. Len(q) /\ r[i] = q[i + k]
  BY DEF IsTailOf
<1> QED
  BY <1>1 DEF StampsOf

LEMMA StampsConcat ==
  ASSUME NEW a \in Seq(Samples), NEW b \in Seq(Samples)
  PROVE  StampsOf(a \o b) \subseteq StampsOf(a) \union StampsOf(b)
<1> SUFFICES ASSUME NEW i \in 1 .. Len(a \o b)
             PROVE  <<(a \o b)[i].n, (a \o b)[i].ts>> \in StampsOf(a) \union StampsOf(b)
  BY DEF StampsOf
<1>1. CASE i \in 1 .. Len(a) /\ (a \o b)[i] = a[i]
  BY <1>1 DEF StampsOf
<1>2. CASE i - Len(a) \in 1 .. Len(b) /\ (a \o b)[i] = b[i - Len(a)]
  BY <1>2 DEF StampsOf
<1> QED
  BY <1>1, <1>2, ConcatIndex

LEMMA StampsAppend ==
  ASSUME NEW a \in Seq(Samples), NEW s \in Samples
  PROVE  StampsOf(Append(a, s)) \subseteq StampsOf(a) \union {<<s.n, s.ts>>}
<1>1. /\ Len(a) \in Nat /\ Len(Append(a, s)) = Len(a) + 1
      /\ Append(a, s)[Len(a) + 1] = s
      /\ \A i \in 1 .. Len(a) : Append(a, s)[i] = a[i]
  OBVIOUS
<1>2. \A i \in 1 .. Len(Append(a, s)) : i \in 1 .. Len(a) \/ i = Len(a) + 1
  BY <1>1
<1> QED
  BY <1>1, <1>2 DEF StampsOf

LEMMA StampsRecalculated ==
  ASSUME NEW q \in Seq(Samples), NEW start
  PROVE  StampsOf(RecalculateTimeMaster(q, start)) \subseteq StampsOf(q)
<1> DEFINE r == RecalculateTimeMaster(q, start)
<1>1. DOMAIN q = 1 .. Len(q) /\ Len(q) \in Nat /\ r = [i \in 1 .. Len(q) |-> Relative(q[i], start)]
  BY DEF RecalculateTimeMaster
<1>2. Len(r) = Len(q)
  BY <1>1
<1>3. \A i \in 1 .. Len(q) : r[i].n = q[i].n /\ r[i].ts = q[i].ts
  <2> TAKE i \in 1 .. Len(q)
  <2>1. q[i] \in Samples
    BY Numbered
  <2> QED
    BY <1>1, <2>1 DEF Relative, Samples
<1> HIDE DEF r
<1>4. StampsOf(r) \subseteq StampsOf(q)
  BY <1>2, <1>3 DEF StampsOf
<1> QED
  BY <1>4 DEF r

\* The thread brings no sample from elsewhere.
LEMMA WorkStamps ==
  ASSUME TypeOK, OrderInv, Work, NEW d \in DataGroups
  PROVE  Stamps(d)' \subseteq Stamps(d)
<1>0. /\ file \in [DataGroups -> Seq(Samples)] /\ queue \in [DataGroups -> Seq(Samples)]
      /\ file[d] \in Seq(Samples) /\ queue[d] \in Seq(Samples)
      /\ hand \in Seq(Samples) /\ current \in DataGroups
  BY DEF TypeOK
<1>1. StampsOf(queue'[d]) \subseteq StampsOf(queue[d])
  BY WorkShortens, StampsTail
<1>2. Stamps(d)' = StampsOf(file'[d]) \union StampsOf(Hand(d)') \union StampsOf(queue'[d])
  BY DEF Stamps, StampsOf
<1>3. CASE WriteSample
  <2>1. /\ file' = [file EXCEPT ![current] = @ \o hand] /\ hand' = <<>>
    BY <1>3 DEF WriteSample
  <2>2. StampsOf(file'[d]) \subseteq StampsOf(file[d]) \union StampsOf(Hand(d))
    <3>1. CASE d = current
      BY <1>0, <2>1, <3>1, StampsConcat DEF Hand
    <3>2. CASE d # current
      BY <1>0, <2>1, <3>2
    <3> QED
      BY <3>1, <3>2
  <2>3. Hand(d)' = <<>>
    BY <2>1 DEF Hand
  <2> QED
    BY <1>1, <1>2, <2>2, <2>3, StampsNone DEF Stamps
<1>4. CASE TakeSample
  <2>1. /\ UNCHANGED <<file, current>> /\ queue[current] # <<>>
        /\ hand' = <<>> \/ hand' = <<Head(queue[current])>>
    BY <1>4 DEF TakeSample, fileVars
  <2>2. StampsOf(Hand(d)') \subseteq StampsOf(queue[d])
    <3>1. CASE Hand(d)' = <<>>
      BY <3>1, StampsNone
    <3>2. CASE Hand(d)' # <<>>
      <4>1. d = current /\ Hand(d)' = <<Head(queue[d])>>
        BY <2>1, <3>2 DEF Hand
      <4>2. Head(queue[d]) = queue[d][1] /\ 1 \in 1 .. Len(queue[d])
        BY <1>0, <2>1, <4>1
      <4>3. StampsOf(<<queue[d][1]>>) = {<<queue[d][1].n, queue[d][1].ts>>}
        BY DEF StampsOf
      <4> QED
        BY <4>1, <4>2, <4>3 DEF StampsOf
    <3> QED
      BY <3>1, <3>2
  <2> QED
    BY <1>1, <1>2, <2>1, <2>2 DEF Stamps
<1>5. CASE ~WriteSample /\ ~TakeSample
  <2>1. UNCHANGED file /\ hand' = <<>>
    BY <1>5, WorkMovesOne
  <2>2. Hand(d)' = <<>>
    BY <2>1 DEF Hand
  <2> QED
    BY <1>1, <1>2, <2>1, <2>2, StampsNone DEF Stamps
<1> QED
  BY <1>3, <1>4, <1>5

\* What a client saves gets a new number and the present time.
LEMMA ClientStamps ==
  ASSUME TypeOK, Client, NEW d \in DataGroups
  PROVE  /\ now' \in Nat /\ saved' \in Nat /\ now <= now' /\ saved <= saved'
         /\ \/ Stamps(d)' \subseteq Stamps(d)
            \/ saved < saved' /\ Stamps(d)' \subseteq Stamps(d) \union {<<saved', now'>>}
<1> USE DEF cacheVars, writerVars, queueVars, threadVars, fileVars
<1>0. /\ queue \in [DataGroups -> Seq(Samples)] /\ queue[d] \in Seq(Samples)
      /\ start_time \in Times /\ now \in Nat /\ saved \in Nat
  BY WordAssumption DEF TypeOK, Times
<1>1. Stamps(d)' = StampsOf(file'[d]) \union StampsOf(Hand(d)') \union StampsOf(queue'[d])
  BY DEF Stamps, StampsOf
<1>2. UNCHANGED file /\ Hand(d)' = Hand(d)
  <2>1. UNCHANGED <<file, hand, current>>
    BY DEF Client, CallContinues, InitExit, InitFails, InitWrites, StartSetsTime,
           StartReturns, StopExit, ThreadJoined, StartRecalculates, InitMeasurement,
           FinalizeMeasurement, StartMeasurement, StopMeasurement, CreateDataGroup,
           SaveSample, FinalizeWrites
  <2> QED
    BY <2>1 DEF Hand
<1>3. CASE \/ InitMeasurement \/ InitFails \/ InitWrites \/ StartSetsTime \/ StartReturns
           \/ FinalizeMeasurement \/ FinalizeWrites \/ InitExit \/ StopExit
           \/ (\E t \in FirstTime .. MaxTime : StopMeasurement(t))
           \/ \E e \in DataGroups : CreateDataGroup(e)
  <2>1. /\ UNCHANGED <<now, saved>>
        /\ queue' = queue \/ queue' = [e \in DataGroups |-> <<>>]
    BY <1>3 DEF InitMeasurement, InitFails, InitWrites, StartSetsTime, StartReturns, InitExit,
       StopExit, ThreadJoined, FinalizeMeasurement, FinalizeWrites, StopMeasurement,
       CreateDataGroup
  <2>2. queue'[d] = queue[d] \/ queue'[d] = <<>>
    BY <2>1
  <2> QED
    BY <1>0, <1>1, <1>2, <2>1, <2>2, StampsNone DEF Stamps
<1>4. ASSUME NEW e \in DataGroups, StartRecalculates(e)
      PROVE  UNCHANGED <<now, saved>> /\ Stamps(d)' \subseteq Stamps(d)
  <2>1. /\ queue' = [queue EXCEPT ![e] = RecalculateTimeMaster(@, start_time)]
        /\ UNCHANGED <<now, saved>>
    BY <1>4 DEF StartRecalculates
  <2>2. queue'[d] = queue[d] \/ queue'[d] = RecalculateTimeMaster(queue[d], start_time)
    BY <1>0, <2>1
  <2>3. StampsOf(queue'[d]) \subseteq StampsOf(queue[d])
    BY <1>0, <2>2, StampsRecalculated
  <2> QED
    BY <1>1, <1>2, <2>1, <2>3 DEF Stamps
<1>5. ASSUME NEW t \in Clock, StartMeasurement(t)
      PROVE  /\ saved' = saved /\ now' \in Nat /\ now <= now'
             /\ Stamps(d)' \subseteq Stamps(d)
  <2>1. UNCHANGED <<queue, saved>> /\ now' = t
    BY <1>5 DEF StartMeasurement
  <2>2. t \in Nat /\ now <= t
    BY <1>0, BoundsAssumption DEF Clock
  <2> QED
    BY <1>1, <1>2, <2>1, <2>2 DEF Stamps
<1>6. ASSUME NEW e \in DataGroups, NEW t \in Clock, SaveSample(e, t)
      PROVE  /\ saved' = saved + 1 /\ now' \in Nat /\ now <= now'
             /\ Stamps(d)' \subseteq Stamps(d) \union {<<saved', now'>>}
  <2>1. saved' = saved + 1 /\ now' = t
    BY <1>6 DEF SaveSample
  <2>2. t \in Nat /\ now <= t
    BY <1>0, BoundsAssumption DEF Clock
  <2>3. CASE queue'[d] = queue[d]
    BY <1>1, <1>2, <2>1, <2>2, <2>3 DEF Stamps
  <2>4. CASE queue'[d] # queue[d]
    <3>1. PICK s \in Samples : queue'[d] = Append(queue[d], s) /\ s.n = saved + 1 /\ s.ts = t
      BY <1>6, <2>4, SaveAdds
    <3>2. StampsOf(queue'[d]) \subseteq StampsOf(queue[d]) \union {<<saved', now'>>}
      BY <1>0, <2>1, <3>1, StampsAppend
    <3> QED
      BY <1>1, <1>2, <2>1, <2>2, <3>2 DEF Stamps
  <2> QED
    BY <2>3, <2>4
<1> QED
  BY <1>0, <1>3, <1>4, <1>5, <1>6 DEF Client, CallContinues

LEMMA StampsAreNumbers ==
  ASSUME TypeOK, NEW d \in DataGroups
  PROVE  Stamps(d) \subseteq Nat \X Nat /\ now \in Nat /\ saved \in Nat
<1>1. file[d] \in Seq(Samples) /\ Hand(d) \in Seq(Samples) /\ queue[d] \in Seq(Samples)
  BY KeptTypes
<1>2. now \in Nat /\ saved \in Nat
  BY WordAssumption DEF TypeOK, Times
<1> QED
  BY <1>1, <1>2, StampsType DEF Stamps

LEMMA WorkTimeInv == TypeOK /\ OrderInv /\ TimeInv /\ Work => TimeInv'
<1> SUFFICES ASSUME TypeOK, OrderInv, TimeInv, Work PROVE TimeInv'
  OBVIOUS
<1>1. \A d \in DataGroups : Stamps(d)' \subseteq Stamps(d)
  BY WorkStamps
<1>2. UNCHANGED <<saved, now>>
  BY DEF Work, clientVars
<1> QED
  BY <1>1, <1>2 DEF TimeInv

LEMMA ClientTimeInv == TypeOK /\ TimeInv /\ Client => TimeInv'
<1> SUFFICES ASSUME TypeOK, TimeInv, Client, NEW d \in DataGroups
             PROVE  /\ \A x \in Stamps(d)' : x[1] <= saved' /\ x[2] <= now'
                    /\ \A x, y \in Stamps(d)' : x[1] <= y[1] => x[2] <= y[2]
  BY DEF TimeInv
<1>1. /\ now' \in Nat /\ saved' \in Nat /\ now <= now' /\ saved <= saved'
      /\ \/ Stamps(d)' \subseteq Stamps(d)
         \/ saved < saved' /\ Stamps(d)' \subseteq Stamps(d) \union {<<saved', now'>>}
  BY ClientStamps
<1>2. Stamps(d) \subseteq Nat \X Nat /\ now \in Nat /\ saved \in Nat
  BY StampsAreNumbers
<1>3. /\ \A x \in Stamps(d) : x[1] \in Nat /\ x[2] \in Nat /\ x[1] <= saved /\ x[2] <= now
      /\ \A x, y \in Stamps(d) : x[1] <= y[1] => x[2] <= y[2]
  BY <1>2 DEF TimeInv
<1>4. \A x \in Stamps(d)' : x[1] <= saved' /\ x[2] <= now'
  BY <1>1, <1>2, <1>3
<1>5. ASSUME NEW x \in Stamps(d)', NEW y \in Stamps(d)', x[1] <= y[1] PROVE x[2] <= y[2]
  <2>1. CASE x \in Stamps(d) /\ y \in Stamps(d)
    BY <1>3, <1>5, <2>1
  <2>2. CASE y \notin Stamps(d)
    <3>1. y = <<saved', now'>>
      BY <1>1, <2>2
    <3> QED
      BY <1>4, <3>1
  <2>3. CASE x \notin Stamps(d) /\ y \in Stamps(d)
    <3>1. x = <<saved', now'>> /\ saved < saved'
      BY <1>1, <2>3
    <3>2. y[1] \in Nat /\ y[1] <= saved
      BY <1>3, <2>3
    <3>3. saved' <= y[1]
      BY <1>5, <3>1
    <3> QED
      BY <1>1, <1>2, <3>1, <3>2, <3>3
  <2> QED
    BY <2>1, <2>2, <2>3
<1> QED
  BY <1>4, <1>5

-----------------------------------------------------------------------------
(* Recorder: TrimQueue *)

\* TrimQueue does nothing or pops some samples and leaves at least one.
LEMMA TrimLeavesOne ==
  ASSUME NEW q \in Seq(Samples), NEW start
  PROVE  \/ TrimQueue(q, start) = q
         \/ \E k \in 2 .. Len(q) : TrimQueue(q, start) = SubSeq(q, k, Len(q))
<1> DEFINE p == Popped(q, start)
<1>1. p \in Nat /\ Len(q) \in Nat /\ TrimQueue(q, start) = SubSeq(q, p + 1, Len(q))
  BY PoppedType DEF TrimQueue
<1>2. \A j \in 1 .. p : j \in 1 .. Len(q) /\ ~StopsTrim(q, j, start)
  BY PoppedMayGo
<1> HIDE DEF p
<1>3. CASE p = 0
  BY <1>1, <1>3, SubSeqFull
<1>4. CASE p > 0
  <2>1. p \in 1 .. Len(q) /\ p # Len(q)
    BY <1>1, <1>2, <1>4 DEF StopsTrim
  <2>2. p + 1 \in 2 .. Len(q)
    BY <1>1, <1>4, <2>1
  <2> QED
    BY <1>1, <2>2
<1> QED
  BY <1>1, <1>3, <1>4

\* It does nothing to a queue that has nothing older than the pre-trigger time.
LEMMA TrimLeavesAll ==
  ASSUME NEW q \in Seq(Samples), NEW start \in Times,
         start = 0 => q = <<>>,
         start # 0 => start > PreTrig,
         \A i \in 1 .. Len(q) : q[i].ts >= start - PreTrig
  PROVE  TrimQueue(q, start) = q
<1>1. Len(q) \in Nat /\ start \in Nat /\ PreTrig \in Nat
  BY PreTrigAssumption, WordAssumption DEF Times
<1>2. CASE start = 0
  <2>1. 2 .. Len(q) = {}
    BY <1>2
  <2>2. \/ TrimQueue(q, start) = q
        \/ \E k \in 2 .. Len(q) : TrimQueue(q, start) = SubSeq(q, k, Len(q))
    BY TrimLeavesOne
  <2> QED
    BY ONLY <2>1, <2>2
<1>3. CASE start # 0
  <2>1. PICK k \in 0 .. Len(q) :
          /\ TrimQueue(q, start) = SubSeq(q, k + 1, Len(q))
          /\ \A j \in 1 .. k : j < Len(q) /\ q[j + 1].ts < start - PreTrig
    BY <1>3, TrimKeepsWindow
  <2>2. ASSUME k > 0 PROVE FALSE
    <3>1. 1 \in 1 .. k
      BY <1>1, <2>2
    <3>2. 1 < Len(q) /\ q[2].ts < start - PreTrig
      BY <2>1, <3>1
    <3>3. 2 \in 1 .. Len(q)
      BY <1>1, <3>2
    <3>4. q[2] \in Samples /\ q[2].ts >= start - PreTrig
      BY <3>3
    <3>5. q[2].ts \in Nat
      BY <3>4, WordAssumption DEF Samples, Times
    <3> QED
      BY <1>1, <3>2, <3>4, <3>5
  <2>3. k = 0
    BY <1>1, <2>2
  <2> QED
    BY <2>1, <2>3, SubSeqFull
<1> QED
  BY <1>2, <1>3

-----------------------------------------------------------------------------
(* Recorder: SettledInv *)

LEMMA WorkSettledInv ==
  TypeOK /\ FileInv /\ FlushInv /\ StartInv /\ SettledInv /\ Work => SettledInv'
<1> SUFFICES ASSUME TypeOK, FileInv, FlushInv, StartInv, SettledInv, Work
             PROVE  SettledInv'
  OBVIOUS
<1> USE DEF clientVars, writerVars, queueVars, fileVars, InFile
<1>1. /\ UNCHANGED <<write_state, start_time, cache, call, now>>
      /\ queue \in [DataGroups -> Seq(Samples)]
      /\ file \in [DataGroups -> Seq(Samples)]
      /\ cache \subseteq DataGroups
  BY DEF Work, WorkThread, SaveSteps, Wake, CleanAll, EndRound, TrimStep, SkipStep,
         ResetStep, SaveStep, OpenFile, OpenFails, LockAndTrim, TakeSample,
         WriteSample, EndDrain, UpdateAndClose, UpdateAndCloseFile, TypeOK
<1>2. pc \in InFile \union {"open"} => current \in cache
  BY DEF FlushInv
<1>0. \A d \in DataGroups : file'[d] = file[d] /\ Begun(d)' => Begun(d)
  BY DEF Begun, Work
<1>3. CASE \/ Wake \/ CleanAll \/ EndRound \/ OpenFile \/ OpenFails \/ UpdateAndClose
           \/ \E d \in DataGroups : SkipStep(d)
  <2>1. /\ UNCHANGED <<queue, file, current>>
        /\ pc \notin {"drain", "write"} /\ pc' \notin {"drain", "write"}
        /\ pc' \in InFile \union {"open"} => pc \in InFile \union {"open"}
    BY <1>3 DEF Wake, CleanAll, EndRound, OpenFile, OpenFails, UpdateAndClose,
                UpdateAndCloseFile, SkipStep, Visit
  <2> QED
    BY <1>0, <1>1, <2>1 DEF SettledInv
<1>4. ASSUME NEW e \in DataGroups, SaveStep(e) PROVE SettledInv'
  <2>1. /\ UNCHANGED <<queue, file>> /\ pc = "round" /\ pc' = "open" /\ Saves
    BY <1>4 DEF SaveStep, Visit
  <2>2. write_state = "StartMeas"
    <3>1. write_state \notin {"Create", "StopMeas", "Finalize"}
      BY <2>1 DEF FileInv
    <3>2. write_state \in {"Init", "StartMeas"}
      BY <3>1 DEF TypeOK, WriteStates
    <3>3. final => write_state = "StartMeas"
      BY <3>2 DEF FlushInv, StartInv
    <3> QED
      BY <2>1, <3>1, <3>3 DEF Saves
  <2> QED
    BY <1>0, <1>1, <2>1, <2>2 DEF SettledInv
<1>5. ASSUME NEW e \in DataGroups, TrimStep(e) PROVE SettledInv'
  <2>1. /\ queue' = [queue EXCEPT ![e] = TrimQueue(@, start_time)]
        /\ e \in cache /\ write_state = "Init" /\ pc = "round"
        /\ UNCHANGED <<pc, current, file>>
    BY <1>5 DEF TrimStep, Visit, FlushInv
  <2> QED
    BY <1>0, <1>1, <2>1 DEF SettledInv
<1>6. ASSUME NEW e \in DataGroups, ResetStep(e) PROVE FALSE
  <2>1. write_state \notin {"Init", "StartMeas"} /\ pc = "round"
    BY <1>6 DEF ResetStep, Visit
  <2> QED
    BY <2>1 DEF FileInv, TypeOK, WriteStates
<1>7. CASE LockAndTrim \/ TakeSample
  <2>1. /\ UNCHANGED <<file, current>> /\ pc \in InFile
        /\ \A d \in DataGroups : d # current => queue'[d] = queue[d]
    BY <1>1, <1>7 DEF LockAndTrim, TakeSample
  <2>2. pc' \in {"drain", "write"}
    BY <1>7 DEF LockAndTrim, TakeSample, IsAfterStop, FlushInv
  <2> QED
    BY <1>0, <1>1, <1>2, <2>1, <2>2 DEF SettledInv
<1>8. CASE WriteSample
  <2>1. /\ UNCHANGED <<queue, current>> /\ pc = "write" /\ pc' = "drain"
        /\ \A d \in DataGroups : d # current => file'[d] = file[d]
    BY <1>1, <1>8 DEF WriteSample
  <2> QED
    BY <1>0, <1>1, <2>1 DEF SettledInv
<1>9. CASE EndDrain
  <2>1. /\ UNCHANGED <<queue, file, current>> /\ pc = "drain" /\ pc' = "close"
        /\ queue[current] = <<>>
    BY <1>9 DEF EndDrain
  <2> QED
    BY <1>0, <1>1, <2>1 DEF SettledInv
<1> QED
  BY <1>3, <1>4, <1>5, <1>6, <1>7, <1>8, <1>9 DEF Work, WorkThread, SaveSteps

\* SaveSample adds to queues of the measurement only.
LEMMA SaveCached ==
  ASSUME NEW d, NEW t, SaveSample(d, t), NEW e \in DataGroups \ cache,
         queue \in [DataGroups -> Seq(Samples)]
  PROVE  queue'[e] = queue[e]
BY DEF SaveSample, QueuesFor

\* A new sample is not in the file.
LEMMA SaveBegins ==
  ASSUME TypeOK, OrderInv, NEW d, NEW t \in Clock, SaveSample(d, t),
         NEW e \in DataGroups, Begun(e)'
  PROVE  Begun(e)
<1>1. /\ file'[e] = file[e] /\ UpTo(file[e], saved) /\ saved \in Nat
      /\ file[e] \in Seq(Samples) /\ accepted[e] \in Seq(Samples)
  BY DEF SaveSample, fileVars, OrderInv, TypeOK
<1>2. PICK i \in DOMAIN file[e], j \in DOMAIN accepted'[e] : file[e][i].n = accepted'[e][j].n
  BY <1>1 DEF Begun
<1>3. CASE accepted'[e] = accepted[e]
  BY <1>2, <1>3 DEF Begun
<1>4. ASSUME NEW s \in Samples, accepted'[e] = Append(accepted[e], s), s.n = saved + 1
      PROVE  Begun(e)
  <2>1. /\ DOMAIN accepted'[e] = 1 .. Len(accepted[e]) + 1 /\ Len(accepted[e]) \in Nat
        /\ DOMAIN accepted[e] = 1 .. Len(accepted[e])
        /\ accepted'[e][Len(accepted[e]) + 1] = s
        /\ \A k \in 1 .. Len(accepted[e]) : accepted'[e][k] = accepted[e][k]
    BY <1>1, <1>4, AppendProperties
  <2>2. DOMAIN file[e] = 1 .. Len(file[e]) /\ file[e][i].n <= saved
    BY <1>1, <1>2 DEF UpTo
  <2>3. file[e][i].n \in Nat
    BY <1>1, <1>2, <2>2, Numbered
  <2>4. file[e][i].n # saved + 1
    BY <1>1, <2>2, <2>3
  <2>5. j # Len(accepted[e]) + 1
    BY <1>2, <1>4, <2>1, <2>4
  <2>6. j \in 1 .. Len(accepted[e])
    BY <1>2, <2>1, <2>5
  <2> QED
    BY <1>2, <2>1, <2>6 DEF Begun
<1> QED
  BY <1>3, <1>4, SaveAdds

LEMMA ClientSettledInv ==
  ASSUME DocumentedOrder, ~ConcurrentSampling
  PROVE  TypeOK /\ FileInv /\ OrderInv /\ FlushInv /\ StartInv /\ SettledInv /\ Client
           => SettledInv'
<1> SUFFICES ASSUME TypeOK, FileInv, OrderInv, FlushInv, StartInv, SettledInv, Client
             PROVE  SettledInv'
  OBVIOUS
<1> USE DEF MayCall, cacheVars, writerVars, queueVars, threadVars, fileVars
<1>1. /\ queue \in [DataGroups -> Seq(Samples)]
      /\ file \in [DataGroups -> Seq(Samples)]
      /\ cache \subseteq DataGroups
      /\ now \in Nat /\ start_time \in Times /\ start_time \in Nat
  BY WordAssumption DEF TypeOK, Times
<1>0. UNCHANGED <<file, accepted>> => \A d \in DataGroups : Begun(d)' => Begun(d)
  BY DEF Begun
<1>2. CASE \/ InitMeasurement \/ InitFails \/ StartReturns \/ FinalizeMeasurement
           \/ (\E t \in FirstTime .. MaxTime : StopMeasurement(t))
           \/ \E d \in DataGroups : CreateDataGroup(d)
  <2>1. /\ UNCHANGED <<cache, queue, file, accepted, pc, current, write_state, start_time, now>>
        /\ call # "startTime" /\ call' # "startTime"
    BY <1>2 DEF InitMeasurement, InitFails, StartReturns, FinalizeMeasurement,
                StopMeasurement, CreateDataGroup
  <2>9. \A d \in DataGroups : Begun(d)' => Begun(d)
    BY <1>0, <2>1
  <2> QED
    BY <1>1, <2>1, <2>9 DEF SettledInv
<1>3. CASE FinalizeWrites
  <2>1. /\ UNCHANGED <<cache, queue, file, accepted, pc, current, start_time, now>>
        /\ write_state' = "Finalize" /\ call' = "idle" /\ pc = "none"
    BY <1>3 DEF FinalizeWrites, FileInv
  <2>9. \A d \in DataGroups : Begun(d)' => Begun(d)
    BY <1>0, <2>1
  <2> QED
    BY <1>1, <2>1, <2>9 DEF SettledInv, InFile
<1>4. CASE InitExit \/ StopExit
  <2>1. /\ cache' = {} /\ pc' = "none" /\ \A d \in DataGroups : queue'[d] = <<>>
        /\ write_state' = "StartMeas" => FALSE
    BY <1>4 DEF InitExit, StopExit, ThreadJoined, StartInv
  <2> QED
    BY <2>1 DEF SettledInv, InFile
<1>5. CASE InitWrites
  <2>1. /\ cache' = Active /\ pc' = "wait" /\ write_state' = "Init"
        /\ UNCHANGED <<queue, file>> /\ \A d \in DataGroups : queue[d] = <<>>
    BY <1>5 DEF InitWrites, FlushInv
  <2>2. \A d \in DataGroups : ~Begun(d)'
    <3>1. accepted' = [d \in DataGroups |-> <<>>] /\ DOMAIN <<>> = {}
      BY <1>5 DEF InitWrites
    <3> QED
      BY <3>1 DEF Begun
  <2>3. Active \subseteq DataGroups
    BY DEF Active, Configured, TypeOK
  <2> QED
    BY <2>1, <2>2, <2>3 DEF SettledInv, InFile
<1>6. ASSUME NEW t \in Clock, StartMeasurement(t) PROVE SettledInv'
  <2>1. /\ UNCHANGED <<cache, queue, file, accepted, pc, current, start_time>>
        /\ write_state = "Init" /\ write_state' = "StartMeas" /\ call' = "startTime"
    BY <1>6 DEF StartMeasurement
  <2>9. \A d \in DataGroups : Begun(d)' => Begun(d)
    BY <1>0, <2>1
  <2> QED
    BY <1>1, <2>1, <2>9 DEF SettledInv
<1>7. CASE StartSetsTime
  <2>1. /\ UNCHANGED <<cache, queue, file, accepted, pc, current, now, write_state>>
        /\ call = "startTime" /\ call' = "startRecalculate" /\ start_time' = now
    BY <1>7 DEF StartSetsTime, StartInv
  <2>2. \A d \in DataGroups : queue[d] = <<>> => Len(queue[d]) = 0
    OBVIOUS
  <2> QED
    BY <1>0, <1>1, <2>1, <2>2 DEF SettledInv
<1>8. ASSUME NEW e \in DataGroups, StartRecalculates(e) PROVE SettledInv'
  <2>1. /\ UNCHANGED <<cache, file, accepted, pc, current, now, write_state, start_time, call>>
        /\ call = "startRecalculate"
        /\ queue' = [queue EXCEPT ![e] = RecalculateTimeMaster(@, start_time)]
    BY <1>8 DEF StartRecalculates
  <2>2. /\ Len(RecalculateTimeMaster(queue[e], start_time)) = Len(queue[e])
        /\ RecalculateTimeMaster(queue[e], start_time) \in Seq(Samples)
        /\ \A i \in 1 .. Len(queue[e]) :
             RecalculateTimeMaster(queue[e], start_time)[i].ts = queue[e][i].ts
    <3>1. /\ queue[e] \in Seq(Samples) /\ Follows(queue[e], queue[e])
          /\ Len(queue[e]) \in Nat
      BY <1>1 DEF Follows
    <3>2. /\ Len(RecalculateTimeMaster(queue[e], start_time)) = Len(queue[e])
          /\ Follows(RecalculateTimeMaster(queue[e], start_time), queue[e])
      BY <1>1, <3>1, RecalculateFollows
    <3> QED
      BY <1>1, <3>1, <3>2, RecalculateKeeps DEF Follows
  <2>3. queue[e] = <<>> => queue'[e] = <<>>
    BY <1>1, <2>1, <2>2
  <2>4. ASSUME NEW d \in DataGroups
        PROVE  /\ queue[d] = <<>> => queue'[d] = <<>>
               /\ (\A i \in 1 .. Len(queue[d]) : queue[d][i].ts >= start_time)
                    => \A i \in 1 .. Len(queue'[d]) : queue'[d][i].ts >= start_time
    <3>1. CASE d = e
      <4>1. queue'[d] = RecalculateTimeMaster(queue[e], start_time)
        BY <1>1, <2>1, <3>1
      <4> QED
        BY <2>2, <2>3, <3>1, <4>1
    <3>2. CASE d # e
      BY <1>1, <2>1, <3>2
    <3> QED
      BY <3>1, <3>2
  <2> QED
    BY <1>0, <1>1, <2>1, <2>4 DEF SettledInv
<1>9. ASSUME NEW e \in DataGroups, NEW t \in Clock, SaveSample(e, t) PROVE SettledInv'
  <2>1. /\ call = "idle" /\ now' = t
        /\ UNCHANGED <<cache, file, pc, current, write_state, start_time, call>>
    BY <1>9 DEF SaveSample
  <2>2. now <= t /\ t \in Nat
    <3>1. t \in Times
      BY TimesInRange
    <3> QED
      BY <1>1, <3>1 DEF Clock, Times
  <2>3. \A d \in DataGroups \ cache : queue'[d] = queue[d]
    BY <1>1, <1>9, SaveCached
  <2>4. ASSUME NEW d \in cache, Begun(d)', ~(d = current /\ pc \in {"drain", "write"})
        PROVE  \A i \in 1 .. Len(queue'[d]) : queue'[d][i].ts >= start_time
    <3>0. d \in DataGroups /\ Begun(d)
      BY <1>1, <1>9, <2>4, SaveBegins
    <3>1. write_state = "StartMeas"
      <4>1. write_state \notin {"Create", "StopMeas", "Finalize"}
        BY <2>1, <2>4 DEF FileInv, FlushInv
      <4> QED
        BY <2>4, <3>0, <4>1 DEF SettledInv, TypeOK, WriteStates
    <3>2. start_time <= t
      BY <1>1, <2>1, <2>2, <3>1 DEF SettledInv
    <3>3. d \in DataGroups /\ queue[d] \in Seq(Samples)
          /\ \A i \in 1 .. Len(queue[d]) : queue[d][i].ts >= start_time
      BY <1>1, <2>4, <3>0 DEF SettledInv
    <3>4. \/ queue'[d] = queue[d]
          \/ \E s \in Samples : queue'[d] = Append(queue[d], s) /\ s.ts = t
      BY <1>9, <3>3, SaveAdds
    <3>5. ASSUME NEW s \in Samples, queue'[d] = Append(queue[d], s), s.ts = t
          PROVE  \A i \in 1 .. Len(queue'[d]) : queue'[d][i].ts >= start_time
      <4>1. /\ Len(queue[d]) \in Nat /\ Len(queue'[d]) = Len(queue[d]) + 1
            /\ queue'[d][Len(queue[d]) + 1] = s
            /\ \A i \in 1 .. Len(queue[d]) : queue'[d][i] = queue[d][i]
        BY <3>3, <3>5, AppendProperties
      <4>2. s.ts >= start_time
        BY <1>1, <2>2, <3>2, <3>5
      <4> QED
        BY <3>3, <4>1, <4>2
    <3> QED
      BY <3>3, <3>4, <3>5
  <2>5. write_state = "StartMeas" => start_time <= t
    BY <1>0, <1>1, <2>1, <2>2 DEF SettledInv
  <2>6. \A d \in cache : Begun(d)' => Begun(d)
    BY <1>1, <1>9, SaveBegins
  <2> QED
    BY <2>1, <2>3, <2>4, <2>5, <2>6 DEF SettledInv
<1> QED
  BY <1>2, <1>3, <1>4, <1>5, <1>6, <1>7, <1>8, <1>9 DEF Client, CallContinues

-----------------------------------------------------------------------------
(* Recorder: Numbers *)

LEMMA NumbersType ==
  ASSUME NEW a \in Seq(Samples)
  PROVE  /\ Numbers(a) \in Seq(Nat)
         /\ Len(Numbers(a)) = Len(a)
         /\ \A i \in 1 .. Len(a) : Numbers(a)[i] = a[i].n
<1>1. Len(a) \in Nat /\ DOMAIN a = 1 .. Len(a) /\ \A i \in 1 .. Len(a) : a[i].n \in Nat
  BY Numbered
<1>2. Numbers(a) = [i \in 1 .. Len(a) |-> a[i].n]
  BY <1>1 DEF Numbers
<1>3. Numbers(a) \in [1 .. Len(a) -> Nat]
  BY <1>1, <1>2
<1> QED
  BY <1>1, <1>2, <1>3

\* A sequence is told by its length and its numbers.
LEMMA NumbersEqual ==
  ASSUME NEW a \in Seq(Samples), NEW s \in Seq(Nat), Len(s) = Len(a),
         \A i \in 1 .. Len(a) : s[i] = a[i].n
  PROVE  Numbers(a) = s
<1>1. /\ Numbers(a) \in Seq(Nat) /\ Len(Numbers(a)) = Len(s)
      /\ \A i \in 1 .. Len(Numbers(a)) : Numbers(a)[i] = s[i]
  BY NumbersType
<1> QED
  BY <1>1, SeqEqual

LEMMA NumbersNone == Numbers(<<>>) = <<>>
<1>1. <<>> \in Seq(Samples) /\ <<>> \in Seq(Nat) /\ Len(<<>>) = 0 /\ 1 .. Len(<<>>) = {}
  OBVIOUS
<1> QED
  BY <1>1, NumbersEqual

LEMMA NumbersConcat ==
  ASSUME NEW a \in Seq(Samples), NEW b \in Seq(Samples)
  PROVE  Numbers(a \o b) = Numbers(a) \o Numbers(b)
<1> DEFINE c == a \o b
           s == Numbers(a) \o Numbers(b)
<1>1. /\ Len(a) \in Nat /\ Len(b) \in Nat /\ Len(c) = Len(a) + Len(b)
      /\ c \in Seq(Samples)
      /\ \A i \in 1 .. Len(a) + Len(b) : c[i] = IF i <= Len(a) THEN a[i] ELSE b[i - Len(a)]
  BY ConcatProperties
<1>2. /\ Numbers(a) \in Seq(Nat) /\ Len(Numbers(a)) = Len(a)
      /\ Numbers(b) \in Seq(Nat) /\ Len(Numbers(b)) = Len(b)
      /\ \A i \in 1 .. Len(a) : Numbers(a)[i] = a[i].n
      /\ \A i \in 1 .. Len(b) : Numbers(b)[i] = b[i].n
  BY NumbersType
<1>3. /\ s \in Seq(Nat) /\ Len(s) = Len(a) + Len(b)
      /\ \A i \in 1 .. Len(a) + Len(b) :
           s[i] = IF i <= Len(a) THEN Numbers(a)[i] ELSE Numbers(b)[i - Len(a)]
  BY <1>2, ConcatProperties
<1> HIDE DEF c, s
<1>4. ASSUME NEW i \in 1 .. Len(c) PROVE s[i] = c[i].n
  <2>1. CASE i <= Len(a)
    <3>1. i \in 1 .. Len(a) /\ i \in 1 .. Len(a) + Len(b)
      BY <1>1, <2>1
    <3>2. s[i] = Numbers(a)[i] /\ c[i] = a[i]
      BY <1>1, <1>3, <2>1, <3>1
    <3> QED
      BY <1>2, <3>1, <3>2
  <2>2. CASE ~(i <= Len(a))
    <3>1. i - Len(a) \in 1 .. Len(b) /\ i \in 1 .. Len(a) + Len(b)
      BY <1>1, <2>2
    <3>2. s[i] = Numbers(b)[i - Len(a)] /\ c[i] = b[i - Len(a)]
      BY <1>1, <1>3, <2>2, <3>1
    <3> QED
      BY <1>2, <3>1, <3>2
  <2> QED
    BY <2>1, <2>2
<1>5. Numbers(c) = s
  BY <1>1, <1>3, <1>4, NumbersEqual
<1> QED
  BY <1>5 DEF c, s

LEMMA NumbersAppend ==
  ASSUME NEW a \in Seq(Samples), NEW e \in Samples
  PROVE  Numbers(Append(a, e)) = Append(Numbers(a), e.n)
<1>1. <<e>> \in Seq(Samples) /\ e.n \in Nat /\ <<e.n>> \in Seq(Nat)
  BY DEF Samples
<1>2. Numbers(<<e>>) = <<e.n>>
  <2>1. Len(<<e.n>>) = Len(<<e>>) /\ \A i \in 1 .. Len(<<e>>) : <<e.n>>[i] = <<e>>[i].n
    OBVIOUS
  <2> HIDE DEF Numbers
  <2> QED
    BY <1>1, <2>1, NumbersEqual
<1>3. Append(a, e) = a \o <<e>> /\ Append(Numbers(a), e.n) = Numbers(a) \o <<e.n>>
  BY <1>1, NumbersType, AppendIsConcat
<1> QED
  BY <1>1, <1>2, <1>3, NumbersConcat

LEMMA NumbersSubSeq ==
  ASSUME NEW a \in Seq(Samples), NEW k \in 1 .. Len(a)
  PROVE  Numbers(SubSeq(a, k, Len(a))) = SubSeq(Numbers(a), k, Len(a))
<1> DEFINE c == SubSeq(a, k, Len(a))
           s == SubSeq(Numbers(a), k, Len(a))
           m == Len(a) - k + 1
<1>1. Len(a) \in Nat /\ m \in Nat /\ k \in Int
      /\ \A i \in k .. Len(a) : i \in 1 .. Len(a) /\ a[i] \in Samples
  OBVIOUS
<1>2. /\ Numbers(a) \in Seq(Nat) /\ Len(Numbers(a)) = Len(a)
      /\ \A i \in 1 .. Len(a) : Numbers(a)[i] = a[i].n
      /\ \A i \in k .. Len(a) : Numbers(a)[i] \in Nat
  BY <1>1, NumbersType
<1>3. /\ c \in Seq(Samples) /\ Len(c) = m /\ \A i \in 1 .. m : c[i] = a[k + i - 1]
  BY <1>1, SubSeqProperties
<1>4. /\ s \in Seq(Nat) /\ Len(s) = m /\ \A i \in 1 .. m : s[i] = Numbers(a)[k + i - 1]
  BY <1>1, <1>2, SubSeqProperties
<1>5. \A i \in 1 .. m : k + i - 1 \in 1 .. Len(a)
  BY <1>1
<1>6. \A i \in 1 .. m : s[i] = c[i].n
  BY <1>2, <1>3, <1>4, <1>5
<1> HIDE DEF c, s, m
<1>7. Numbers(c) = s
  BY <1>3, <1>4, <1>6, NumbersEqual
<1> QED
  BY <1>7 DEF c, s

LEMMA NumbersRecalculated ==
  ASSUME NEW q \in Seq(Samples), NEW start \in Times
  PROVE  /\ RecalculateTimeMaster(q, start) \in Seq(Samples)
         /\ Numbers(RecalculateTimeMaster(q, start)) = Numbers(q)
<1> DEFINE r == RecalculateTimeMaster(q, start)
<1>1. r \in Seq(Samples) /\ Len(r) = Len(q) /\ \A i \in 1 .. Len(q) : r[i].n = q[i].n
  BY RecalculateKeeps
<1>2. /\ Numbers(q) \in Seq(Nat) /\ Len(Numbers(q)) = Len(q)
      /\ \A i \in 1 .. Len(q) : Numbers(q)[i] = q[i].n
  BY NumbersType
<1> HIDE DEF r
<1>3. Numbers(r) = Numbers(q)
  BY <1>1, <1>2, NumbersEqual
<1> QED
  BY <1>1, <1>3 DEF r

-----------------------------------------------------------------------------
(* What the steps of the writer are to the recorder *)

\* The variables of the recorder
LogOf    == [d \in DataGroups |-> Numbers(file[d])]
BufferOf == [d \in DataGroups |-> Numbers(Pending(d))]

RecorderStep == [Implements!RecorderNext]_(Implements!recorderVars)

\* A step that changes neither the records nor the numbers of what is pending
LEMMA StepStutters ==
  ASSUME UNCHANGED <<file, saved, unflushed>>, BufferOf' = BufferOf
  PROVE  RecorderStep
BY DEF RecorderStep, BufferOf, Implements!recorderVars

LEMMA SameBuffer ==
  ASSUME UNCHANGED <<queue, hand>>, current' = current \/ hand = <<>>
  PROVE  BufferOf' = BufferOf
<1>1. \A d \in DataGroups : Hand(d)' = Hand(d)
  BY DEF Hand
<1> QED
  BY <1>1 DEF BufferOf, Pending

LEMMA TrimForgets ==
  ASSUME TypeOK, TypeOK', NEW e \in DataGroups, hand = <<>>,
         queue' = [queue EXCEPT ![e] = TrimQueue(@, start_time)],
         UNCHANGED <<file, hand, current, saved, unflushed>>,
         ~Begun(e) \/ TrimQueue(queue[e], start_time) = queue[e]
  PROVE  RecorderStep
<1> DEFINE q == queue[e]
<1>1. /\ q \in Seq(Samples) /\ queue \in [DataGroups -> Seq(Samples)]
  BY DEF TypeOK
<1>2. /\ BufferOf = [d \in DataGroups |-> Numbers(queue[d])]
      /\ BufferOf' = [d \in DataGroups |-> Numbers(queue'[d])]
  <2>1. \A d \in DataGroups : Pending(d) = queue[d]
    BY HandEmpty
  <2>2. \A d \in DataGroups : Pending(d)' = queue'[d]
    <3>1. \A d \in DataGroups : Hand(d)' = <<>>
      BY DEF Hand
    <3>2. \A d \in DataGroups : queue'[d] \in Seq(Samples)
      BY DEF TypeOK
    <3> QED
      BY <3>1, <3>2, ConcatEmptySeq DEF Pending
  <2> QED
    BY <2>1, <2>2 DEF BufferOf
<1>3. CASE TrimQueue(q, start_time) = q
  <2>1. queue' = queue
    BY <1>1, <1>3
  <2> QED
    BY <2>1, SameBuffer, StepStutters
<1>4. CASE TrimQueue(q, start_time) # q
  <2>1. PICK k \in 2 .. Len(q) : TrimQueue(q, start_time) = SubSeq(q, k, Len(q))
    BY <1>1, <1>4, TrimLeavesOne
  <2>2. k \in 1 .. Len(q) /\ Len(Numbers(q)) = Len(q)
    BY <1>1, NumbersType
  <2>3. Numbers(queue'[e]) = SubSeq(Numbers(q), k, Len(q))
    <3>1. queue'[e] = SubSeq(q, k, Len(q))
      BY <1>1, <2>1
    <3> QED
      BY <1>1, <2>2, <3>1, NumbersSubSeq
  <2>4. BufferOf' = [BufferOf EXCEPT ![e] = SubSeq(@, k, Len(@))]
    <3>1. \A d \in DataGroups : d # e => queue'[d] = queue[d]
      BY <1>1
    <3>2. BufferOf[e] = Numbers(q)
      BY <1>2
    <3>3. BufferOf' = [d \in DataGroups |->
                        IF d = e THEN SubSeq(Numbers(q), k, Len(q)) ELSE Numbers(queue[d])]
      <4>1. ASSUME NEW d \in DataGroups
            PROVE  Numbers(queue'[d]) = IF d = e THEN SubSeq(Numbers(q), k, Len(q))
                                                 ELSE Numbers(queue[d])
        <5>1. CASE d = e
          BY <2>3, <5>1
        <5>2. CASE d # e
          BY <3>1, <5>2
        <5> QED
          BY <5>1, <5>2
      <4> QED
        BY <1>2, <4>1
    <3> QED
      BY <1>2, <2>2, <3>2, <3>3
  <2>5. k \in 2 .. Len(BufferOf[e]) /\ ~Begun(e)
    BY <1>2, <1>4, <2>1, <2>2
  <2>6. Implements!Forget(e)
    <3>1. e \notin {d \in DataGroups : Begun(d)}
      BY <2>5
    <3>2. \E i \in 2 .. Len(BufferOf[e]) :
            BufferOf' = [BufferOf EXCEPT ![e] = SubSeq(@, i, Len(@))]
      BY <2>4, <2>5
    <3> QED
      BY <3>1, <3>2 DEF Implements!Forget, BufferOf
  <2> QED
    BY <2>6 DEF RecorderStep, Implements!RecorderNext
<1> QED
  BY <1>3, <1>4

\* The sample is in the hand of the work thread instead of in the queue.
LEMMA TakeStutters ==
  ASSUME TypeOK, TypeOK', FlushInv, TakeSample, UNCHANGED saved
  PROVE  RecorderStep
<1>1. /\ pc = "drain" /\ hand = <<>> /\ queue[current] # <<>> /\ current \in DataGroups
      /\ queue \in [DataGroups -> Seq(Samples)]
      /\ hand' = <<Head(queue[current])>>
      /\ queue' = [queue EXCEPT ![current] = Tail(@)]
      /\ UNCHANGED <<current, file, unflushed>>
  BY DEF TakeSample, FlushInv, IsAfterStop, TypeOK, fileVars
<1>2. \A d \in DataGroups : Pending(d)' = Pending(d)
  BY TakePending
<1>3. BufferOf' = BufferOf
  BY <1>2 DEF BufferOf
<1> QED
  BY <1>1, <1>3, StepStutters

\* A concatenation is cut again where it was put together.
LEMMA FrontOfConcat ==
  ASSUME NEW s \in Seq(Nat), NEW t \in Seq(Nat), Len(s) > 0
  PROVE  /\ Len(s) \in 1 .. Len(s \o t)
         /\ SubSeq(s \o t, 1, Len(s)) = s
         /\ SubSeq(s \o t, Len(s) + 1, Len(s \o t)) = t
<1> DEFINE c == s \o t
<1>0. PICK n \in Nat \ {0} : n = Len(s)
  BY LenProperties
<1>1. c \in Seq(Nat) /\ Len(c) = n + Len(t) /\ Len(t) \in Nat
  BY <1>0, ConcatProperties, LenProperties
<1>2. \A i \in 1 .. n + Len(t) : c[i] = IF i <= n THEN s[i] ELSE t[i - n]
  BY <1>0, ConcatProperties
<1>3. \A i \in 1 .. Len(c) : c[i] \in Nat
  BY <1>1, ElementOfSeq
<1> HIDE DEF c
<1>4. n \in 1 .. Len(c) /\ n \in Int /\ Len(c) \in Int /\ n + 1 \in Int
  BY <1>1
<1>5. SubSeq(c, 1, n) = s
  <2>1. \A i \in 1 .. n : c[i] \in Nat
    BY <1>1, <1>3
  <2>2. /\ SubSeq(c, 1, n) \in Seq(Nat) /\ Len(SubSeq(c, 1, n)) = n
        /\ \A i \in 1 .. n : SubSeq(c, 1, n)[i] = c[i]
    <3>1. /\ SubSeq(c, 1, n) \in Seq(Nat)
          /\ Len(SubSeq(c, 1, n)) = IF 1 <= n THEN n - 1 + 1 ELSE 0
          /\ \A i \in 1 .. n - 1 + 1 : SubSeq(c, 1, n)[i] = c[1 + i - 1]
      BY <1>4, <2>1, SubSeqProperties
    <3>2. n - 1 + 1 = n /\ 1 <= n /\ \A i \in 1 .. n : 1 + i - 1 = i
      OBVIOUS
    <3> QED
      BY <3>1, <3>2
  <2>3. \A i \in 1 .. n : c[i] = s[i]
    BY <1>1, <1>2
  <2>4. \A i \in 1 .. Len(SubSeq(c, 1, n)) : SubSeq(c, 1, n)[i] = s[i]
    BY <2>2, <2>3
  <2> QED
    BY <1>0, <2>2, <2>4, SeqEqual
<1>6. SubSeq(c, n + 1, Len(c)) = t
  <2>1. \A i \in n + 1 .. Len(c) : c[i] \in Nat
    BY <1>3, <1>4
  <2>2. PICK m \in Int : m = n + 1
    BY <1>4
  <2>3. \A i \in m .. Len(c) : c[i] \in Nat
    BY <2>1, <2>2
  <2>4. /\ SubSeq(c, m, Len(c)) \in Seq(Nat)
        /\ Len(SubSeq(c, m, Len(c))) = IF m <= Len(c) THEN Len(c) - m + 1 ELSE 0
        /\ \A i \in 1 .. Len(c) - m + 1 : SubSeq(c, m, Len(c))[i] = c[m + i - 1]
    BY <1>4, <2>3, SubSeqProperties
  <2>5. Len(SubSeq(c, m, Len(c))) = Len(t) /\ Len(c) - m + 1 = Len(t)
    BY <1>1, <1>4, <2>2, <2>4
  <2>6. ASSUME NEW i \in 1 .. Len(t) PROVE SubSeq(c, m, Len(c))[i] = t[i]
    <3>1. SubSeq(c, m, Len(c))[i] = c[m + i - 1]
      BY <2>4, <2>5
    <3>2. PICK k \in 1 .. n + Len(t) : k = m + i - 1 /\ ~(k <= n) /\ k - n = i
      BY <1>1, <2>2
    <3>3. c[k] = t[k - n]
      BY <1>2, <3>2
    <3> QED
      BY <3>1, <3>2, <3>3
  <2>7. SubSeq(c, m, Len(c)) = t
    BY <2>4, <2>5, <2>6, SeqEqual
  <2> QED
    BY <2>2, <2>7
<1> QED
  BY <1>0, <1>4, <1>5, <1>6 DEF c

\* The sample in the hand becomes the newest record.
LEMMA WriteRecords ==
  ASSUME TypeOK, TypeOK', CountInv, WriteSample, UNCHANGED saved
  PROVE  RecorderStep
<1> DEFINE c == current
           h == Numbers(hand)
           q == Numbers(queue[c])
<1>1. /\ c \in DataGroups /\ hand' = <<>> /\ hand \in Seq(Samples) /\ Len(hand) = 1
      /\ file' = [file EXCEPT ![c] = @ \o hand]
      /\ UNCHANGED <<current, queue, unflushed>>
      /\ queue \in [DataGroups -> Seq(Samples)] /\ file \in [DataGroups -> Seq(Samples)]
  BY DEF WriteSample, CountInv, TypeOK, queueVars
<1>2. h \in Seq(Nat) /\ q \in Seq(Nat) /\ Len(h) = 1
  BY <1>1, NumbersType
<1>3. BufferOf[c] = h \o q
  BY <1>1, NumbersConcat DEF BufferOf, Pending, Hand
<1>4. /\ 1 \in 1 .. Len(BufferOf[c])
      /\ SubSeq(BufferOf[c], 1, 1) = h
      /\ SubSeq(BufferOf[c], 1 + 1, Len(BufferOf[c])) = q
  <2> HIDE DEF h, q
  <2>1. Len(h) > 0
    BY <1>2
  <2>2. /\ Len(h) \in 1 .. Len(h \o q)
        /\ SubSeq(h \o q, 1, Len(h)) = h
        /\ SubSeq(h \o q, Len(h) + 1, Len(h \o q)) = q
    BY <1>2, <2>1, FrontOfConcat
  <2> QED
    BY <1>2, <1>3, <2>2
<1>5. ASSUME NEW d \in DataGroups
      PROVE  /\ LogOf'[d] = IF d = c THEN LogOf[d] \o h ELSE LogOf[d]
             /\ BufferOf'[d] = IF d = c THEN q ELSE BufferOf[d]
  <2>1. queue[d] \in Seq(Samples) /\ file[d] \in Seq(Samples)
    BY <1>1
  <2>2. CASE d = c
    <3>1. file'[d] = file[d] \o hand /\ Pending(d)' = queue[d]
      <4>1. Pending(d)' = <<>> \o queue[d]
        BY <1>1, <2>2 DEF Pending, Hand
      <4> QED
        BY <1>1, <2>1, <2>2, <4>1, ConcatEmptySeq
    <3>2. Numbers(file'[d]) = Numbers(file[d]) \o h
      BY <1>1, <2>1, <3>1, NumbersConcat
    <3> QED
      BY <2>2, <3>1, <3>2 DEF LogOf, BufferOf
  <2>3. CASE d # c
    <3>1. file'[d] = file[d] /\ Pending(d)' = Pending(d)
      BY <1>1, <2>3 DEF Pending, Hand
    <3> QED
      BY <2>3, <3>1 DEF LogOf, BufferOf
  <2> QED
    BY <2>2, <2>3
<1> HIDE DEF h, q, c
<1>6. LogOf' = [LogOf EXCEPT ![c] = @ \o SubSeq(BufferOf[c], 1, 1)]
  BY <1>4, <1>5 DEF LogOf
<1>7. BufferOf' = [BufferOf EXCEPT ![c] = SubSeq(@, 1 + 1, Len(@))]
  BY <1>4, <1>5 DEF BufferOf
<1>8. Implements!Record(c)
  BY <1>1, <1>4, <1>6, <1>7 DEF Implements!Record, LogOf, BufferOf
<1> QED
  BY <1>1, <1>8 DEF RecorderStep, Implements!RecorderNext

\* Every step of the work thread forgets, records or fails, or the recorder does
\* not see it.
LEMMA WorkRecords ==
  ASSUME TypeOK, FileInv, CountInv, FlushInv, StartInv, SettledInv, Work
  PROVE  RecorderStep
<1> USE DEF clientVars, writerVars, queueVars, fileVars
<1>1. TypeOK' /\ UNCHANGED saved
  BY WorkTypeOK DEF Work
<1>2. current \in DataGroups /\ queue[current] \in Seq(Samples) /\ (pc # "write" => hand = <<>>)
  BY DEF TypeOK, FlushInv
<1>3. CASE \/ Wake \/ CleanAll \/ EndRound \/ OpenFile \/ EndDrain \/ UpdateAndClose
           \/ \E d \in DataGroups : SkipStep(d) \/ SaveStep(d)
  <2>1. UNCHANGED <<file, queue, hand, unflushed>>
    BY <1>3 DEF Wake, CleanAll, EndRound, OpenFile, EndDrain, UpdateAndClose,
                UpdateAndCloseFile, SkipStep, SaveStep
  <2>2. current' = current \/ hand = <<>>
    BY <1>2, <1>3 DEF Wake, CleanAll, EndRound, OpenFile, EndDrain, UpdateAndClose,
                      UpdateAndCloseFile, SkipStep, SaveStep, Visit
  <2> QED
    BY <1>1, <2>1, <2>2, SameBuffer, StepStutters
<1>4. CASE OpenFails
  <2>1. UNCHANGED <<file, queue, hand, current>>
    BY <1>4 DEF OpenFails
  <2>2. LogOf' = LogOf /\ BufferOf' = BufferOf
    BY <2>1, SameBuffer DEF LogOf
  <2>3. CASE ~final
    BY <1>1, <1>4, <2>1, <2>2, <2>3, StepStutters DEF OpenFails
  <2>4. CASE final
    <3>1. unflushed' = unflushed \union {current}
      BY <1>4, <2>4 DEF OpenFails
    <3>2. Implements!Fail(current)
      BY <1>1, <2>2, <3>1 DEF Implements!Fail, LogOf, BufferOf
    <3> QED
      BY <1>2, <3>2 DEF RecorderStep, Implements!RecorderNext
  <2> QED
    BY <2>3, <2>4
<1>5. ASSUME NEW e \in DataGroups, TrimStep(e) PROVE RecorderStep
  <2>1. /\ queue' = [queue EXCEPT ![e] = TrimQueue(@, start_time)]
        /\ UNCHANGED <<file, hand, current, unflushed>>
        /\ write_state = "Init" /\ pc = "round" /\ e \in cache
    BY <1>5 DEF TrimStep, Visit, FlushInv
  <2>2. ~Begun(e)
    BY <2>1 DEF SettledInv
  <2> QED
    BY <1>1, <1>2, <2>1, <2>2, TrimForgets
<1>6. CASE LockAndTrim
  <2>1. /\ queue' = [queue EXCEPT ![current] = TrimQueue(@, start_time)]
        /\ UNCHANGED <<file, hand, current, unflushed>> /\ pc = "lock"
    BY <1>6 DEF LockAndTrim
  <2>2. write_state = "StartMeas" /\ current \in cache
    BY <2>1 DEF SettledInv, FlushInv, InFile
  <2>3. ASSUME Begun(current) PROVE TrimQueue(queue[current], start_time) = queue[current]
    <3>1. /\ call = "startTime" => queue[current] = <<>>
          /\ \A i \in 1 .. Len(queue[current]) : queue[current][i].ts >= start_time
      BY <2>1, <2>2, <2>3 DEF SettledInv
    <3>2. /\ start_time # 0 => start_time > PreTrig
          /\ start_time = 0 => call = "startTime"
          /\ start_time \in Times
      BY <2>2, PreTrigAssumption, WordAssumption DEF StartInv, TypeOK
    <3>3. ASSUME NEW i \in 1 .. Len(queue[current])
          PROVE  queue[current][i].ts >= start_time - PreTrig
      <4>1. queue[current][i] \in Samples
        BY <1>2, Numbered
      <4>2. queue[current][i].ts \in Nat /\ start_time \in Nat /\ PreTrig \in Nat
        BY <3>2, <4>1, WordAssumption, PreTrigAssumption DEF Samples, Times
      <4> QED
        BY <3>1, <4>2
    <3> QED
      BY <1>2, <3>1, <3>2, <3>3, TrimLeavesAll
  <2> QED
    BY <1>1, <1>2, <2>1, <2>3, TrimForgets
<1>7. CASE TakeSample
  BY <1>1, <1>7, TakeStutters
<1>8. CASE WriteSample
  BY <1>1, <1>8, WriteRecords
<1>9. ASSUME NEW e \in DataGroups, ResetStep(e) PROVE FALSE
  <2>1. write_state \notin {"Init", "StartMeas"} /\ pc = "round"
    BY <1>9 DEF ResetStep, Visit
  <2> QED
    BY <2>1 DEF FileInv, TypeOK, WriteStates
<1> QED
  BY <1>3, <1>4, <1>5, <1>6, <1>7, <1>8, <1>9 DEF Work, WorkThread, SaveSteps

\* What is saved enters some of the buffers under the next number.
LEMMA SampleSaved ==
  ASSUME TypeOK, NEW d \in DataGroups, NEW t \in Clock, SaveSample(d, t)
  PROVE  RecorderStep
<1> DEFINE gs == {e \in DataGroups : queue'[e] # queue[e]}
<1>1. /\ saved' = saved + 1 /\ UNCHANGED <<file, hand, current, unflushed>>
  BY DEF SaveSample, threadVars, fileVars
<1>2. ASSUME NEW e \in DataGroups
      PROVE  BufferOf'[e] = IF e \in gs THEN Append(BufferOf[e], saved') ELSE BufferOf[e]
  <2>1. Hand(e)' = Hand(e) /\ Hand(e) \in Seq(Samples) /\ queue[e] \in Seq(Samples)
    BY <1>1, KeptTypes DEF Hand
  <2>2. CASE queue'[e] = queue[e]
    BY <2>1, <2>2 DEF BufferOf, Pending
  <2>3. CASE queue'[e] # queue[e]
    <3>1. PICK s \in Samples : queue'[e] = Append(queue[e], s) /\ s.n = saved + 1
      BY <2>3, SaveAppends
    <3>2. Hand(e) \o Append(queue[e], s) = Append(Hand(e) \o queue[e], s)
      BY <2>1, AppendToConcat
    <3>3. Pending(e)' = Append(Pending(e), s) /\ Pending(e) \in Seq(Samples)
      BY <2>1, <3>1, <3>2 DEF Pending
    <3>4. Numbers(Pending(e)') = Append(Numbers(Pending(e)), saved')
      BY <1>1, <3>1, <3>3, NumbersAppend
    <3> QED
      BY <2>3, <3>4 DEF BufferOf
  <2> QED
    BY <2>2, <2>3
<1> HIDE DEF gs
<1>3. gs \in SUBSET DataGroups
  BY DEF gs
<1>4. BufferOf' = [e \in DataGroups |->
                    IF e \in gs THEN Append(BufferOf[e], saved') ELSE BufferOf[e]]
  BY <1>2 DEF BufferOf
<1>5. Implements!Save(gs)
  BY <1>1, <1>4 DEF Implements!Save, BufferOf
<1> QED
  BY <1>3, <1>5 DEF RecorderStep, Implements!RecorderNext

LEMMA ClientRecords ==
  ASSUME DocumentedOrder, ~ConcurrentSampling,
         TypeOK, FileInv, CountInv, FlushInv, StartInv, SettledInv, Client
  PROVE  RecorderStep
<1> USE DEF MayCall, cacheVars, writerVars, queueVars, threadVars, fileVars
<1>1. CASE \/ InitMeasurement \/ InitFails \/ StartSetsTime \/ StartReturns
           \/ FinalizeMeasurement \/ FinalizeWrites
           \/ (\E t \in Clock : StartMeasurement(t))
           \/ (\E t \in FirstTime .. MaxTime : StopMeasurement(t))
           \/ \E d \in DataGroups : CreateDataGroup(d)
  <2>1. UNCHANGED <<file, queue, hand, current, unflushed, saved>>
    BY <1>1 DEF InitMeasurement, InitFails, StartSetsTime, StartReturns,
                FinalizeMeasurement, FinalizeWrites, StartMeasurement,
                StopMeasurement, CreateDataGroup
  <2> QED
    BY <2>1, SameBuffer, StepStutters
<1>2. CASE InitExit \/ StopExit
  <2>1. /\ pc = "none" /\ hand = <<>>
        /\ UNCHANGED <<file, hand, current, unflushed, saved>>
        /\ queue' = [d \in DataGroups |-> <<>>]
    BY <1>2 DEF InitExit, StopExit, ThreadJoined, FlushInv
  <2>2. ASSUME NEW d \in DataGroups \ unflushed PROVE BufferOf[d] = <<>>
    <3>1. Pending(d) = <<>>
      <4>1. CASE d \in cache
        BY <2>1, <4>1 DEF FlushInv, Flushed
      <4>2. CASE d \notin cache
        BY <2>1, <4>2, HandEmpty DEF SettledInv
      <4> QED
        BY <4>1, <4>2
    <3> QED
      BY <3>1, NumbersNone DEF BufferOf
  <2>3. BufferOf' = [d \in DataGroups |-> <<>>]
    <3>1. ASSUME NEW d \in DataGroups PROVE Numbers(Pending(d)') = <<>>
      <4>1. Pending(d)' = <<>> \o <<>>
        BY <2>1 DEF Pending, Hand
      <4>2. <<>> \o <<>> = <<>>
        OBVIOUS
      <4> QED
        BY <4>1, <4>2, NumbersNone
    <3> QED
      BY <3>1 DEF BufferOf
  <2>4. Implements!End
    BY <2>1, <2>2, <2>3 DEF Implements!End, BufferOf
  <2> QED
    BY <2>4 DEF RecorderStep, Implements!RecorderNext
<1>3. CASE InitWrites
  <2>1. /\ hand = <<>> /\ \A d \in DataGroups : queue[d] = <<>>
        /\ UNCHANGED <<file, queue, hand, current, saved>> /\ unflushed' = {}
    <3>1. call = "initOpen" /\ pc = "none"
      BY <1>3 DEF InitWrites, FlushInv
    <3> QED
      BY <1>3, <3>1 DEF InitWrites, FlushInv
  <2>2. ASSUME NEW d \in DataGroups PROVE BufferOf[d] = <<>>
    BY <2>1, HandEmpty, NumbersNone DEF BufferOf
  <2>3. BufferOf' = BufferOf
    BY <2>1, SameBuffer
  <2>4. Implements!Begin
    BY <2>1, <2>2, <2>3 DEF Implements!Begin, BufferOf
  <2> QED
    BY <2>4 DEF RecorderStep, Implements!RecorderNext
<1>4. ASSUME NEW e \in DataGroups, StartRecalculates(e) PROVE RecorderStep
  <2>1. /\ queue' = [queue EXCEPT ![e] = RecalculateTimeMaster(@, start_time)]
        /\ UNCHANGED <<file, hand, current, unflushed, saved>>
        /\ queue \in [DataGroups -> Seq(Samples)] /\ start_time \in Times
    BY <1>4 DEF StartRecalculates, TypeOK
  <2>2. ASSUME NEW d \in DataGroups PROVE Numbers(Pending(d)') = Numbers(Pending(d))
    <3>1. /\ Hand(d)' = Hand(d) /\ Hand(d) \in Seq(Samples) /\ queue[d] \in Seq(Samples)
      BY <2>1, KeptTypes DEF Hand
    <3>2. queue'[d] \in Seq(Samples) /\ Numbers(queue'[d]) = Numbers(queue[d])
      <4>1. CASE d = e
        BY <2>1, <4>1, NumbersRecalculated
      <4>2. CASE d # e
        BY <2>1, <4>2
      <4> QED
        BY <4>1, <4>2
    <3>3. /\ Numbers(Pending(d)) = Numbers(Hand(d)) \o Numbers(queue[d])
          /\ Numbers(Pending(d)') = Numbers(Hand(d)) \o Numbers(queue'[d])
      BY <3>1, <3>2, NumbersConcat DEF Pending
    <3> QED
      BY <3>2, <3>3
  <2>3. BufferOf' = BufferOf
    BY <2>2 DEF BufferOf
  <2> QED
    BY <2>1, <2>3, StepStutters
<1>5. ASSUME NEW d \in DataGroups, NEW t \in Clock, SaveSample(d, t) PROVE RecorderStep
  BY <1>5, SampleSaved
<1> QED
  BY <1>1, <1>2, <1>3, <1>4, <1>5 DEF Client, CallContinues

\* The writer is a recorder: for a client that keeps to the documented order and
\* saves nothing while StartMeasurement runs, each data group records an unbroken
\* tail of the samples saved to it, in order, and a measurement ends with every
\* buffer recorded unless its last flush could not open the file.
THEOREM RecorderImplemented ==
  ASSUME DocumentedOrder, ~ConcurrentSampling
  PROVE  Spec => ImplementsRecorder
<1> DEFINE Inv == FileInv /\ CountInv /\ OrderInv /\ FlushInv /\ StartInv /\ SettledInv
<1>1. Init => Inv
  <2> SUFFICES ASSUME Init PROVE Inv
    OBVIOUS
  <2>1. FileInv /\ FlushInv
    BY DEF Init, FileInv, FlushInv, InFile
  <2>2. CountInv
    BY DEF Init, CountInv, InFile
  <2>3. now = FirstTime /\ FirstTime \in Nat /\ \A d \in DataGroups : accepted[d] = <<>>
    BY ClockAssumption, PreTrigAssumption, WordAssumption DEF Init
  <2>4. StartInv
    BY <2>3 DEF Init, StartInv, InTime
  <2>5. SettledInv
    BY DEF Init, SettledInv, InFile
  <2> QED
    BY <2>1, <2>2, <2>4, <2>5, InitOrderInv
<1>2. TypeOK /\ Inv /\ [Next]_vars => Inv'
  <2>1. Inv /\ UNCHANGED vars => Inv'
    BY DEF FileInv, CountInv, FlushInv, StartInv, SettledInv, Begun, InTime, InFile,
           OrderInv, Chain, Before, InOrder, UpTo, Flushed, Pending, Hand, vars,
           cacheVars, clientVars, writerVars, queueVars, threadVars, fileVars
  <2>2. TypeOK /\ Inv /\ Work => Inv'
    BY WorkFileInv, WorkCountInv, WorkOrderInv, WorkFlushInv, WorkStartInv, WorkSettledInv
  <2>3. TypeOK /\ Inv /\ Client => Inv'
    BY ClientFileInv, ClientCountInv, ClientOrderInv, ClientFlushInv, ClientStartInv,
       ClientSettledInv
  <2> QED
    BY <2>1, <2>2, <2>3 DEF Next
<1>3. Init => Implements!RecorderInit
  <2> SUFFICES ASSUME Init PROVE Implements!RecorderInit
    OBVIOUS
  <2>1. ASSUME NEW d \in DataGroups
        PROVE  Numbers(file[d]) = <<>> /\ Numbers(Pending(d)) = <<>>
    <3>1. file[d] = <<>> /\ Pending(d) = <<>> \o <<>>
      BY DEF Init, Pending, Hand
    <3>2. <<>> \o <<>> = <<>>
      OBVIOUS
    <3> QED
      BY <3>1, <3>2, NumbersNone
  <2> QED
    BY <2>1 DEF Init, Implements!RecorderInit
<1>4. TypeOK /\ Inv /\ [Next]_vars => RecorderStep
  <2>1. UNCHANGED vars => RecorderStep
    <3> SUFFICES ASSUME UNCHANGED vars PROVE RecorderStep
      OBVIOUS
    <3>1. UNCHANGED <<file, queue, hand, current, unflushed, saved>>
      BY DEF vars, cacheVars, clientVars, queueVars, threadVars, fileVars
    <3> QED
      BY <3>1, SameBuffer, StepStutters
  <2> QED
    BY <2>1, WorkRecords, ClientRecords DEF Next
<1>5. RecorderStep <=> [Implements!RecorderNext]_(Implements!recorderVars)
  BY DEF RecorderStep
<1> QED
  BY <1>1, <1>2, <1>3, <1>4, <1>5, TypeCorrect, PTL
     DEF Spec, ImplementsRecorder, Implements!RecorderSpec
=============================================================================

--------------------------- MODULE LayoutProofs ---------------------------
(***************************************************************************)
(* The theorems about the places of the records in the file: the layout    *)
(* only adds to the writer, a finished data block stays as it is, and a    *)
(* data block spans the records of its group.                              *)
(***************************************************************************)
EXTENDS LayoutInvariants, MdfWriterProofs

-----------------------------------------------------------------------------
(* The writer underneath *)

LEMMA LayoutSteps == (LayoutWork => Work) /\ (LayoutClient => Client)
BY DEF LayoutWork, LayoutClient, LayoutCallContinues, LayoutOpenFile, LayoutWriteSample,
       LayoutUpdateAndClose, LayoutInitWrites, LayoutFinalizeWrites, Work, WorkThread,
       SaveSteps, Client, CallContinues

LEMMA LayoutNextIsNext == [LayoutNext]_lvars => [Next]_vars
BY LayoutSteps DEF LayoutNext, Next, lvars

\* The places in the file are no part of what the writer decides: with them it
\* behaves as without them, so that what is proved of MdfWriter holds here.
THEOREM LayoutIsWriter == LayoutSpec => Spec
<1>1. LayoutInit => Init
  BY DEF LayoutInit
<1> QED
  BY <1>1, LayoutNextIsNext, PTL DEF LayoutSpec, Spec

\* The steps that change neither the file nor what is known of it
Unplaced ==
  \/ /\ \/ Wake \/ CleanAll \/ EndRound
        \/ \E d \in DataGroups : TrimStep(d) \/ SkipStep(d) \/ ResetStep(d) \/ SaveStep(d)
        \/ OpenFails \/ LockAndTrim \/ TakeSample \/ EndDrain
     /\ UNCHANGED clientVars
  \/ InitExit \/ InitFails \/ StartSetsTime \/ StartReturns \/ StopExit
  \/ \E d \in DataGroups : StartRecalculates(d)
  \/ InitMeasurement \/ FinalizeMeasurement
  \/ \E t \in Clock : StartMeasurement(t)
  \/ \E t \in FirstTime .. MaxTime : StopMeasurement(t)
  \/ \E d \in DataGroups : CreateDataGroup(d)
  \/ \E d \in DataGroups, t \in Clock : SaveSample(d, t)

LEMMA LayoutCases ==
  LayoutNext => \/ Unplaced /\ UNCHANGED layoutVars
                \/ /\ LayoutOpenFile \/ LayoutWriteSample \/ LayoutUpdateAndClose
                   /\ UNCHANGED clientVars
                \/ LayoutInitWrites \/ LayoutFinalizeWrites
BY DEF LayoutNext, LayoutWork, LayoutClient, LayoutCallContinues, Unplaced

LEMMA UnplacedKeeps ==
  ASSUME Unplaced
  PROVE  UNCHANGED <<file, nof, unused>> /\ (cache' = cache \/ cache' = {})
BY DEF Unplaced, Wake, CleanAll, EndRound, TrimStep, SkipStep, ResetStep, SaveStep,
       OpenFails, LockAndTrim, TakeSample, EndDrain, InitExit, InitFails, StartSetsTime,
       StartReturns, StopExit, ThreadJoined, StartRecalculates, InitMeasurement,
       FinalizeMeasurement, StartMeasurement, StopMeasurement, CreateDataGroup,
       SaveSample, cacheVars, queueVars, fileVars

LEMMA UnplacedStays ==
  ASSUME Unplaced, pc' \in InFile
  PROVE  pc \in InFile /\ current' = current
BY DEF Unplaced, InFile, Wake, CleanAll, EndRound, TrimStep, SkipStep, ResetStep, SaveStep,
       OpenFails, LockAndTrim, TakeSample, EndDrain, Visit, InitExit, InitFails,
       StartSetsTime, StartReturns, StopExit, ThreadJoined, StartRecalculates,
       InitMeasurement, FinalizeMeasurement, StartMeasurement, StopMeasurement,
       CreateDataGroup, SaveSample, cacheVars, threadVars

LEMMA CellTypes ==
  ASSUME NEW d \in DataGroups, NEW s \in Samples
  PROVE  DtCell(d) \in Cells /\ RecordCell(d, s) \in Cells /\ OtherCell \in Cells
BY DEF DtCell, RecordCell, OtherCell, Cells, Samples

\* The file only grows at its end.
LEMMA CellsGrow ==
  ASSUME TypeOK, CountInv, cells \in Seq(Cells), LayoutNext
  PROVE  \E x \in Seq(Cells) : cells' = cells \o x
<1>1. CASE UNCHANGED cells
  <2>1. <<>> \in Seq(Cells) /\ cells \o <<>> = cells
    BY ConcatEmptySeq
  <2> QED
    BY <1>1, <2>1
<1>2. ASSUME NEW c \in Cells, cells' = Append(cells, c)
      PROVE  \E x \in Seq(Cells) : cells' = cells \o x
  <2>1. <<c>> \in Seq(Cells) /\ cells' = cells \o <<c>>
    BY <1>2, AppendIsConcat
  <2> QED
    BY <2>1
<1>3. CASE LayoutOpenFile
  <2>1. DtCell(current) \in Cells
    BY DEF TypeOK, DtCell, Cells
  <2> QED
    BY <1>1, <1>2, <1>3, <2>1 DEF LayoutOpenFile
<1>4. CASE LayoutWriteSample
  <2>1. hand \in Seq(Samples) /\ Len(hand) = 1 /\ current \in DataGroups
    BY <1>4 DEF LayoutWriteSample, WriteSample, CountInv, TypeOK
  <2>2. Head(hand) \in Samples
    <3>1. hand # <<>>
      <4>1. Len(hand) # 0
        BY <2>1
      <4> QED
        BY <4>1
    <3> QED
      BY <2>1, <3>1, HeadTailProperties
  <2>3. RecordCell(current, Head(hand)) \in Cells
    BY <2>1, <2>2, CellTypes
  <2> QED
    BY <1>2, <1>4, <2>3 DEF LayoutWriteSample
<1>5. CASE LayoutInitWrites
  <2> DEFINE n == Cardinality(Configured \ written)
             x == [i \in 1 .. n |-> OtherCell]
  <2>1. n \in Nat
    <3>1. Configured \subseteq DataGroups
      BY DEF TypeOK, Configured
    <3>2. IsFiniteSet(Configured \ written)
      BY <3>1, DataGroupsAssumption, FS_Subset
    <3> QED
      BY <3>2, FS_CardinalityType
  <2>2. OtherCell \in Cells
    BY DEF OtherCell, Cells
  <2>3. x \in Seq(Cells)
    <3> HIDE DEF n
    <3> QED
      BY <2>1, <2>2
  <2> QED
    BY <1>5, <2>3 DEF LayoutInitWrites
<1>6. CASE LayoutFinalizeWrites
  <2>1. OtherCell \in Cells
    BY DEF OtherCell, Cells
  <2>2. <<>> \in Seq(Cells) /\ <<OtherCell>> \in Seq(Cells)
    BY <2>1
  <2> QED
    BY <1>6, <2>2 DEF LayoutFinalizeWrites
<1> QED
  BY <1>1, <1>3, <1>4, <1>5, <1>6, LayoutCases DEF LayoutUpdateAndClose, layoutVars

-----------------------------------------------------------------------------
(* StayInv *)

LEMMA LayoutStayInv ==
  ASSUME TypeOK, CountInv, FlushInv, StayInv, LayoutNext
  PROVE  StayInv'
<1>1. /\ cells \in Seq(Cells) /\ Len(cells) \in Nat
      /\ dt \in [DataGroups -> Nat] /\ length \in [DataGroups -> Nat]
      /\ unused \in [DataGroups -> SUBSET ChannelGroups] /\ current \in DataGroups
  BY DEF StayInv, TypeOK
<1>2. cells' \in Seq(Cells) /\ Len(cells') >= Len(cells) /\ Len(cells') \in Nat
  <2>1. PICK x \in Seq(Cells) : cells' = cells \o x
    BY <1>1, CellsGrow
  <2> QED
    BY <1>1, <2>1
<1>3. CASE Unplaced /\ UNCHANGED layoutVars
  BY <1>3, UnplacedKeeps, UnplacedStays DEF StayInv, layoutVars
<1>4. CASE LayoutOpenFile
  <2>1. UNCHANGED <<cache, unused, finished, length, current>>
    BY <1>4 DEF LayoutOpenFile, OpenFile, queueVars
  <2>2. CASE dt[current] # 0
    BY <1>4, <2>1, <2>2 DEF LayoutOpenFile, StayInv
  <2>3. CASE dt[current] = 0
    <3>1. /\ cells' = Append(cells, DtCell(current))
          /\ dt' = [dt EXCEPT ![current] = Len(cells) + 1]
      BY <1>4, <2>3 DEF LayoutOpenFile
    <3>2. dt' \in [DataGroups -> Nat] /\ Len(cells') = Len(cells) + 1
      BY <1>1, <3>1
    <3>3. ASSUME NEW d \in DataGroups PROVE dt'[d] + length[d] <= Len(cells')
      <4>1. CASE d = current
        <5>1. length[d] = 0
          BY <2>3, <4>1 DEF StayInv
        <5> QED
          BY <1>1, <3>1, <3>2, <4>1, <5>1
      <4>2. CASE d # current
        BY <1>1, <1>2, <3>1, <4>2 DEF StayInv
      <4> QED
        BY <4>1, <4>2
    <3>4. /\ dt'[current] # 0
          /\ \A d \in DataGroups : dt'[d] = 0 => length[d] = 0
      BY <1>1, <3>1 DEF StayInv
    <3> QED
      BY <1>1, <1>2, <2>1, <3>2, <3>3, <3>4 DEF StayInv
  <2> QED
    BY <2>2, <2>3
<1>5. CASE LayoutWriteSample
  <2>1. /\ UNCHANGED <<cache, finished, dt, length, current>>
        /\ pc \in InFile
    BY <1>5 DEF LayoutWriteSample, WriteSample, queueVars, InFile
  <2>2. PICK g \in ChannelGroups : unused' = [unused EXCEPT ![current] = @ \ {g}]
    BY <1>5 DEF LayoutWriteSample, WriteSample
  <2>3. \A d \in finished : d \in DataGroups /\ unused'[d] = {}
    <3>1. \A d \in DataGroups : unused[d] = {} => unused'[d] = {}
      BY <1>1, <2>2
    <3> QED
      BY <1>1, <3>1 DEF StayInv
  <2>4. \A d \in DataGroups : dt[d] + length[d] <= Len(cells')
    BY <1>1, <1>2 DEF StayInv
  <2> QED
    BY <1>2, <2>1, <2>3, <2>4 DEF StayInv
<1>6. CASE LayoutUpdateAndClose
  <2>1. /\ UNCHANGED <<cache, unused, finished, dt, cells>>
        /\ pc \in InFile /\ pc' \notin InFile
        /\ length' = [length EXCEPT ![current] = Len(cells) - dt[current]]
    BY <1>6 DEF LayoutUpdateAndClose, UpdateAndClose, UpdateAndCloseFile, LengthToEnd, queueVars,
                InFile
  <2>2. dt[current] <= Len(cells)
    BY <1>1 DEF StayInv
  <2>3. length' \in [DataGroups -> Nat]
    BY <1>1, <2>1, <2>2
  <2>4. \A d \in DataGroups : dt[d] + length'[d] <= Len(cells)
    BY <1>1, <2>1, <2>2 DEF StayInv
  <2>5. \A d \in DataGroups : dt[d] = 0 => length'[d] = 0
    BY <1>1, <2>1 DEF StayInv
  <2> QED
    BY <2>1, <2>3, <2>4, <2>5 DEF StayInv
<1>7. CASE LayoutInitWrites
  <2>1. /\ UNCHANGED <<dt, length, unused>> /\ cache' = Active /\ pc' \notin InFile
        /\ finished' = finished \union {d \in Configured : unused[d] = {}}
    BY <1>7 DEF LayoutInitWrites, InitWrites, InFile
  <2>2. Configured \subseteq DataGroups
    BY DEF TypeOK, Configured
  <2>3. \A d \in finished' : d \in DataGroups /\ unused[d] = {}
    BY <2>1, <2>2 DEF StayInv
  <2>4. finished' \subseteq DataGroups \ cache'
    BY <1>1, <2>1, <2>3 DEF Active
  <2>5. \A d \in DataGroups : dt[d] + length[d] <= Len(cells')
    BY <1>1, <1>2 DEF StayInv
  <2> QED
    BY <1>2, <2>1, <2>3, <2>4, <2>5 DEF StayInv
<1>8. CASE LayoutFinalizeWrites
  <2>1. UNCHANGED <<cache, unused, finished, dt, length, pc, current>>
    BY <1>8 DEF LayoutFinalizeWrites, FinalizeWrites, queueVars, threadVars
  <2>2. \A d \in DataGroups : dt[d] + length[d] <= Len(cells')
    BY <1>1, <1>2 DEF StayInv
  <2> QED
    BY <1>2, <2>1, <2>2 DEF StayInv
<1> QED
  BY <1>3, <1>4, <1>5, <1>6, <1>7, <1>8, LayoutCases

\* What lies inside the file stays where it is when the file grows.
LEMMA PrefixKept ==
  ASSUME NEW S, NEW c \in Seq(S), NEW x \in Seq(S), NEW m \in Nat, NEW n \in Nat,
         n <= Len(c)
  PROVE  SubSeq(c \o x, m + 1, n) = SubSeq(c, m + 1, n)
<1> DEFINE e == c \o x
<1>1. /\ e \in Seq(S) /\ Len(c) \in Nat /\ Len(x) \in Nat /\ Len(e) = Len(c) + Len(x)
      /\ \A i \in 1 .. Len(c) + Len(x) : e[i] = IF i <= Len(c) THEN c[i] ELSE x[i - Len(c)]
  BY ConcatProperties, LenProperties
<1>2. \A i \in m + 1 .. n : i \in 1 .. Len(c) /\ e[i] = c[i] /\ c[i] \in S
  BY <1>1
<1> HIDE DEF e
<1>3. m + 1 \in Int /\ n \in Int
  OBVIOUS
<1>4. /\ SubSeq(c, m + 1, n) \in Seq(S)
      /\ Len(SubSeq(c, m + 1, n)) = IF m + 1 <= n THEN n - (m + 1) + 1 ELSE 0
      /\ \A i \in 1 .. n - (m + 1) + 1 : SubSeq(c, m + 1, n)[i] = c[m + 1 + i - 1]
  BY <1>2, <1>3, SubSeqProperties
<1>5. /\ SubSeq(e, m + 1, n) \in Seq(S)
      /\ Len(SubSeq(e, m + 1, n)) = IF m + 1 <= n THEN n - (m + 1) + 1 ELSE 0
      /\ \A i \in 1 .. n - (m + 1) + 1 : SubSeq(e, m + 1, n)[i] = e[m + 1 + i - 1]
  BY <1>2, <1>3, SubSeqProperties
<1>6. ASSUME NEW i \in 1 .. Len(SubSeq(e, m + 1, n))
      PROVE  SubSeq(e, m + 1, n)[i] = SubSeq(c, m + 1, n)[i]
  <2>1. i \in 1 .. n - (m + 1) + 1 /\ m + 1 + i - 1 \in m + 1 .. n
    BY <1>5
  <2> QED
    BY <1>2, <1>4, <1>5, <2>1
<1>7. SubSeq(e, m + 1, n) = SubSeq(c, m + 1, n)
  BY <1>4, <1>5, <1>6, SeqEqual
<1> QED
  BY <1>7 DEF e

LEMMA FinishedStep ==
  ASSUME TypeOK, CountInv, FlushInv, StayInv, LayoutNext, NEW d \in finished
  PROVE  Extent(d)' = Extent(d)
<1>1. d \in DataGroups /\ d \notin cache
  BY DEF StayInv
<1>2. PICK x \in Seq(Cells) : cells' = cells \o x
  BY CellsGrow DEF StayInv
<1>3. dt'[d] = dt[d] /\ length'[d] = length[d]
  <2>1. CASE LayoutOpenFile \/ LayoutUpdateAndClose
    <3>1. current # d
      BY <1>1, <2>1 DEF LayoutOpenFile, OpenFile, LayoutUpdateAndClose, UpdateAndClose,
                        UpdateAndCloseFile, FlushInv, InFile
    <3> QED
      BY <1>1, <2>1, <3>1 DEF LayoutOpenFile, LayoutUpdateAndClose, StayInv
  <2> QED
    BY <2>1, LayoutCases DEF LayoutWriteSample, LayoutInitWrites, LayoutFinalizeWrites, layoutVars
<1>4. dt[d] \in Nat /\ dt[d] + length[d] \in Nat /\ dt[d] + length[d] <= Len(cells)
      /\ cells \in Seq(Cells)
  BY <1>1 DEF StayInv
<1>5. SubSeq(cells \o x, dt[d] + 1, dt[d] + length[d]) = SubSeq(cells, dt[d] + 1, dt[d] + length[d])
  BY <1>4, PrefixKept
<1> QED
  BY <1>2, <1>3, <1>5 DEF Extent

\* A data group whose channel groups all have samples when a measurement begins
\* is never written to again: whatever later measurements append and whichever
\* lengths they update, a reader finds in it what it found before, for any number
\* of groups, measurements and samples and calls in any order.
THEOREM FinishedStay == LayoutSpec => FinishedGroupsStay
<1>1. LayoutInit => CountInv /\ FlushInv /\ StayInv
  <2> SUFFICES ASSUME LayoutInit PROVE CountInv /\ FlushInv /\ StayInv
    OBVIOUS
  <2>1. Init
    BY DEF LayoutInit
  <2>2. CountInv /\ FlushInv
    BY <2>1 DEF Init, CountInv, FlushInv, InFile
  <2>3. StayInv
    BY <2>1 DEF LayoutInit, Init, StayInv, InFile
  <2> QED
    BY <2>2, <2>3
<1>2. TypeOK /\ CountInv /\ FlushInv /\ StayInv /\ [LayoutNext]_lvars
        => CountInv' /\ FlushInv' /\ StayInv'
  <2>1. CountInv /\ FlushInv /\ StayInv /\ UNCHANGED lvars
          => CountInv' /\ FlushInv' /\ StayInv'
    BY DEF CountInv, FlushInv, StayInv, InFile, Flushed, Pending, Hand, lvars, layoutVars,
           vars, cacheVars, clientVars, writerVars, queueVars, threadVars, fileVars
  <2>2. TypeOK /\ CountInv /\ FlushInv /\ LayoutNext => CountInv' /\ FlushInv'
    BY LayoutSteps, WorkCountInv, WorkFlushInv, ClientCountInv, ClientFlushInv DEF LayoutNext
  <2> QED
    BY <2>1, <2>2, LayoutStayInv
<1>3. TypeOK /\ CountInv /\ FlushInv /\ StayInv /\ [LayoutNext]_lvars
        => [\A d \in finished : Extent(d)' = Extent(d)]_lvars
  BY FinishedStep
<1> QED
  BY <1>1, <1>2, <1>3, LayoutIsWriter, TypeCorrect, PTL DEF LayoutSpec, FinishedGroupsStay

-----------------------------------------------------------------------------
(* WrittenInv *)

LEMMA UnplacedConfigures ==
  ASSUME Unplaced
  PROVE  \/ created' = created
         \/ \E d \in DataGroups \ Configured : created' = Append(created, d)
BY DEF Unplaced, Wake, CleanAll, EndRound, TrimStep, SkipStep, ResetStep, SaveStep,
       OpenFails, LockAndTrim, TakeSample, EndDrain, InitExit, InitFails, StartSetsTime,
       StartReturns, StopExit, StartRecalculates, InitMeasurement, FinalizeMeasurement,
       StartMeasurement, StopMeasurement, CreateDataGroup, SaveSample, clientVars, Work

LEMMA UnplacedSaves ==
  ASSUME FileInv, FlushInv, WrittenInv, Unplaced, pc' \in InFile \union {"open"}, ~final'
  PROVE  SavePeriodic
BY DEF FileInv, FlushInv, WrittenInv, Unplaced, InFile, Wake, CleanAll, EndRound, TrimStep,
       SkipStep, ResetStep, SaveStep, Saves, SavesPeriodically, OpenFails, LockAndTrim,
       TakeSample, EndDrain, Visit, InitExit, InitFails, StartSetsTime, StartReturns,
       StopExit, ThreadJoined, StartRecalculates, InitMeasurement, FinalizeMeasurement,
       StartMeasurement, StopMeasurement, CreateDataGroup, SaveSample, cacheVars,
       threadVars
\* The first w groups of the list are in the file, the others are not
FirstWritten(w) ==
  /\ written = {created[i] : i \in 1 .. w}
  /\ \A i \in w + 1 .. Len(created) : created[i] \notin written

LEMMA LayoutWrittenInv ==
  ASSUME TypeOK, FileInv, FlushInv, CountInv, StayInv, WrittenInv, LayoutNext
  PROVE  WrittenInv'
<1>1. /\ created \in Seq(DataGroups) /\ Len(created) \in Nat /\ Configured \subseteq DataGroups
      /\ Configured = {created[i] : i \in 1 .. Len(created)}
      /\ cache \subseteq DataGroups /\ current \in DataGroups
      /\ dt \in [DataGroups -> Nat] /\ Len(cells) \in Nat
  <2>1. created \in Seq(DataGroups)
    BY DEF TypeOK
  <2>2. Len(created) \in Nat /\ DOMAIN created = 1 .. Len(created)
    BY <2>1, LenProperties
  <2>3. Configured = {created[i] : i \in 1 .. Len(created)}
    BY <2>2 DEF Configured
  <2>4. Configured \subseteq DataGroups
    BY <2>1, <2>3
  <2>5. cache \subseteq DataGroups /\ current \in DataGroups
    BY DEF TypeOK
  <2>6. cells \in Seq(Cells) /\ dt \in [DataGroups -> Nat]
    BY DEF StayInv
  <2>7. Len(cells) \in Nat
    BY <2>6, LenProperties
  <2> QED
    BY <2>1, <2>2, <2>3, <2>4, <2>5, <2>6, <2>7
<1>2. PICK w \in 0 .. Len(created) : FirstWritten(w)
  <2>1. \E w \in 0 .. Len(created) : FirstWritten(w)
    BY Zenon DEF WrittenInv, FirstWritten
  <2> QED
    BY <2>1
<1>3. CASE Unplaced /\ UNCHANGED layoutVars
  <2>1. UNCHANGED <<file, nof, unused, dt, written>> /\ (cache' = cache \/ cache' = {})
    BY <1>3, UnplacedKeeps DEF layoutVars
  <2>2. \E v \in 0 .. Len(created') : FirstWritten(v)'
    <3>1. CASE created' = created
      BY <1>2, <2>1, <3>1 DEF FirstWritten
    <3>2. ASSUME NEW d \in DataGroups \ Configured, created' = Append(created, d)
          PROVE  FirstWritten(w)' /\ w \in 0 .. Len(created')
      <4>1. /\ Len(created') = Len(created) + 1 /\ created'[Len(created) + 1] = d
            /\ \A i \in 1 .. Len(created) : created'[i] = created[i]
        BY <1>1, <3>2
      <4>2. written = {created'[i] : i \in 1 .. w}
        <5>1. \A i \in 1 .. w : created'[i] = created[i]
          BY <1>1, <4>1
        <5> QED
          BY <1>2, <5>1 DEF FirstWritten
      <4>3. d \notin written
        BY <1>1, <1>2, <3>2 DEF FirstWritten
      <4>4. ASSUME NEW i \in w + 1 .. Len(created') PROVE created'[i] \notin written
        <5>1. CASE i = Len(created) + 1
          BY <4>1, <4>3, <5>1
        <5>2. CASE i # Len(created) + 1
          <6>1. i \in w + 1 .. Len(created) /\ created'[i] = created[i]
            BY <1>1, <4>1, <5>2
          <6> QED
            BY <1>2, <6>1 DEF FirstWritten
        <5> QED
          BY <5>1, <5>2
      <4> QED
        BY <1>1, <2>1, <4>1, <4>2, <4>4 DEF FirstWritten
    <3> QED
      BY <1>3, <3>1, <3>2, UnplacedConfigures
  <2>3. pc' \in InFile \union {"open"} /\ ~final' => SavePeriodic
    BY <1>3, UnplacedSaves
  <2> QED
    BY <2>1, <2>2, <2>3 DEF WrittenInv, FirstWritten
<1>4. CASE LayoutOpenFile /\ UNCHANGED clientVars
  <2>1. /\ UNCHANGED <<cache, nof, unused, written, created, final>> /\ pc = "open"
        /\ current \in written
    BY <1>4 DEF LayoutOpenFile, OpenFile, queueVars, clientVars, FlushInv, InFile, WrittenInv
  <2>2. dt' = dt \/ dt' = [dt EXCEPT ![current] = Len(cells) + 1]
    BY <1>4 DEF LayoutOpenFile
  <2>3. \A d \in DataGroups : dt'[d] = dt[d] \/ (d = current /\ dt'[d] # 0)
    BY <1>1, <2>2
  <2>4. /\ \A d \in DataGroups : dt'[d] # 0 => d \in written
        /\ \A d \in DataGroups : dt'[d] = 0 => nof[d] = 0 /\ unused[d] = ChannelGroups
    BY <2>1, <2>3 DEF WrittenInv
  <2> QED
    BY <2>1, <2>4 DEF WrittenInv, InFile
<1>5. CASE LayoutWriteSample /\ UNCHANGED clientVars
  <2>1. /\ UNCHANGED <<cache, dt, written, created, final>> /\ pc = "write"
        /\ dt[current] # 0
    BY <1>5 DEF LayoutWriteSample, WriteSample, queueVars, clientVars, StayInv, InFile
  <2>2. ASSUME NEW d \in DataGroups, dt[d] = 0
        PROVE  nof'[d] = 0 /\ unused'[d] = ChannelGroups
    <3>1. PICK g \in ChannelGroups : unused' = [unused EXCEPT ![current] = @ \ {g}]
      BY <1>5 DEF LayoutWriteSample, WriteSample
    <3>2. nof' = [nof EXCEPT ![current] = @ + 1]
      BY <1>5 DEF LayoutWriteSample, WriteSample
    <3>3. d # current
      BY <2>1, <2>2
    <3>4. unused'[d] = unused[d] /\ nof'[d] = nof[d]
      BY <3>1, <3>2, <3>3 DEF TypeOK
    <3> QED
      BY <2>2, <3>4 DEF WrittenInv
  <2> QED
    BY <2>1, <2>2 DEF WrittenInv, InFile
<1>6. CASE LayoutUpdateAndClose /\ UNCHANGED clientVars
  <2>1. UNCHANGED <<cache, nof, unused, dt, written, created>> /\ pc' = "round"
    BY <1>6 DEF LayoutUpdateAndClose, UpdateAndClose, UpdateAndCloseFile, queueVars, clientVars
  <2> QED
    BY <2>1 DEF WrittenInv, InFile
<1>7. CASE LayoutInitWrites
  <2>1. /\ UNCHANGED <<dt, nof, unused, created>> /\ pc' = "wait" /\ cache' = Active
        /\ written' = Configured
    BY <1>7 DEF LayoutInitWrites, InitWrites
  <2>2. FirstWritten(Len(created))' /\ Len(created) \in 0 .. Len(created')
    BY <1>1, <2>1 DEF FirstWritten
  <2>3. cache' \subseteq written' /\ written \subseteq written'
    BY <1>1, <1>2, <2>1 DEF Active, FirstWritten
  <2> QED
    BY <1>1, <2>1, <2>2, <2>3 DEF WrittenInv, FirstWritten, InFile
<1>8. CASE LayoutFinalizeWrites
  <2>1. UNCHANGED <<cache, nof, unused, dt, written, created, pc, final>>
    BY <1>8 DEF LayoutFinalizeWrites, FinalizeWrites, queueVars, threadVars
  <2> QED
    BY <2>1 DEF WrittenInv
<1> QED
  BY <1>3, <1>4, <1>5, <1>6, <1>7, <1>8, LayoutCases

-----------------------------------------------------------------------------
(* LastInv *)

\* A group whose blocks are not in the file yet is followed by empty ones only,
\* so that the active list holds every group that gets a queue.
LEMMA OneActive ==
  ASSUME TypeOK, WrittenInv, InitWrites, SavePeriodic, Active \intersect written = {}
  PROVE  \A d, e \in Active : d = e
<1>1. created \in Seq(DataGroups) /\ Len(created) \in Nat /\ DOMAIN created = 1 .. Len(created)
  BY LenProperties DEF TypeOK
<1>2. PICK w \in 0 .. Len(created) : FirstWritten(w)
  <2>1. \E w \in 0 .. Len(created) : FirstWritten(w)
    BY Zenon DEF WrittenInv, FirstWritten
  <2> QED
    BY <2>1
<1>3. Active \subseteq ActiveList
  <2> SUFFICES ASSUME NEW d \in Active PROVE d \in ActiveList
    OBVIOUS
  <2>1. PICK i \in 1 .. Len(created) : created[i] = d
    BY <1>1 DEF Active, Configured
  <2>2. i > w
    <3>1. d \notin written
      OBVIOUS
    <3> QED
      BY <1>2, <2>1, <3>1 DEF FirstWritten
  <2>3. ASSUME NEW k \in i .. Len(created) PROVE unused[created[k]] = ChannelGroups
    <3>1. k \in w + 1 .. Len(created) /\ k \in 1 .. Len(created)
      BY <1>1, <1>2, <2>1, <2>2
    <3>2. created[k] \notin written /\ created[k] \in DataGroups
      BY <1>1, <1>2, <3>1 DEF FirstWritten
    <3> QED
      BY <3>2 DEF WrittenInv
  <2> QED
    BY <1>1, <2>1, <2>3 DEF ActiveList
<1>4. IsFiniteSet(ActiveList)
  <2>1. ActiveList \subseteq DataGroups
    BY <1>1 DEF ActiveList
  <2> QED
    BY <2>1, DataGroupsAssumption, FS_Subset
<1>5. Cardinality(ActiveList) \in Nat /\ Cardinality(ActiveList) <= 1
  <2>1. Cardinality(ActiveList) \in Nat
    BY <1>4, FS_CardinalityType
  <2>2. ~(Cardinality(ActiveList) > 1)
    BY LayoutAssumption DEF InitWrites, KeepsKindOfQueue
  <2> QED
    BY <2>1, <2>2
<1>6. ASSUME NEW d \in ActiveList, NEW e \in ActiveList, d # e PROVE FALSE
  <2>1. IsFiniteSet({d}) /\ Cardinality({d}) = 1
    BY FS_Singleton
  <2>2. Cardinality({d} \union {e}) = Cardinality({d}) + 1
    <3>1. e \notin {d}
      BY <1>6
    <3> QED
      BY <2>1, <3>1, FS_AddElement
  <2>3. Cardinality({d} \union {e}) <= Cardinality(ActiveList)
    <3>1. {d} \union {e} \subseteq ActiveList
      OBVIOUS
    <3> QED
      BY <1>4, <3>1, FS_Subset
  <2> QED
    BY <1>5, <2>1, <2>2, <2>3
<1> QED
  BY <1>3, <1>6

\* A step outside the file makes no queue due for a visit that was not before.
LEMMA UnplacedVisits ==
  ASSUME FlushInv, Unplaced
  PROVE  \A d \in cache' : MayBeVisited(d)' => d \in cache /\ MayBeVisited(d)
BY DEF FlushInv, MayBeVisited, Unplaced, Wake, CleanAll, EndRound, TrimStep, SkipStep,
       ResetStep, SaveStep, OpenFails, LockAndTrim, TakeSample, EndDrain, Visit, InitExit,
       InitFails, StartSetsTime, StartReturns, StopExit, ThreadJoined, StartRecalculates,
       InitMeasurement, FinalizeMeasurement, StartMeasurement, StopMeasurement,
       CreateDataGroup, SaveSample, cacheVars, threadVars, queueVars

LEMMA UnplacedInFile ==
  ASSUME Unplaced, pc \in InFile
  PROVE  pc' \in InFile /\ current' = current
BY DEF Unplaced, InFile, Wake, CleanAll, EndRound, TrimStep, SkipStep, ResetStep, SaveStep,
       OpenFails, LockAndTrim, TakeSample, EndDrain, Visit, InitExit, InitFails,
       StartSetsTime, StartReturns, StopExit, ThreadJoined, StartRecalculates,
       InitMeasurement, FinalizeMeasurement, StartMeasurement, StopMeasurement,
       CreateDataGroup, SaveSample, cacheVars, threadVars

\* What follows a DT block stays there when the file grows.
LEMMA FollowKept ==
  ASSUME NEW d \in DataGroups, NEW x \in Seq(Cells), cells \in Seq(Cells),
         dt[d] \in Nat, file[d] \in Seq(Samples), Follow(d),
         cells' = cells \o x, dt'[d] = dt[d], file'[d] = file[d]
  PROVE  Follow(d)'
<1>1. /\ Len(cells) \in Nat /\ Len(x) \in Nat /\ Len(file[d]) \in Nat
      /\ Len(cells') = Len(cells) + Len(x)
      /\ \A i \in 1 .. Len(cells) : cells'[i] = cells[i]
  BY ConcatProperties, LenProperties
<1>2. \A i \in 1 .. Len(file[d]) : dt[d] + i \in 1 .. Len(cells)
  BY <1>1 DEF Follow
<1> QED
  BY <1>1, <1>2 DEF Follow, RecordCell
LEMMA LayoutLastInv ==
  ASSUME TypeOK, FileInv, CountInv, FlushInv, StayInv, WrittenInv, LastInv, LayoutNext
  PROVE  LastInv'
<1> SUFFICES ASSUME reused' = {}
             PROVE  /\ OneQueue'
                    /\ \A d \in DataGroups : Follow(d)'
                    /\ Spanned'
                    /\ pc' \in InFile => IsLast(current)'
                    /\ LastWhenVisited'
  BY DEF LastInv
<1>1. reused = {}
  BY LayoutCases DEF LayoutOpenFile, LayoutWriteSample, LayoutUpdateAndClose,
                     LayoutInitWrites, LayoutFinalizeWrites, layoutVars
<1>2. /\ OneQueue /\ (\A d \in DataGroups : Follow(d)) /\ Spanned
      /\ pc \in InFile => IsLast(current)
      /\ LastWhenVisited
  BY <1>1 DEF LastInv
<1>3. /\ cells \in Seq(Cells) /\ Len(cells) \in Nat /\ dt \in [DataGroups -> Nat]
      /\ length \in [DataGroups -> Nat] /\ file \in [DataGroups -> Seq(Samples)]
      /\ nof \in [DataGroups -> Nat] /\ cache \subseteq DataGroups /\ current \in DataGroups
  BY DEF StayInv, TypeOK
<1>4. \A d \in DataGroups : file[d] \in Seq(Samples) /\ Len(file[d]) \in Nat /\ nof[d] = Len(file[d])
  BY <1>3 DEF CountInv
<1>5. PICK x \in Seq(Cells) : cells' = cells \o x
  BY <1>3, CellsGrow
<1>6. ASSUME NEW d \in DataGroups, dt'[d] = dt[d], file'[d] = file[d] PROVE Follow(d)'
  BY <1>2, <1>3, <1>4, <1>5, <1>6, FollowKept
<1>7. CASE Unplaced /\ UNCHANGED layoutVars
  <2>1. UNCHANGED <<file, cells, dt, length>> /\ (cache' = cache \/ cache' = {})
    BY <1>7, UnplacedKeeps DEF layoutVars
  <2>2. pc' \in InFile => pc \in InFile /\ current' = current
    BY <1>7, UnplacedStays
  <2>3. pc \in InFile => pc' \in InFile /\ current' = current
    BY <1>7, UnplacedInFile
  <2>4. OneQueue'
    BY <1>2, <2>1 DEF OneQueue
  <2>5. Spanned'
    BY <1>2, <2>1, <2>3 DEF Spanned
  <2>6. pc' \in InFile => IsLast(current)'
    BY <1>2, <2>1, <2>2 DEF IsLast
  <2>7. LastWhenVisited'
    BY <1>2, <1>7, <2>1, <2>3, UnplacedVisits DEF LastWhenVisited, IsLast
  <2> QED
    BY <1>6, <2>1, <2>4, <2>5, <2>6, <2>7
<1>8. CASE LayoutOpenFile /\ UNCHANGED clientVars
  <2>1. /\ UNCHANGED <<cache, file, length, final, todo, current>>
        /\ pc = "open" /\ pc' = "lock" /\ pc \notin InFile /\ pc' \in InFile
    BY <1>8 DEF LayoutOpenFile, OpenFile, queueVars, InFile
  <2>2. current \in cache /\ MayBeVisited(current)
    BY <2>1 DEF FlushInv, InFile, MayBeVisited
  <2>3. OneQueue' /\ Spanned'
    BY <1>2, <2>1 DEF OneQueue, Spanned
  <2>4. CASE dt[current] # 0
    <3>1. cells' = cells /\ dt' = dt
      BY <1>8, <2>4 DEF LayoutOpenFile
    <3>2. IsLast(current)'
      BY <1>2, <2>1, <2>2, <2>4, <3>1 DEF LastWhenVisited, IsLast
    <3>3. LastWhenVisited'
      BY <1>2, <2>1, <3>1 DEF LastWhenVisited, IsLast, MayBeVisited, InFile
    <3> QED
      BY <1>6, <2>1, <2>3, <3>1, <3>2, <3>3
  <2>5. CASE dt[current] = 0
    <3>1. /\ cells' = Append(cells, DtCell(current))
          /\ dt' = [dt EXCEPT ![current] = Len(cells) + 1]
      BY <1>8, <2>5 DEF LayoutOpenFile
    <3>2. Len(cells') = Len(cells) + 1 /\ dt'[current] = Len(cells) + 1
      BY <1>3, <3>1
    <3>3. Len(file[current]) = 0
      BY <1>3, <1>4, <2>5 DEF WrittenInv
    <3>4. Follow(current)' /\ IsLast(current)'
      BY <1>3, <2>1, <3>2, <3>3 DEF Follow, IsLast
    <3>5. \A d \in DataGroups : Follow(d)'
      BY <1>3, <1>6, <2>1, <3>1, <3>4
    <3>6. ASSUME NEW d \in cache, dt'[d] # 0, MayBeVisited(d)' PROVE d = current
      <4> SUFFICES ASSUME d # current PROVE FALSE
        OBVIOUS
      <4>1. dt[d] # 0 /\ MayBeVisited(d)
        BY <1>3, <2>1, <3>1, <3>6 DEF MayBeVisited
      <4>2. SavePeriodic
        BY <1>2, <2>1, <4>1 DEF LastWhenVisited
      <4> QED
        BY <1>2, <2>2, <4>2 DEF OneQueue
    <3>7. LastWhenVisited'
      BY <2>1, <3>4, <3>6 DEF LastWhenVisited
    <3> QED
      BY <2>3, <3>4, <3>5, <3>7, <2>1
  <2> QED
    BY <2>4, <2>5
<1>9. CASE LayoutWriteSample /\ UNCHANGED clientVars
  <2>1. /\ UNCHANGED <<cache, length, dt, final, todo, current>>
        /\ pc = "write" /\ pc' = "drain" /\ pc \in InFile /\ pc' \in InFile
        /\ file' = [file EXCEPT ![current] = @ \o hand]
        /\ cells' = Append(cells, RecordCell(current, Head(hand)))
    BY <1>9 DEF LayoutWriteSample, WriteSample, queueVars, InFile
  <2>2. hand \in Seq(Samples) /\ Len(hand) = 1 /\ Head(hand) = hand[1]
    BY <2>1 DEF CountInv, TypeOK
  <2>3. /\ Len(cells') = Len(cells) + 1
        /\ cells'[Len(cells) + 1] = RecordCell(current, hand[1])
        /\ \A i \in 1 .. Len(cells) : cells'[i] = cells[i]
    BY <1>3, <2>1, <2>2
  <2>4. /\ Len(file'[current]) = Len(file[current]) + 1
        /\ file'[current][Len(file[current]) + 1] = hand[1]
        /\ \A i \in 1 .. Len(file[current]) : file'[current][i] = file[current][i]
    <3>1. file'[current] = file[current] \o hand
      BY <1>3, <2>1
    <3>2. file[current] \in Seq(Samples) /\ Len(file[current]) \in Nat
      BY <1>3, <1>4
    <3>3. /\ Len(file[current] \o hand) = Len(file[current]) + 1
          /\ \A i \in 1 .. Len(file[current]) + 1 :
               (file[current] \o hand)[i] =
                 IF i <= Len(file[current]) THEN file[current][i]
                 ELSE hand[i - Len(file[current])]
      <4>1. Len(file[current]) + Len(hand) = Len(file[current]) + 1
        BY <2>2
      <4>2. /\ Len(file[current] \o hand) = Len(file[current]) + Len(hand)
            /\ \A i \in 1 .. Len(file[current]) + Len(hand) :
                 (file[current] \o hand)[i] =
                   IF i <= Len(file[current]) THEN file[current][i]
                   ELSE hand[i - Len(file[current])]
        BY <2>2, <3>2, ConcatProperties, Zenon
      <4> QED
        BY <4>1, <4>2
    <3>4. (file[current] \o hand)[Len(file[current]) + 1] = hand[1]
      BY <3>2, <3>3
    <3> QED
      BY <3>1, <3>2, <3>3, <3>4
  <2>5. IsLast(current) /\ IsLast(current)'
    BY <1>2, <1>3, <1>4, <2>1, <2>3, <2>4 DEF IsLast
  <2>6. Follow(current)'
    <3>1. dt[current] + Len(file'[current]) <= Len(cells')
      BY <1>3, <1>4, <2>3, <2>4, <2>5 DEF IsLast
    <3>2. ASSUME NEW i \in 1 .. Len(file'[current])
          PROVE  cells'[dt[current] + i] = RecordCell(current, file'[current][i])
      <4>1. CASE i = Len(file[current]) + 1
        BY <1>3, <1>4, <2>3, <2>4, <2>5, <4>1 DEF IsLast
      <4>2. CASE i # Len(file[current]) + 1
        <5>1. i \in 1 .. Len(file[current])
          BY <1>3, <1>4, <2>4, <4>2
        <5>2. dt[current] + i \in 1 .. Len(cells)
          BY <1>3, <1>4, <2>5, <5>1 DEF IsLast
        <5>3. cells[dt[current] + i] = RecordCell(current, file[current][i])
          BY <1>2, <1>3, <5>1 DEF Follow
        <5>4. /\ cells'[dt[current] + i] = cells[dt[current] + i]
              /\ file'[current][i] = file[current][i]
          BY <2>3, <2>4, <5>1, <5>2
        <5> QED
          BY <5>3, <5>4
      <4> QED
        BY <4>1, <4>2
    <3> QED
      BY <2>1, <3>1, <3>2 DEF Follow
  <2>7. \A d \in DataGroups : Follow(d)'
    BY <1>3, <1>6, <2>1, <2>6
  <2>8. OneQueue'
    BY <1>2, <2>1 DEF OneQueue
  <2>9. Spanned'
    BY <1>2, <1>3, <2>1 DEF Spanned
  <2>10. LastWhenVisited'
    <3> SUFFICES ASSUME NEW d \in cache, dt[d] # 0, MayBeVisited(d)
                 PROVE  d = current
      BY <2>1, <2>5 DEF LastWhenVisited, MayBeVisited, InFile
    <3>1. current \in cache
      BY <2>1 DEF FlushInv, InFile
    <3> QED
      BY <1>2, <3>1 DEF LastWhenVisited, OneQueue
  <2> QED
    BY <2>1, <2>5, <2>7, <2>8, <2>9, <2>10
<1>10. CASE LayoutUpdateAndClose /\ UNCHANGED clientVars
  <2>1. /\ UNCHANGED <<cache, file, dt, cells, final, current>>
        /\ pc = "close" /\ pc' = "round" /\ pc \in InFile /\ pc' \notin InFile
        /\ todo' = todo \ {current}
        /\ length' = [length EXCEPT ![current] = Len(cells) - dt[current]]
    BY <1>10 DEF LayoutUpdateAndClose, UpdateAndClose, UpdateAndCloseFile, LengthToEnd,
                 queueVars, InFile
  <2>2. length'[current] = Len(file[current])
    BY <1>2, <1>3, <1>4, <2>1 DEF IsLast
  <2>3. OneQueue' /\ Spanned'
    BY <1>2, <1>3, <2>1, <2>2 DEF OneQueue, Spanned
  <2>4. LastWhenVisited'
    <3> SUFFICES ASSUME NEW d \in cache, dt[d] # 0, MayBeVisited(d)'
                 PROVE  IsLast(d) /\ SavePeriodic
      BY <2>1 DEF LastWhenVisited, IsLast
    <3>1. MayBeVisited(d) /\ (final => d # current)
      BY <2>1 DEF MayBeVisited
    <3>2. ~final => SavePeriodic
      BY <2>1 DEF WrittenInv
    <3> QED
      BY <1>2, <3>1, <3>2 DEF LastWhenVisited
  <2> QED
    BY <1>6, <2>1, <2>3, <2>4
<1>11. CASE LayoutInitWrites
  <2>1. /\ UNCHANGED <<file, nof, dt, length>> /\ cache' = Active
        /\ pc = "none" /\ pc \notin InFile /\ pc' \notin InFile /\ InitWrites
        /\ reused' = reused \union (Active \intersect written)
    BY <1>11 DEF LayoutInitWrites, InitWrites, InFile, FileInv
  <2>2. Active \intersect written = {}
    BY <2>1
  <2>3. OneQueue'
    BY <2>1, <2>2, OneActive DEF OneQueue
  <2>4. \A d \in cache' : dt'[d] = 0
    <3>1. Active \subseteq DataGroups
      BY DEF Active, Configured, TypeOK
    <3> QED
      BY <2>1, <2>2, <3>1 DEF WrittenInv
  <2>5. LastWhenVisited'
    BY <2>4 DEF LastWhenVisited
  <2>6. Spanned'
    BY <1>2, <2>1 DEF Spanned
  <2> QED
    BY <1>6, <2>1, <2>3, <2>5, <2>6
<1>12. CASE LayoutFinalizeWrites
  <2>1. UNCHANGED <<file, dt, length, cache, current, pc>> /\ pc = "none" /\ pc \notin InFile
    BY <1>12 DEF LayoutFinalizeWrites, FinalizeWrites, queueVars, threadVars, FileInv, InFile
  <2>2. OneQueue' /\ Spanned'
    BY <1>2, <2>1 DEF OneQueue, Spanned
  <2>3. LastWhenVisited'
    BY <2>1 DEF LastWhenVisited, MayBeVisited
  <2> QED
    BY <1>6, <2>1, <2>2, <2>3
<1> QED
  BY <1>7, <1>8, <1>9, <1>10, <1>11, <1>12, LayoutCases

\* Where the length of every group is the number of its records, a data block
\* spans its records and nothing else.
LEMMA LastIsExact ==
  ASSUME TypeOK, FileInv, StayInv, LastInv
  PROVE  DataBlocksExact
<1> SUFFICES ASSUME users = {}, reused = {}, NEW d \in DataGroups
             PROVE  Extent(d) = OwnRecords(d)
  BY DEF DataBlocksExact
<1>1. /\ cells \in Seq(Cells) /\ dt[d] \in Nat /\ Len(cells) \in Nat
      /\ file[d] \in Seq(Samples) /\ Len(file[d]) \in Nat
      /\ DOMAIN file[d] = 1 .. Len(file[d])
  <2>1. cells \in Seq(Cells) /\ dt[d] \in Nat
    BY DEF StayInv
  <2>2. file[d] \in Seq(Samples)
    BY DEF TypeOK
  <2> QED
    BY <2>1, <2>2, LenProperties
<1>2. length[d] = Len(file[d]) /\ Follow(d)
  BY DEF FileInv, LastInv, Spanned
<1>3. \A i \in dt[d] + 1 .. dt[d] + Len(file[d]) : cells[i] \in Cells
  BY <1>1, <1>2 DEF Follow
<1>4. /\ Extent(d) \in Seq(Cells) /\ Len(Extent(d)) = Len(file[d])
      /\ \A i \in 1 .. Len(file[d]) : Extent(d)[i] = cells[dt[d] + i]
  <2> DEFINE m == dt[d] + 1
             n == dt[d] + Len(file[d])
  <2>1. m \in Int /\ n \in Int /\ Extent(d) = SubSeq(cells, m, n)
    BY <1>1, <1>2 DEF Extent
  <2>2. /\ SubSeq(cells, m, n) \in Seq(Cells)
        /\ Len(SubSeq(cells, m, n)) = IF m <= n THEN n - m + 1 ELSE 0
        /\ \A i \in 1 .. n - m + 1 : SubSeq(cells, m, n)[i] = cells[m + i - 1]
    BY <1>3, <2>1, SubSeqProperties
  <2>3. n - m + 1 = Len(file[d]) /\ (m <= n \/ Len(file[d]) = 0)
        /\ \A i \in 1 .. Len(file[d]) : m + i - 1 = dt[d] + i
    BY <1>1
  <2> HIDE DEF m, n
  <2>4. Len(SubSeq(cells, m, n)) = Len(file[d])
    BY <1>1, <2>1, <2>2, <2>3
  <2> QED
    BY <2>1, <2>2, <2>3, <2>4
<1>5. /\ DOMAIN OwnRecords(d) = 1 .. Len(file[d])
      /\ \A i \in 1 .. Len(file[d]) : OwnRecords(d)[i] = RecordCell(d, file[d][i])
  BY <1>1 DEF OwnRecords
<1>6. OwnRecords(d) \in Seq(Cells) /\ Len(OwnRecords(d)) = Len(file[d])
  <2>1. \A i \in 1 .. Len(file[d]) : file[d][i] \in Samples
    BY <1>1
  <2>2. OwnRecords(d) \in [1 .. Len(file[d]) -> Cells]
    BY <1>1, <2>1, CellTypes DEF OwnRecords
  <2> QED
    BY <1>1, <2>2
<1> QED
  BY <1>2, <1>4, <1>5, <1>6, SeqEqual DEF Follow

\* Outside a flush a data block spans the records of its group and nothing else
\* as long as no group gets a queue in a second measurement, because all or some
\* of its channel groups are empty, for any number of groups and samples and every
\* interleaving of the client with the work thread, until the writer switches to
\* compression: with periodic saves one queue appends to the last block of the
\* file, without them the queues are stored one after the other.
THEOREM DataBlocksAreExact ==
  ASSUME DocumentedOrder
  PROVE  LayoutSpec => []DataBlocksExact
<1> DEFINE LInv == FileInv /\ CountInv /\ FlushInv /\ StayInv /\ WrittenInv /\ LastInv
<1>1. LayoutInit => LInv
  <2> SUFFICES ASSUME LayoutInit PROVE LInv
    OBVIOUS
  <2>1. Init
    BY DEF LayoutInit
  <2>2. FileInv /\ CountInv /\ FlushInv
    BY <2>1 DEF Init, FileInv, CountInv, FlushInv, InFile
  <2>3. StayInv /\ WrittenInv
    BY <2>1 DEF LayoutInit, Init, StayInv, WrittenInv, InFile
  <2>4. LastInv
    BY <2>1 DEF LayoutInit, Init, LastInv, OneQueue, Spanned, LastWhenVisited, Follow, InFile
  <2> QED
    BY <2>2, <2>3, <2>4
<1>2. TypeOK /\ LInv /\ [LayoutNext]_lvars => LInv'
  <2>1. LInv /\ UNCHANGED lvars => LInv'
    <3> SUFFICES ASSUME LInv, UNCHANGED lvars PROVE LInv'
      OBVIOUS
    <3> USE DEF lvars, layoutVars, vars, cacheVars, clientVars, writerVars, queueVars,
                threadVars, fileVars, InFile
    <3>1. FileInv' /\ CountInv' /\ FlushInv'
      BY DEF FileInv, CountInv, FlushInv, Flushed, Pending, Hand
    <3>2. StayInv'
      BY DEF StayInv
    <3>3. WrittenInv'
      BY DEF WrittenInv
    <3>4. LastInv'
      BY DEF LastInv, OneQueue, Spanned, LastWhenVisited, Follow, IsLast, MayBeVisited,
             RecordCell
    <3> QED
      BY <3>1, <3>2, <3>3, <3>4
  <2>2. TypeOK /\ LInv /\ LayoutNext => FileInv' /\ CountInv' /\ FlushInv'
    BY LayoutSteps, WorkFileInv, WorkCountInv, WorkFlushInv, ClientFileInv, ClientCountInv,
       ClientFlushInv DEF LayoutNext
  <2>3. TypeOK /\ LInv /\ LayoutNext => StayInv' /\ WrittenInv' /\ LastInv'
    BY LayoutStayInv, LayoutWrittenInv, LayoutLastInv
  <2> QED
    BY <2>1, <2>2, <2>3
<1>3. TypeOK /\ LInv => DataBlocksExact
  BY LastIsExact
<1> HIDE DEF LInv
<1> QED
  BY <1>1, <1>2, <1>3, LayoutIsWriter, TypeCorrect, PTL DEF LayoutSpec

-----------------------------------------------------------------------------
(* ReachInv *)

\* Cells that are no records leave the records where they are.
LEMMA RecordsKept ==
  ASSUME cells \in Seq(Cells), NEW x \in Seq(Cells), cells' = cells \o x,
         \A i \in 1 .. Len(x) : x[i].kind # "record", NEW d \in DataGroups
  PROVE  RecordsAt(d)' = RecordsAt(d) /\ \A i \in RecordsAt(d) : cells'[i] = cells[i]
<1>1. /\ Len(cells) \in Nat /\ Len(x) \in Nat /\ Len(cells') = Len(cells) + Len(x)
      /\ \A i \in 1 .. Len(cells) : cells'[i] = cells[i]
      /\ \A i \in 1 .. Len(cells') : i \notin 1 .. Len(cells) =>
           i - Len(cells) \in 1 .. Len(x) /\ cells'[i] = x[i - Len(cells)]
  BY ConcatProperties, LenProperties
<1>2. ASSUME NEW i \in 1 .. Len(cells'), i \notin 1 .. Len(cells)
      PROVE  cells'[i].kind # "record"
  BY <1>1, <1>2
<1> QED
  BY <1>1, <1>2 DEF RecordsAt, IsRecordOf

\* A step that writes no record and shortens no length
LEMMA ReachKept ==
  ASSUME StayInv, ReachInv, file' = file,
         NEW x \in Seq(Cells), cells' = cells \o x,
         \A i \in 1 .. Len(x) : x[i].kind # "record",
         \A d \in DataGroups : dt[d] # 0 => dt'[d] = dt[d] /\ length'[d] = length[d],
         pc \in InFile => pc' \in InFile /\ current' = current
  PROVE  ReachInv'
<1> SUFFICES ASSUME NEW d \in DataGroups
             PROVE  /\ \A k \in 1 .. Len(file[d]) :
                         \E i \in RecordsAt(d)' : cells'[i] = RecordCell(d, file[d][k])
                    /\ \A i \in RecordsAt(d)' :
                         \E k \in 1 .. Len(file[d]) : cells'[i] = RecordCell(d, file[d][k])
                    /\ \A i, j \in RecordsAt(d)' : i < j => cells'[i].n < cells'[j].n
                    /\ \A i \in RecordsAt(d)' : 0 < dt'[d] /\ dt'[d] < i
                    /\ \A i \in RecordsAt(d)' :
                         i <= dt'[d] + length'[d] \/ (d = current' /\ pc' \in InFile)
  BY DEF ReachInv, RecordCell
<1>1. RecordsAt(d)' = RecordsAt(d) /\ \A i \in RecordsAt(d) : cells'[i] = cells[i]
  BY RecordsKept DEF StayInv
<1>2. \A i \in RecordsAt(d) : dt'[d] = dt[d] /\ length'[d] = length[d]
  BY DEF ReachInv
<1>3. /\ \A k \in 1 .. Len(file[d]) :
           \E i \in RecordsAt(d) : cells[i] = RecordCell(d, file[d][k])
      /\ \A i \in RecordsAt(d) :
           \E k \in 1 .. Len(file[d]) : cells[i] = RecordCell(d, file[d][k])
      /\ \A i, j \in RecordsAt(d) : i < j => cells[i].n < cells[j].n
      /\ \A i \in RecordsAt(d) : 0 < dt[d] /\ dt[d] < i
      /\ \A i \in RecordsAt(d) : i <= dt[d] + length[d] \/ (d = current /\ pc \in InFile)
  BY DEF ReachInv
<1>4. \A i \in RecordsAt(d)' :
        i <= dt'[d] + length'[d] \/ (d = current' /\ pc' \in InFile)
  BY <1>1, <1>2, <1>3
<1>5. \A i \in RecordsAt(d)' : 0 < dt'[d] /\ dt'[d] < i
  BY <1>1, <1>2, <1>3
<1> QED
  BY <1>1, <1>3, <1>4, <1>5

\* A record is the last one of its group, in the file as in the data block.
LEMMA WriteReaches ==
  ASSUME TypeOK, CountInv, OrderInv, StayInv, ReachInv, LayoutWriteSample,
         NEW o \in DataGroups, current = o
  PROVE  ReachInv'
<1> DEFINE s == hand[1]
           c == RecordCell(o, s)
<1>1. /\ pc = "write" /\ pc' = "drain" /\ current' = o
      /\ file' = [file EXCEPT ![o] = @ \o hand]
      /\ UNCHANGED <<dt, length>>
  BY DEF LayoutWriteSample, WriteSample
<1>2. /\ hand \in Seq(Samples) /\ Len(hand) = 1 
      /\ file \in [DataGroups -> Seq(Samples)] /\ cells \in Seq(Cells)
      /\ dt \in [DataGroups -> Nat] /\ length \in [DataGroups -> Nat]
  BY <1>1 DEF TypeOK, CountInv, StayInv
<1>3. s \in Samples /\ s.n \in Nat /\ hand = <<s>> /\ Head(hand) = s
  <2>1. s \in Samples
    <3>1. 1 \in 1 .. Len(hand)
      BY <1>2
    <3> QED
      BY <1>2, <3>1, Numbered
  <2>2. hand = <<s>>
    BY <1>2
  <2> QED
    BY <2>1, <2>2 DEF Samples
<1>4. /\ c \in Cells /\ c.kind = "record" /\ c.owner = o /\ c.n = s.n
      /\ cells' = Append(cells, c)
  BY <1>2, <1>3, CellTypes DEF LayoutWriteSample, RecordCell
<1> DEFINE m == Len(cells)
<1> HIDE DEF c
<1>5. /\ m \in Nat /\ Len(cells') = m + 1 /\ cells'[m + 1] = c
      /\ \A i \in 1 .. m : cells'[i] = cells[i]
  BY <1>2, <1>4, AppendProperties
<1>6. /\ RecordsAt(o)' = RecordsAt(o) \union {m + 1}
      /\ \A d \in DataGroups : d # o => RecordsAt(d)' = RecordsAt(d)
      /\ \A d \in DataGroups : RecordsAt(d) \subseteq 1 .. m
  <2> HIDE DEF m
  <2>1. /\ \A d \in DataGroups : RecordsAt(d) = {i \in 1 .. m : IsRecordOf(cells[i], d)}
        /\ \A d \in DataGroups : RecordsAt(d)' = {i \in 1 .. m + 1 : IsRecordOf(cells'[i], d)}
    BY <1>5 DEF RecordsAt, IsRecordOf, m
  <2>2. \A d \in DataGroups, i \in 1 .. m : IsRecordOf(cells'[i], d) <=> IsRecordOf(cells[i], d)
    BY <1>5 DEF IsRecordOf
  <2>3. \A d \in DataGroups : IsRecordOf(cells'[m + 1], d) <=> d = o
    BY <1>4, <1>5 DEF IsRecordOf
  <2>4. 1 .. m + 1 = (1 .. m) \union {m + 1}
    BY <1>5
  <2>5. ASSUME NEW d \in DataGroups
        PROVE  /\ d = o => RecordsAt(d)' = RecordsAt(d) \union {m + 1}
               /\ d # o => RecordsAt(d)' = RecordsAt(d)
               /\ RecordsAt(d) \subseteq 1 .. m
    <3>1. /\ RecordsAt(d) = {i \in 1 .. m : IsRecordOf(cells[i], d)}
          /\ RecordsAt(d)' = {i \in (1 .. m) \union {m + 1} : IsRecordOf(cells'[i], d)}
      BY <2>1, <2>4
    <3>2. /\ \A i \in 1 .. m : IsRecordOf(cells'[i], d) <=> IsRecordOf(cells[i], d)
          /\ IsRecordOf(cells'[m + 1], d) <=> d = o
      BY <2>2, <2>3
    <3> QED
      BY <3>1, <3>2, Zenon
  <2> QED
    BY <1>2, <2>5
<1> HIDE DEF m, s
<1> DEFINE f == file[o]
<1>7. /\ f \in Seq(Samples) /\ Len(f) \in Nat /\ file'[o] = Append(f, s)
      /\ \A d \in DataGroups : d # o => file'[d] = file[d]
  <2>1. f \in Seq(Samples)
    BY <1>2
  <2>2. f \o hand = Append(f, s)
    BY <1>3, <2>1, AppendIsConcat
  <2> QED
    BY <1>1, <1>2, <2>1, <2>2
<1> HIDE DEF f
<1>8. /\ Len(Append(f, s)) = Len(f) + 1 /\ Append(f, s)[Len(f) + 1] = s
      /\ \A k \in 1 .. Len(f) : Append(f, s)[k] = f[k]
  BY <1>3, <1>7, AppendProperties
<1>9. \A k \in 1 .. Len(f) : f[k].n < s.n
  <2>1. Before(f, hand)
    BY <1>2 DEF OrderInv, Chain, Hand, f
  <2>2. 1 \in 1 .. Len(hand)
    BY <1>2
  <2> QED
    BY <2>1, <2>2 DEF Before, s
<1>10. \A i \in RecordsAt(o) : cells[i].n < c.n
  <2>1. \A i \in RecordsAt(o) :
          \E k \in 1 .. Len(f) : cells[i] = RecordCell(o, f[k])
    BY <1>2 DEF ReachInv, f
  <2>2. \A k \in 1 .. Len(f) : RecordCell(o, f[k]).n = f[k].n
    BY DEF RecordCell
  <2> QED
    BY <1>4, <1>9, <2>1, <2>2
<1>11. dt[o] # 0 /\ dt[o] <= m
  <2>1. dt[o] + length[o] <= Len(cells)
    BY <1>2 DEF StayInv
  <2> QED
    BY <1>1, <1>2, <2>1 DEF StayInv, InFile, m
<1>12. ASSUME NEW d \in DataGroups, d # o
       PROVE  /\ \A k \in 1 .. Len(file'[d]) :
                   \E i \in RecordsAt(d)' : cells'[i] = RecordCell(d, file'[d][k])
              /\ \A i \in RecordsAt(d)' :
                   \E k \in 1 .. Len(file'[d]) : cells'[i] = RecordCell(d, file'[d][k])
              /\ \A i, j \in RecordsAt(d)' : i < j => cells'[i].n < cells'[j].n
              /\ \A i \in RecordsAt(d)' : 0 < dt[d] /\ dt[d] < i /\ i <= dt[d] + length[d]
  <2>1. /\ RecordsAt(d)' = RecordsAt(d) /\ file'[d] = file[d]
        /\ \A i \in RecordsAt(d) : cells'[i] = cells[i]
    BY <1>5, <1>6, <1>7, <1>12
  <2> QED
    BY <1>12, <2>1 DEF ReachInv
<1>13. /\ \A k \in 1 .. Len(file'[o]) :
            \E i \in RecordsAt(o)' : cells'[i] = RecordCell(o, file'[o][k])
       /\ \A i \in RecordsAt(o)' :
            \E k \in 1 .. Len(file'[o]) :
              cells'[i] = RecordCell(o, file'[o][k])
  <2>1. /\ \A k \in 1 .. Len(f) : \E i \in RecordsAt(o) : cells[i] = RecordCell(o, f[k])
        /\ \A i \in RecordsAt(o) : \E k \in 1 .. Len(f) : cells[i] = RecordCell(o, f[k])
    BY <1>2 DEF ReachInv, f
  <2>2. ASSUME NEW k \in 1 .. Len(f) + 1
        PROVE  \E i \in RecordsAt(o)' : cells'[i] = RecordCell(o, Append(f, s)[k])
    <3>1. CASE k = Len(f) + 1
      BY <1>5, <1>6, <1>8, <3>1 DEF c
    <3>2. CASE k # Len(f) + 1
      <4>1. k \in 1 .. Len(f)
        BY <1>7, <3>2
      <4> QED
        BY <1>2, <1>5, <1>6, <1>8, <2>1, <4>1
    <3> QED
      BY <3>1, <3>2
  <2>3. ASSUME NEW i \in RecordsAt(o)'
        PROVE  \E k \in 1 .. Len(f) + 1 : cells'[i] = RecordCell(o, Append(f, s)[k])
    <3>1. CASE i = m + 1
      <4>1. Len(f) + 1 \in 1 .. Len(f) + 1
        BY <1>7
      <4> QED
        BY <1>5, <1>8, <3>1, <4>1 DEF c
    <3>2. CASE i # m + 1
      <4>1. i \in RecordsAt(o) /\ i \in 1 .. m
        BY <1>2, <1>6, <3>2
      <4>2. PICK k \in 1 .. Len(f) : cells[i] = RecordCell(o, f[k])
        BY <2>1, <4>1
      <4>3. k \in 1 .. Len(f) + 1
        BY <1>7
      <4> QED
        BY <1>5, <1>8, <4>1, <4>2, <4>3
    <3> QED
      BY <3>1, <3>2
  <2>4. file'[o] = Append(f, s) /\ Len(file'[o]) = Len(f) + 1
    BY <1>7, <1>8
  <2> QED
    BY <2>2, <2>3, <2>4
<1>14. \A i, j \in RecordsAt(o)' : i < j => cells'[i].n < cells'[j].n
  <2>1. \A i, j \in RecordsAt(o) : i < j => cells[i].n < cells[j].n
    BY <1>2 DEF ReachInv
  <2>2. \A i \in RecordsAt(o) : i \in 1 .. m /\ cells'[i] = cells[i]
    BY <1>2, <1>5, <1>6
  <2> QED
    BY <1>5, <1>6, <1>10, <2>1, <2>2
<1>15. \A i \in RecordsAt(o)' : 0 < dt[o] /\ dt[o] < i
  <2>1. dt[o] \in Nat
    BY <1>2
  <2> QED
    BY <1>2, <1>5, <1>6, <1>11, <2>1 DEF ReachInv
<1>16. /\ \A d \in DataGroups : dt'[d] = dt[d] /\ length'[d] = length[d]
       /\ pc' \in InFile /\ current' = o
  BY <1>1 DEF InFile
<1>17. \A d \in DataGroups :
         /\ \A k \in 1 .. Len(file'[d]) :
              \E i \in RecordsAt(d)' : cells'[i] = RecordCell(d, file'[d][k])
         /\ \A i \in RecordsAt(d)' :
              \E k \in 1 .. Len(file'[d]) : cells'[i] = RecordCell(d, file'[d][k])
         /\ \A i, j \in RecordsAt(d)' : i < j => cells'[i].n < cells'[j].n
         /\ \A i \in RecordsAt(d)' : 0 < dt'[d] /\ dt'[d] < i
         /\ \A i \in RecordsAt(d)' :
              i <= dt'[d] + length'[d] \/ (d = current' /\ pc' \in InFile)
  BY <1>12, <1>13, <1>14, <1>15, <1>16
<1> QED
  BY <1>17 DEF ReachInv, RecordCell

\* The end of a flush sets the length to the end of the file.
LEMMA CloseReaches ==
  ASSUME TypeOK, StayInv, ReachInv, LayoutUpdateAndClose
  PROVE  ReachInv'
<1>1. /\ UNCHANGED <<cells, file, dt, current>>
      /\ length' = [length EXCEPT ![current] = Len(cells) - dt[current]]
  BY DEF LayoutUpdateAndClose, UpdateAndClose, UpdateAndCloseFile, LengthToEnd
<1>2. /\ cells \in Seq(Cells) /\ Len(cells) \in Nat /\ current \in DataGroups
      /\ dt \in [DataGroups -> Nat] /\ length \in [DataGroups -> Nat]
  BY DEF TypeOK, StayInv
<1>3. ASSUME NEW d \in DataGroups, NEW i \in RecordsAt(d)
      PROVE  i <= dt[d] + length'[d]
  <2>1. CASE d = current
    BY <1>1, <1>2, <2>1 DEF RecordsAt
  <2>2. CASE d # current
    BY <1>1, <1>2, <2>2 DEF ReachInv
  <2> QED
    BY <2>1, <2>2
<1>4. \A d \in DataGroups : RecordsAt(d)' = RecordsAt(d)
  BY <1>1 DEF RecordsAt, IsRecordOf
<1> QED
  BY <1>1, <1>3, <1>4 DEF ReachInv, RecordCell

LEMMA LayoutReachInv ==
  ASSUME TypeOK, CountInv, OrderInv, StayInv, ReachInv, LayoutNext
  PROVE  ReachInv'
<1>1. /\ <<>> \in Seq(Cells) /\ cells \o <<>> = cells /\ cells \in Seq(Cells)
      /\ \A i \in 1 .. Len(<<>>) : <<>>[i].kind # "record"
  BY ConcatEmptySeq DEF StayInv
<1>2. CASE Unplaced /\ UNCHANGED layoutVars
  <2>1. /\ cells' = cells \o <<>> /\ file' = file
        /\ dt' = dt /\ length' = length
        /\ pc \in InFile => pc' \in InFile /\ current' = current
    BY <1>1, <1>2, UnplacedKeeps, UnplacedInFile DEF layoutVars
  <2> QED
    BY <1>1, <2>1, ReachKept
<1>3. CASE LayoutOpenFile
  <2>1. /\ pc = "open" /\ UNCHANGED <<file, length>> /\ pc \notin InFile
        /\ dt \in [DataGroups -> Nat] /\ current \in DataGroups
    BY <1>3 DEF LayoutOpenFile, OpenFile, InFile, StayInv, TypeOK
  <2>2. CASE dt[current] # 0
    <3>1. cells' = cells \o <<>> /\ dt' = dt
      BY <1>1, <1>3, <2>2 DEF LayoutOpenFile
    <3> QED
      BY <1>1, <2>1, <3>1, ReachKept
  <2>3. CASE dt[current] = 0
    <3>1. /\ cells' = Append(cells, DtCell(current))
          /\ dt' = [dt EXCEPT ![current] = Len(cells) + 1]
      BY <1>3, <2>3 DEF LayoutOpenFile
    <3>2. DtCell(current) \in Cells /\ DtCell(current).kind # "record"
      BY <2>1 DEF DtCell, Cells
    <3> DEFINE c == DtCell(current)
    <3> HIDE DEF c
    <3>3. /\ <<c>> \in Seq(Cells) /\ cells' = cells \o <<c>>
          /\ \A i \in 1 .. Len(<<c>>) : <<c>>[i].kind # "record"
      BY <1>1, <3>1, <3>2, AppendIsConcat DEF c
    <3>4. \A d \in DataGroups : dt[d] # 0 => dt'[d] = dt[d] /\ length'[d] = length[d]
      BY <2>1, <2>3, <3>1
    <3> QED
      BY <2>1, <3>3, <3>4, ReachKept
  <2> QED
    BY <2>2, <2>3
<1>4. CASE LayoutInitWrites
  <2> DEFINE n == Cardinality(Configured \ written)
             x == [i \in 1 .. n |-> OtherCell]
  <2>1. n \in Nat
    <3>1. Configured \subseteq DataGroups
      BY DEF TypeOK, Configured
    <3>2. IsFiniteSet(Configured \ written)
      BY <3>1, DataGroupsAssumption, FS_Subset
    <3> QED
      BY <3>2, FS_CardinalityType
  <2>2. OtherCell \in Cells /\ OtherCell.kind # "record"
    BY DEF OtherCell, Cells
  <2>3. x \in Seq(Cells) /\ \A i \in 1 .. Len(x) : x[i].kind # "record"
    <3> HIDE DEF n
    <3> QED
      BY <2>1, <2>2
  <2>4. /\ cells' = cells \o x /\ UNCHANGED <<file, dt, length>> /\ pc \notin InFile
    BY <1>4 DEF LayoutInitWrites, InitWrites, CountInv, InFile
  <2> HIDE DEF x
  <2> QED
    BY <2>3, <2>4, ReachKept
<1>5. CASE LayoutFinalizeWrites
  <2>1. OtherCell \in Cells /\ OtherCell.kind # "record"
    BY DEF OtherCell, Cells
  <2> DEFINE c == OtherCell
  <2> HIDE DEF c
  <2>2. /\ <<c>> \in Seq(Cells)
        /\ \A i \in 1 .. Len(<<c>>) : <<c>>[i].kind # "record"
    BY <2>1 DEF c
  <2>3. /\ cells' = cells \o <<>> \/ cells' = cells \o <<c>>
        /\ UNCHANGED <<file, dt, length, pc, current>>
    BY <1>5 DEF LayoutFinalizeWrites, FinalizeWrites, threadVars, c
  <2> QED
    BY <1>1, <2>2, <2>3, ReachKept
<1> QED
  BY <1>2, <1>3, <1>4, <1>5, WriteReaches, CloseReaches, LayoutCases DEF TypeOK

\* What a reader finds in a data block are the cells the block spans.
LEMMA ExtentIsPart ==
  ASSUME StayInv, NEW d \in DataGroups
  PROVE  /\ DOMAIN Extent(d) = 1 .. length[d]
         /\ \A i \in 1 .. length[d] :
              dt[d] + i \in 1 .. Len(cells) /\ Extent(d)[i] = cells[dt[d] + i]
<1> DEFINE a == dt[d]
           l == length[d]
<1>1. a \in Nat /\ l \in Nat /\ cells \in Seq(Cells) /\ Len(cells) \in Nat
      /\ a + l <= Len(cells)
  BY DEF StayInv
<1> DEFINE n == a + l
<1>2. n \in Nat /\ \A i \in a + 1 .. n : i \in 1 .. Len(cells) /\ cells[i] \in Cells
  <2> HIDE DEF a, l
  <2> QED
    BY <1>1
<1>3. Extent(d) = SubSeq(cells, a + 1, n) /\ n = a + l
  BY DEF Extent
<1> HIDE DEF a, l, n
<1>4. a + 1 \in Int /\ n \in Int
  BY <1>1, <1>2
<1>5. /\ SubSeq(cells, a + 1, n) \in Seq(Cells)
      /\ Len(SubSeq(cells, a + 1, n)) = IF a + 1 <= n THEN n - (a + 1) + 1 ELSE 0
      /\ \A i \in 1 .. n - (a + 1) + 1 : SubSeq(cells, a + 1, n)[i] = cells[a + 1 + i - 1]
  BY <1>2, <1>4, SubSeqProperties
<1>6. Extent(d) \in Seq(Cells) /\ Len(Extent(d)) = l
  BY <1>1, <1>3, <1>5
<1>7. DOMAIN Extent(d) = 1 .. l
  BY <1>6
<1>8. ASSUME NEW i \in 1 .. l PROVE a + i \in 1 .. Len(cells) /\ Extent(d)[i] = cells[a + i]
  <2>1. i \in 1 .. n - (a + 1) + 1 /\ a + 1 + i - 1 = a + i /\ a + i \in a + 1 .. n
    BY <1>1, <1>3
  <2> QED
    BY <1>2, <1>3, <1>5, <2>1
<1> QED
  BY <1>7, <1>8 DEF a, l

LEMMA ReachIsReachable ==
  ASSUME TypeOK, CountInv, StayInv, ReachInv, users = {}, NEW d \in DataGroups
  PROVE  LET own == {i \in DOMAIN Extent(d) : IsRecordOf(Extent(d)[i], d)}
         IN  /\ {Extent(d)[i] : i \in own} = {RecordCell(d, file[d][k]) : k \in DOMAIN file[d]}
             /\ \A i, j \in own : i < j => Extent(d)[i].n < Extent(d)[j].n
<1> DEFINE own == {i \in DOMAIN Extent(d) : IsRecordOf(Extent(d)[i], d)}
<1>1. pc \notin InFile
  BY DEF CountInv
<1>2. dt[d] \in Nat /\ length[d] \in Nat /\ file[d] \in Seq(Samples)
  BY DEF StayInv, TypeOK
<1>3. /\ \A k \in 1 .. Len(file[d]) :
           \E i \in RecordsAt(d) : cells[i] = RecordCell(d, file[d][k])
      /\ \A i \in RecordsAt(d) :
           \E k \in 1 .. Len(file[d]) : cells[i] = RecordCell(d, file[d][k])
      /\ \A i, j \in RecordsAt(d) : i < j => cells[i].n < cells[j].n
      /\ \A i \in RecordsAt(d) : dt[d] < i /\ i <= dt[d] + length[d]
  BY <1>1 DEF ReachInv
<1>4. ASSUME NEW i \in own
      PROVE  i \in Int /\ dt[d] + i \in RecordsAt(d) /\ Extent(d)[i] = cells[dt[d] + i]
  <2>1. /\ i \in 1 .. length[d] /\ dt[d] + i \in 1 .. Len(cells)
        /\ Extent(d)[i] = cells[dt[d] + i]
    BY ExtentIsPart
  <2>2. IsRecordOf(cells[dt[d] + i], d)
    BY <2>1
  <2> QED
    BY <2>1, <2>2 DEF RecordsAt
<1>5. ASSUME NEW j \in RecordsAt(d)
      PROVE  j - dt[d] \in own /\ Extent(d)[j - dt[d]] = cells[j]
  <2>1. j \in 1 .. Len(cells) /\ IsRecordOf(cells[j], d)
    BY DEF RecordsAt
  <2>2. j - dt[d] \in 1 .. length[d] /\ dt[d] + (j - dt[d]) = j
    BY <1>2, <1>3, <2>1
  <2> QED
    BY <2>1, <2>2, ExtentIsPart
<1> HIDE DEF own
<1>6. DOMAIN file[d] = 1 .. Len(file[d])
  BY <1>2
<1>7. {Extent(d)[i] : i \in own} = {RecordCell(d, file[d][k]) : k \in DOMAIN file[d]}
  <2>1. ASSUME NEW i \in own
        PROVE  \E k \in DOMAIN file[d] : Extent(d)[i] = RecordCell(d, file[d][k])
    BY <1>3, <1>4, <1>6
  <2>2. ASSUME NEW k \in DOMAIN file[d]
        PROVE  \E i \in own : RecordCell(d, file[d][k]) = Extent(d)[i]
    <3>1. PICK j \in RecordsAt(d) : cells[j] = RecordCell(d, file[d][k])
      BY <1>3, <1>6
    <3> QED
      BY <1>5, <3>1
  <2>3. {Extent(d)[i] : i \in own} \subseteq {RecordCell(d, file[d][k]) : k \in DOMAIN file[d]}
    BY <2>1
  <2>4. {RecordCell(d, file[d][k]) : k \in DOMAIN file[d]} \subseteq {Extent(d)[i] : i \in own}
    BY <2>2
  <2> QED
    BY <2>3, <2>4
<1>8. \A i, j \in own : i < j => Extent(d)[i].n < Extent(d)[j].n
  <2> SUFFICES ASSUME NEW i \in own, NEW j \in own, i < j
               PROVE  Extent(d)[i].n < Extent(d)[j].n
    OBVIOUS
  <2>1. dt[d] + i < dt[d] + j
    BY <1>2, <1>4
  <2> QED
    BY <1>3, <1>4, <2>1
<1> QED
  BY <1>7, <1>8 DEF own

\* Outside a flush a reader finds every record of a data group in its data
\* block, once and in the order the samples were saved: for a client that calls
\* in any order, groups that take part in several measurements included, and
\* any number of groups, measurements and samples.
THEOREM RecordsAreReachable == LayoutSpec => []RecordsReachable
<1> DEFINE RInv == CountInv /\ FlushInv /\ OrderInv /\ StayInv /\ ReachInv
<1>1. LayoutInit => RInv
  <2> SUFFICES ASSUME LayoutInit PROVE RInv
    OBVIOUS
  <2>1. Init
    BY DEF LayoutInit
  <2>2. CountInv /\ FlushInv
    BY <2>1 DEF Init, CountInv, FlushInv, InFile
  <2>3. StayInv
    BY <2>1 DEF LayoutInit, Init, StayInv, InFile
  <2>4. OrderInv
    BY <2>1, InitOrderInv
  <2>5. ReachInv
    <3>1. \A d \in DataGroups : RecordsAt(d) = {} /\ Len(file[d]) = 0
      BY <2>1 DEF LayoutInit, Init, RecordsAt
    <3> QED
      BY <3>1 DEF ReachInv
  <2> QED
    BY <2>2, <2>3, <2>4, <2>5
<1>2. TypeOK /\ RInv /\ [LayoutNext]_lvars => RInv'
  <2>1. RInv /\ UNCHANGED lvars => RInv'
    <3> SUFFICES ASSUME RInv, UNCHANGED lvars PROVE RInv'
      OBVIOUS
    <3> USE DEF lvars, layoutVars, vars, cacheVars, clientVars, writerVars, queueVars,
                threadVars, fileVars, InFile
    <3>1. CountInv' /\ FlushInv'
      BY DEF CountInv, FlushInv, Flushed, Pending, Hand
    <3>2. OrderInv'
      BY DEF OrderInv, Chain, Before, InOrder, UpTo, Hand
    <3>3. StayInv'
      BY DEF StayInv
    <3>4. ReachInv'
      BY DEF ReachInv, RecordsAt, IsRecordOf, RecordCell
    <3> QED
      BY <3>1, <3>2, <3>3, <3>4
  <2>2. TypeOK /\ RInv /\ LayoutNext => CountInv' /\ FlushInv' /\ OrderInv'
    BY LayoutSteps, WorkCountInv, WorkFlushInv, WorkOrderInv, ClientCountInv,
       ClientFlushInv, ClientOrderInv DEF LayoutNext
  <2>3. TypeOK /\ RInv /\ LayoutNext => StayInv' /\ ReachInv'
    BY LayoutStayInv, LayoutReachInv
  <2> QED
    BY <2>1, <2>2, <2>3
<1>3. TypeOK /\ RInv => RecordsReachable
  BY ReachIsReachable DEF RecordsReachable
<1> HIDE DEF RInv
<1> QED
  BY <1>1, <1>2, <1>3, LayoutIsWriter, TypeCorrect, PTL DEF LayoutSpec
=============================================================================

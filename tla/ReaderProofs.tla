---------------------------- MODULE ReaderProofs ----------------------------
(***************************************************************************)
(* Theorems about reading the samples of a data group, for files of any    *)
(* length, any blocks and channel groups and any range: the reader is in   *)
(* step with the records, and does not read on when every group has met a  *)
(* record behind the range.                                                *)
(***************************************************************************)
EXTENDS SampleReader, RecordStreamProofs

-----------------------------------------------------------------------------
(* StopsBehindRange *)

CountersTyped ==
  /\ sample \in [Groups -> Nat]
  /\ partial \in BOOLEAN
  /\ range \in [min : Nat, max : Nat]
  /\ partial => range.min <= range.max

\* A group in use has an observer and samples in the range, and no sample of it
\* behind the range was seen.
UsedMetNone ==
  /\ used \subseteq UsedGroups
  /\ partial => \A g \in used \cap Groups : sample[g] <= range.max

\* In between two records of a range some group is in use.
NotReady ==
  partial /\ reading /\ next = "id" /\ cache # NewReader => used # {}

RangeInv ==
  /\ observed \subseteq Groups
  /\ CountersTyped
  /\ UsedMetNone
  /\ NotReady

-----------------------------------------------------------------------------
LEMMA RangeInvInit == ASSUME Init PROVE RangeInv
<1>1. CountersTyped
  <2>1. range \in [min : Nat, max : Nat] /\ (partial => range.min <= range.max)
    <3>1. CASE partial
      <4>1. range \in {r \in [min : 0 .. MaxSample, max : 0 .. MaxSample] : r.min <= r.max}
        BY <3>1 DEF Init
      <4> QED
        BY <4>1
    <3>2. CASE ~partial
      BY <3>2 DEF Init, AllSamples
    <3> QED
      BY <3>1, <3>2
  <2>2. sample \in [Groups -> Nat] /\ partial \in BOOLEAN
    BY DEF Init
  <2> QED
    BY <2>1, <2>2 DEF CountersTyped
<1>2. observed \subseteq Groups
  BY DEF Init
<1>3. used \subseteq UsedGroups
  BY DEF Init
<1>4. \A g \in used \cap Groups : sample[g] <= range.max
  BY <1>1 DEF Init, CountersTyped
<1>5. NotReady
  BY DEF Init, ParseInit, NotReady
<1> QED
  BY <1>1, <1>2, <1>3, <1>4, <1>5 DEF RangeInv, UsedMetNone

\* The file, the subscriptions and the range do not change.
LEMMA FileKept ==
  ASSUME UNCHANGED file
  PROVE  /\ Groups' = Groups
         /\ UsedGroups' = UsedGroups
         /\ \A n : InRange(n)' = InRange(n)
BY DEF file, data, Groups, FixedGroups, VlsdGroups, UsedGroups, InRange

\* Counting the sample of a group changes no other counter.
LEMMA IncrementOne ==
  ASSUME sample \in [Groups -> Nat], NEW g
  PROVE  /\ IncrementSample(g) \in [Groups -> Nat]
         /\ \A h \in Groups : IncrementSample(g)[h] \in {sample[h], sample[h] + 1}
         /\ \A h \in Groups : h # g => IncrementSample(g)[h] = sample[h]
<1>1. CASE sample[g] < nof[g]
  <2>1. IncrementSample(g) = [h \in Groups |-> IF h = g THEN sample[h] + 1 ELSE sample[h]]
    BY <1>1 DEF IncrementSample
  <2>2. \A h \in Groups : sample[h] \in Nat /\ sample[h] + 1 \in Nat
    OBVIOUS
  <2> QED
    BY <2>1, <2>2
<1>2. CASE ~(sample[g] < nof[g])
  BY <1>2 DEF IncrementSample
<1> QED
  BY <1>1, <1>2

\* A step that neither counts nor ends the use of a group
LEMMA HeaderKeepsRangeInv ==
  ASSUME RangeInv, UNCHANGED <<file, sample, used>>,
         NotReady'
  PROVE  RangeInv'
BY FileKept DEF RangeInv, CountersTyped, UsedMetNone, file

LEMMA SkipKeepsRangeInv == ASSUME RangeInv, SkipRecord PROVE RangeInv'
<1> USE DEF RangeInv
<1>1. UNCHANGED file
  BY DEF SkipRecord
<1>2. CountersTyped'
  BY <1>1, FileKept, IncrementOne DEF SkipRecord, CountersTyped, file
<1>3. used' \subseteq UsedGroups'
  BY <1>1, FileKept DEF SkipRecord, StillUsed, UsedMetNone
<1>4. ASSUME partial', NEW g \in used' \cap Groups'
      PROVE  sample'[g] <= range'.max
  <2>1. partial /\ range' = range /\ g \in used /\ g \in Groups
    BY <1>1, <1>4, FileKept DEF SkipRecord, StillUsed, file
  <2>2. sample[g] \in Nat /\ range.min \in Nat /\ range.max \in Nat /\ range.min <= range.max
    BY <2>1 DEF CountersTyped
  <2>3. CASE g # group
    BY <2>1, <2>2, <2>3, IncrementOne DEF SkipRecord, CountersTyped, UsedMetNone
  <2>4. CASE g = group
    <3>1. g \in observed
      BY <2>1 DEF UsedMetNone, UsedGroups
    <3>2. ~InRange(sample[g])
      BY <2>1, <2>4, <3>1 DEF SkipRecord, Reads
    <3>3. ~(sample[g] + 1 > range.max)
      BY <1>4, <2>1, <2>4 DEF SkipRecord, StillUsed
    <3>4. sample'[g] \in {sample[g], sample[g] + 1}
      BY <2>1, IncrementOne DEF SkipRecord, CountersTyped
    <3> QED
      BY <2>1, <2>2, <3>3, <3>4
  <2> QED
    BY <2>3, <2>4
<1>5. NotReady'
  <2>1. reading' => ~IsReady(used')
    BY DEF SkipRecord
  <2>2. partial' => partial
    BY <1>1 DEF file
  <2>3. partial' /\ reading' => used' # {}
    BY <2>1, <2>2 DEF IsReady
  <2> QED
    BY <1>1, <2>3 DEF NotReady
<1>6. UsedMetNone'
  BY <1>3, <1>4 DEF UsedMetNone
<1>7. (observed \subseteq Groups)'
  BY <1>1, FileKept DEF file
<1> QED
  BY <1>2, <1>5, <1>6, <1>7

LEMMA ReadKeepsRangeInv == ASSUME RangeInv, ReadRecord PROVE RangeInv'
<1> USE DEF RangeInv
<1>1. UNCHANGED <<file, used>>
  BY DEF ReadRecord
<1>2. CountersTyped'
  BY <1>1, FileKept, IncrementOne DEF ReadRecord, CountersTyped, file
<1>3. used' \subseteq UsedGroups'
  BY <1>1, FileKept DEF UsedMetNone
<1>4. ASSUME partial', NEW g \in used' \cap Groups'
      PROVE  sample'[g] <= range'.max
  <2>1. partial /\ range' = range /\ g \in used /\ g \in Groups
    BY <1>1, <1>4, FileKept DEF file
  <2>2. sample[g] \in Nat /\ range.max \in Nat
    BY <2>1 DEF CountersTyped
  <2>3. CASE g # group
    BY <2>1, <2>2, <2>3, IncrementOne DEF ReadRecord, CountersTyped, UsedMetNone
  <2>4. CASE g = group
    <3>1. sample[g] + 1 <= range.max
      BY <2>1, <2>4 DEF ReadRecord, Reads, InRange
    <3>2. sample'[g] \in {sample[g], sample[g] + 1}
      BY <2>1, IncrementOne DEF ReadRecord, CountersTyped
    <3> QED
      BY <2>1, <2>2, <3>1, <3>2
  <2> QED
    BY <2>3, <2>4
<1>5. NotReady'
  <2>1. reading' => ~IsReady(used)
    BY DEF ReadRecord
  <2>2. partial' => partial
    BY <1>1 DEF file
  <2>3. partial' /\ reading' => used # {}
    BY <2>1, <2>2 DEF IsReady
  <2> QED
    BY <1>1, <2>3 DEF NotReady
<1>6. UsedMetNone'
  BY <1>3, <1>4 DEF UsedMetNone
<1>7. (observed \subseteq Groups)'
  BY <1>1, FileKept DEF file
<1> QED
  BY <1>2, <1>5, <1>6, <1>7

LEMMA RangeInvNext == ASSUME RangeInv, [Next]_vars PROVE RangeInv'
<1>1. CASE EndOfData
  BY <1>1, HeaderKeepsRangeInv DEF EndOfData, NotReady
<1>2. CASE ReadHeader
  <2>1. next' # "id"
    BY <1>2 DEF ReadHeader, ParseRecordId, ParseLength
  <2> QED
    BY <1>2, <2>1, HeaderKeepsRangeInv DEF ReadHeader, NotReady
<1>3. CASE SkipRecord
  BY <1>3, SkipKeepsRangeInv
<1>4. CASE ReadRecord
  BY <1>4, ReadKeepsRangeInv
<1>5. CASE Fail
  BY <1>5, HeaderKeepsRangeInv DEF Fail, NotReady
<1>6. CASE UNCHANGED vars
  <2>1. NotReady'
    BY <1>6 DEF vars, file, state, parsing, NotReady, RangeInv
  <2> QED
    BY <1>6, <2>1, HeaderKeepsRangeInv DEF vars, state
<1> QED
  BY <1>1, <1>2, <1>3, <1>4, <1>5, <1>6 DEF Next, Returned

\* The invariant names a group that has met no record behind the range.
LEMMA RangeInvStops == ASSUME RangeInv PROVE StopsBehindRange
<1> SUFFICES ASSUME reading, partial, next = "id", cache # NewReader
             PROVE  \E g \in observed :
                      /\ g \in VlsdGroups \/ range.min <= nof[g]
                      /\ ~MetBehindRange(g)
  BY DEF StopsBehindRange
<1>1. PICK g \in used : TRUE
  BY DEF RangeInv, NotReady
<1>2. g \in observed /\ (g \in VlsdGroups \/ range.min <= nof[g])
  BY <1>1 DEF RangeInv, UsedMetNone, UsedGroups
<1>3. ~MetBehindRange(g)
  <2>1. sample[g] <= range.max /\ sample[g] \in Nat /\ range.max \in Nat
    BY <1>1, <1>2 DEF RangeInv, UsedMetNone, CountersTyped
  <2> QED
    BY <2>1 DEF MetBehindRange
<1> QED
  BY <1>2, <1>3

\* A read of a range goes on after a record only while some group with an
\* observer and samples up to the range has met no record behind it: the first
\* record behind the range of the last such group ends the read.  A group that
\* ends with the range has none, and the read then goes to the end of the file.
THEOREM ReadsNoFurther == Spec => []StopsBehindRange
<1>1. Init => RangeInv
  BY RangeInvInit
<1>2. RangeInv /\ [Next]_vars => RangeInv'
  BY RangeInvNext
<1>3. RangeInv => StopsBehindRange
  BY RangeInvStops
<1> QED
  BY <1>1, <1>2, <1>3, PTL DEF Spec

-----------------------------------------------------------------------------
(* InSync *)

\* A block of a channel group counts no more samples than there are records.
SamplesCounted ==
  /\ nof \in [Groups -> Nat]
  /\ \A g \in Groups : nof[g] <= Count(g, Len(records))

InStepWithCounts(i) == InStep(i) /\ sample = CountsOf(i)

BehindRecords ==
  /\ IdSize = 0
  /\ PastEnd(cache)
  /\ cache.data_count \in Nat
  /\ sample = CountsOf(Len(records))

SyncInv ==
  /\ FileTypes
  /\ SamplesCounted
  /\ PartsTyped
  /\ (\E i \in 0 .. Len(records) : InStepWithCounts(i)) \/ BehindRecords

LEMMA SyncInvInit == ASSUME Init PROVE SyncInv
<1>1. FileTypes /\ InStep(0) /\ group \in Groups /\ length \in Nat /\ next = "id"
  BY ParseInitInStep DEF Init, ParseInit
<1>2. layout \in Layouts /\ records \in Seq(Records)
  BY <1>1 DEF FileTypes
<1>3. /\ 0 \in 0 .. Len(records) /\ Len(records) \in 0 .. Len(records)
      /\ \A g \in Groups : Count(g, 0) = 0 /\ Count(g, Len(records)) \in Nat
  <2>1. 0 \in 0 .. Len(records) /\ Len(records) \in 0 .. Len(records)
    BY <1>2
  <2>2. \A g : Count(g, 0) = 0 /\ \A i \in 0 .. Len(records) : Count(g, i) \in Nat
    BY <1>2, CountValues
  <2> QED
    BY <2>1, <2>2
<1>4. PICK missing \in 0 .. MaxMissing :
        nof = [g \in Groups |->
                 IF Count(g, Len(records)) < missing THEN 0
                 ELSE Count(g, Len(records)) - missing]
  BY DEF Init
<1>5. SamplesCounted
  <2>1. \A g \in Groups : nof[g] \in Nat /\ nof[g] <= Count(g, Len(records))
    BY <1>3, <1>4
  <2> QED
    BY <1>4, <2>1 DEF SamplesCounted
<1>6. sample = CountsOf(0)
  <2>1. \A g \in Groups : 0 = IF 0 < nof[g] THEN 0 ELSE nof[g]
    BY <1>5 DEF SamplesCounted
  <2> QED
    BY <1>3, <2>1 DEF Init, CountsOf
<1> QED
  BY <1>1, <1>3, <1>5, <1>6 DEF SyncInv, PartsTyped, InStepWithCounts

\* The counter of a group follows the number of its records.
LEMMA CountsFollow ==
  ASSUME FileTypes, SamplesCounted, NEW i \in 0 .. Len(records) - 1, sample = CountsOf(i)
  PROVE  IncrementSample(records[i + 1].group) = CountsOf(i + 1)
<1>1. layout \in Layouts /\ records \in Seq(Records) /\ i \in 0 .. Len(records)
  BY DEF FileTypes
<1>2. PICK h : h = records[i + 1].group
  OBVIOUS
<1>3. \A g \in Groups :
        /\ nof[g] \in Nat /\ Count(g, i) \in Nat
        /\ Count(g, i + 1) = Count(g, i) + (IF h = g THEN 1 ELSE 0)
  BY <1>1, <1>2, CountValues DEF SamplesCounted
<1>4. h \in Groups
  <2>1. i + 1 \in 1 .. Len(records)
    BY <1>1
  <2> QED
    BY <1>1, <1>2, <2>1, StartsValues
<1> DEFINE f(k) == [g \in Groups |-> IF Count(g, k) < nof[g] THEN Count(g, k) ELSE nof[g]]
<1>5. sample = f(i) /\ CountsOf(i + 1) = f(i + 1)
  BY DEF CountsOf
<1>6. IncrementSample(h) = IF sample[h] < nof[h]
                           THEN [g \in Groups |-> IF g = h THEN sample[g] + 1 ELSE sample[g]]
                           ELSE sample
  BY <1>4, <1>5 DEF IncrementSample
<1>7. ASSUME NEW g \in Groups
      PROVE  /\ sample[g] = IF Count(g, i) < nof[g] THEN Count(g, i) ELSE nof[g]
             /\ f(i + 1)[g] = IF Count(g, i + 1) < nof[g] THEN Count(g, i + 1) ELSE nof[g]
  BY <1>5
<1>8. CASE sample[h] < nof[h]
  <2>1. ASSUME NEW g \in Groups
        PROVE  f(i + 1)[g] = IF g = h THEN sample[g] + 1 ELSE sample[g]
    <3> HIDE DEF f
    <3>1. CASE g = h
      BY <1>3, <1>7, <1>8, <3>1
    <3>2. CASE g # h
      BY <1>3, <1>7, <3>2
    <3> QED
      BY <3>1, <3>2
  <2> QED
    BY <1>2, <1>5, <1>6, <1>8, <2>1
<1>9. CASE ~(sample[h] < nof[h])
  <2>1. ASSUME NEW g \in Groups PROVE f(i + 1)[g] = f(i)[g]
    <3> HIDE DEF f
    <3>1. CASE g = h
      BY <1>3, <1>5, <1>7, <1>9, <3>1
    <3>2. CASE g # h
      BY <1>3, <1>5, <1>7, <3>2
    <3> QED
      BY <3>1, <3>2
  <2>2. f(i + 1) = f(i)
    BY <2>1
  <2> QED
    BY <1>2, <1>5, <1>6, <1>9, <2>2
<1> QED
  BY <1>8, <1>9

\* Behind the last record no group has another sample.
LEMMA CountsEnd ==
  ASSUME FileTypes, SamplesCounted, sample = CountsOf(Len(records)), NEW g \in Groups
  PROVE  IncrementSample(g) = sample /\ ~(sample[g] < nof[g])
<1>1. Count(g, Len(records)) \in Nat
  <2>1. layout \in Layouts /\ records \in Seq(Records)
    BY DEF FileTypes
  <2>2. Len(records) \in 0 .. Len(records)
    BY <2>1
  <2> QED
    BY <2>1, <2>2, CountValues
<1>2. sample[g] = nof[g]
  BY <1>1 DEF CountsOf, SamplesCounted
<1> QED
  BY <1>2 DEF IncrementSample, SamplesCounted

\* What a step that leaves the file alone has to keep of the invariant
LEMMA SyncKept ==
  ASSUME SyncInv, UNCHANGED file, PartsTyped',
         \/ \E i \in 0 .. Len(records) : InStep(i)' /\ sample' = CountsOf(i)
         \/ IdSize = 0 /\ PastEnd(cache') /\ cache'.data_count \in Nat
            /\ sample' = CountsOf(Len(records))
  PROVE  SyncInv'
<1>1. UNCHANGED <<data, nof>>
  BY DEF file
<1>2. FileTypes' /\ SamplesCounted'
  <2>1. FileTypes'
    BY <1>1, SameFile DEF SyncInv
  <2>2. SamplesCounted'
    BY <1>1, SameFile DEF SyncInv, SamplesCounted, data
  <2> QED
    BY <2>1, <2>2
<1>3. \A i : CountsOf(i)' = CountsOf(i)
  BY <1>1, SameFile DEF CountsOf
<1>4. PastEnd(cache)' <=> PastEnd(cache')
  <2>1. blocks' = blocks /\ DataSize' = DataSize /\ Place(cache)' = Place(cache')
    BY <1>1, SameFile DEF data
  <2> QED
    BY <2>1 DEF PastEnd, Readers, BlockSize
<1>5. Len(records)' = Len(records) /\ IdSize' = IdSize
  BY <1>1, SameFile DEF data
<1> QED
  BY <1>2, <1>3, <1>4, <1>5 DEF SyncInv, InStepWithCounts, BehindRecords

\* A record is recognised.
LEMMA HeaderInStep ==
  ASSUME SyncInv, ReadHeader, NEW i \in 0 .. Len(records), InStep(i)
  PROVE  \/ InStep(i)'
         \/ i = Len(records) /\ IdSize = 0 /\ PastEnd(cache') /\ cache'.data_count \in Nat
<1>1. UNCHANGED data /\ FileTypes /\ blocks \in Seq(Blocks)
  BY DEF ReadHeader, file, SyncInv, FileTypes
<1>2. CASE ParseLength
  BY <1>1, <1>2, LengthRecognised
<1>3. CASE ParseRecordId /\ i < Len(records)
  BY <1>1, <1>3, IdRecognised
<1>4. CASE ParseRecordId /\ ~(i < Len(records))
  <2>1. i = Len(records)
    BY <1>4
  <2>2. IdSize = 0 /\ Located(cache') /\ Place(cache') = DataSize
    BY <1>1, <1>4, <2>1, IdBehindLast
  <2>3. PastEnd(cache') /\ cache'.data_count \in Nat
    BY <1>1, <2>2, LocatedPastEnd, PlaceType
  <2> QED
    BY <2>1, <2>2, <2>3
<1> QED
  BY <1>2, <1>3, <1>4 DEF ReadHeader

LEMMA HeaderBehind ==
  ASSUME SyncInv, ReadHeader, BehindRecords
  PROVE  PastEnd(cache') /\ cache'.data_count \in Nat
<1>1. blocks \in Seq(Blocks) /\ blocks # <<>>
  BY DEF SyncInv, FileTypes
<1>2. CASE ParseRecordId
  <2>1. cache' = cache
    BY <1>2 DEF ParseRecordId, ReadId, BehindRecords
  <2>2. PastEnd(cache')
    BY <2>1 DEF BehindRecords
  <2>3. cache'.data_count \in Nat
    BY <2>2 DEF PastEnd, Readers
  <2> QED
    BY <2>2, <2>3
<1>3. CASE ParseLength
  <2>1. GetArray(cache, LengthSize).ok /\ LengthSize \in Nat /\ LengthSize # 0
    BY <1>3, LengthAssumption DEF ParseLength
  <2> QED
    BY <1>1, <2>1, GetArrayPastEnd DEF BehindRecords
<1> QED
  BY <1>2, <1>3 DEF ReadHeader

LEMMA HeaderSync == ASSUME SyncInv, ReadHeader PROVE SyncInv'
<1>1. UNCHANGED file /\ UNCHANGED data /\ sample' = sample /\ FileTypes
  BY DEF ReadHeader, file, SyncInv
<1>2. PartsTyped'
  BY <1>1, HeaderTyped DEF ReadHeader, SyncInv
<1>3. CASE BehindRecords
  BY <1>1, <1>2, <1>3, HeaderBehind, SyncKept DEF BehindRecords
<1>4. ASSUME NEW i \in 0 .. Len(records), InStepWithCounts(i)
      PROVE  SyncInv'
  <2>1. InStep(i) /\ sample' = CountsOf(i)
    BY <1>1, <1>4 DEF InStepWithCounts
  <2>2. CASE InStep(i)'
    BY <1>1, <1>2, <2>1, <2>2, SyncKept
  <2>3. CASE ~InStep(i)'
    <3>1. i = Len(records) /\ IdSize = 0 /\ PastEnd(cache') /\ cache'.data_count \in Nat
      BY <2>1, <2>3, HeaderInStep
    <3> QED
      BY <1>1, <1>2, <2>1, <3>1, SyncKept
  <2> QED
    BY <2>2, <2>3
<1> QED
  BY <1>3, <1>4 DEF SyncInv

\* A record is skipped or read.
LEMMA PassInStep ==
  ASSUME SyncInv, SkipRecord \/ ReadRecord, NEW i \in 0 .. Len(records), InStepWithCounts(i)
  PROVE  /\ i \in 0 .. Len(records) - 1 /\ i + 1 \in 0 .. Len(records)
         /\ group = records[i + 1].group
         /\ InStep(i + 1)' /\ sample' = CountsOf(i + 1)
         /\ ReadRecord => GetArray(cache, length).bytes = Payload(i + 1)
<1>1. /\ UNCHANGED data /\ sample' = IncrementSample(group) /\ FileTypes /\ SamplesCounted
      /\ InStep(i) /\ sample = CountsOf(i)
  BY DEF SkipRecord, ReadRecord, file, SyncInv, InStepWithCounts
<1>2. /\ SkipRecord => SkipData
      /\ ReadRecord => ReadData(GetArray(cache, length))
  BY DEF SkipRecord, ReadRecord
<1>3. next = "data"
  BY <1>2 DEF SkipData, ReadData
<1>4. i \in 0 .. Len(records) - 1 /\ i + 1 \in 0 .. Len(records) /\ group = records[i + 1].group
  BY <1>1, <1>3, DataPlace DEF InStep
<1>5. InStep(i + 1)' /\ (ReadRecord => GetArray(cache, length).bytes = Payload(i + 1))
  BY <1>1, <1>2, DataSkipped, DataRead
<1>6. sample' = CountsOf(i + 1)
  BY <1>1, <1>4, CountsFollow
<1> QED
  BY <1>4, <1>5, <1>6

LEMMA PassBehind ==
  ASSUME SyncInv, SkipRecord \/ ReadRecord, BehindRecords
  PROVE  /\ PastEnd(cache') /\ cache'.data_count \in Nat
         /\ sample' = CountsOf(Len(records)) /\ ~(sample[group] < nof[group])
<1>1. /\ sample' = IncrementSample(group) /\ FileTypes /\ SamplesCounted /\ PartsTyped
      /\ blocks \in Seq(Blocks) /\ blocks # <<>>
      /\ SkipRecord => SkipData
      /\ ReadRecord => ReadData(GetArray(cache, length))
  BY DEF SkipRecord, ReadRecord, SyncInv, FileTypes
<1>2. PastEnd(cache')
  <2>1. CASE SkipRecord
    BY <1>1, <2>1, SkipBytesPastEnd DEF BehindRecords, SkipData, PartsTyped
  <2>2. CASE ReadRecord
    BY <1>1, <2>2, GetArrayPastEnd DEF BehindRecords, ReadData, PartsTyped
  <2> QED
    BY <2>1, <2>2
<1>3. cache'.data_count \in Nat
  BY <1>2 DEF PastEnd, Readers
<1>4. IncrementSample(group) = sample /\ ~(sample[group] < nof[group])
  BY <1>1, CountsEnd DEF BehindRecords, PartsTyped
<1> QED
  BY <1>1, <1>2, <1>3, <1>4 DEF BehindRecords

LEMMA PassSync == ASSUME SyncInv, SkipRecord \/ ReadRecord PROVE SyncInv'
<1>1. UNCHANGED file /\ UNCHANGED data /\ PartsTyped
  BY DEF SkipRecord, ReadRecord, file, SyncInv
<1>2. PartsTyped'
  <2>1. next' = "id" /\ UNCHANGED <<group, length>>
    BY DEF SkipRecord, SkipData, ReadRecord, ReadData
  <2> QED
    BY <1>1, <2>1, SameFile DEF PartsTyped
<1>3. CASE BehindRecords
  BY <1>1, <1>2, <1>3, PassBehind, SyncKept DEF BehindRecords
<1>4. ASSUME NEW i \in 0 .. Len(records), InStepWithCounts(i)
      PROVE  SyncInv'
  <2>1. i + 1 \in 0 .. Len(records) /\ InStep(i + 1)' /\ sample' = CountsOf(i + 1)
    BY <1>4, PassInStep
  <2> QED
    BY <1>1, <1>2, <2>1, SyncKept
<1> QED
  BY <1>3, <1>4 DEF SyncInv

LEMMA SyncInvNext == ASSUME SyncInv, [Next]_vars PROVE SyncInv'
<1>1. ASSUME UNCHANGED <<file, cache, parsing, sample>> PROVE SyncInv'
  <2>1. UNCHANGED data
    BY <1>1 DEF file
  <2>2. PartsTyped'
    BY <1>1, <2>1, SameFile DEF SyncInv, PartsTyped, parsing
  <2>3. \A i : InStep(i)' <=> InStep(i)
    BY <1>1, <2>1, SameFile DEF InStep, parsing, data
  <2> QED
    BY <1>1, <2>2, <2>3, SyncKept DEF SyncInv, InStepWithCounts, BehindRecords
<1>2. CASE EndOfData
  BY <1>1, <1>2 DEF EndOfData
<1>3. CASE Fail
  BY <1>1, <1>3 DEF Fail
<1>4. CASE UNCHANGED vars
  BY <1>1, <1>4 DEF vars, state
<1> QED
  BY <1>2, <1>3, <1>4, HeaderSync, PassSync DEF Next, Returned

\* While it parses, the reader is at a record, its next byte is the one of that
\* place, and the sample counter of each group is the number of its records before
\* that: for any records, lengths and cuts into DT and DZ blocks, empty ones
\* included, and whatever groups are skipped.
THEOREM ReaderInSync == Spec => []InSync
<1>1. SyncInv => InSync
  <2> SUFFICES ASSUME SyncInv PROVE InSync
    OBVIOUS
  <2>1. CASE BehindRecords
    BY <2>1 DEF InSync, BehindRecords, PastEnd
  <2>2. ASSUME NEW i \in 0 .. Len(records), InStepWithCounts(i) PROVE InSync
    <3>1. AtRecord(i) /\ sample = CountsOf(i)
      BY <2>2, InStepAtRecord DEF InStepWithCounts, SyncInv
    <3> QED
      BY <3>1 DEF InSync
  <2> QED
    BY <2>1, <2>2 DEF SyncInv
<1> QED
  BY <1>1, SyncInvInit, SyncInvNext, PTL DEF Spec

FlagsTyped == stopped \in BOOLEAN /\ reading \in BOOLEAN

\* Every variable of the reader keeps its type: in particular it never leaves the
\* blocks there are.
THEOREM ReaderTypeCorrect == Spec => []TypeOK
<1>1. Init => FlagsTyped
  BY DEF Init, FlagsTyped
<1>2. FlagsTyped /\ [Next]_vars => FlagsTyped'
  <2> SUFFICES ASSUME FlagsTyped, [Next]_vars PROVE FlagsTyped'
    OBVIOUS
  <2> USE DEF FlagsTyped
  <2>1. CASE SkipRecord
    <3>1. stopped' = stopped /\ reading' = (~IsReady(used'))
      BY <2>1 DEF SkipRecord
    <3> HIDE DEF IsReady
    <3>2. reading' \in BOOLEAN
      BY <3>1, Zenon
    <3> QED
      BY <3>1, <3>2
  <2>2. CASE ReadRecord
    <3>1. reading' = (~stopped' /\ ~IsReady(used))
      BY <2>2 DEF ReadRecord
    <3>2. reading' \in BOOLEAN
      BY <3>1, Zenon
    <3>3. stopped' \in BOOLEAN
      BY <2>2 DEF ReadRecord
    <3> QED
      BY <3>2, <3>3
  <2>3. CASE EndOfData \/ ReadHeader \/ Fail \/ UNCHANGED vars
    BY <2>3 DEF EndOfData, ReadHeader, Fail, vars, state
  <2> QED
    BY <2>1, <2>2, <2>3 DEF Next, Returned
<1>3. SyncInv /\ RangeInv /\ FlagsTyped => TypeOK
  <2> SUFFICES ASSUME SyncInv, RangeInv, FlagsTyped PROVE TypeOK
    OBVIOUS
  <2>1. cache.block_index \in 0 .. Len(blocks) /\ cache.data_count \in Nat
    <3>1. blocks \in Seq(Blocks) /\ blocks # <<>>
      BY DEF SyncInv, FileTypes
    <3>2. CASE BehindRecords
      BY <3>1, <3>2, PastEndValues DEF BehindRecords
    <3>3. ASSUME NEW i \in 0 .. Len(records), InStepWithCounts(i)
          PROVE  cache.block_index \in 0 .. Len(blocks) /\ cache.data_count \in Nat
      BY <3>1, <3>3, PlaceType DEF InStepWithCounts, InStep
    <3> QED
      BY <3>2, <3>3 DEF SyncInv
  <2>2. ParseTypeOK
    BY <2>1 DEF SyncInv, FileTypes, PartsTyped, ParseTypeOK
  <2>3. used \subseteq observed
    BY DEF RangeInv, UsedMetNone, UsedGroups
  <2> QED
    BY <2>2, <2>3 DEF TypeOK, RangeInv, CountersTyped, SyncInv, SamplesCounted, FlagsTyped
<1> QED
  BY <1>1, <1>2, <1>3, SyncInvInit, SyncInvNext, RangeInvInit, RangeInvNext, PTL DEF Spec

-----------------------------------------------------------------------------
(* ImplementsFlat *)

\* The observers were given what they want of the first i records.
GivenUpTo(i) == delivered = First(Wanted, Cardinality(Upto(Chosen, i)))

\* A group that has left those in use has no other sample in the range.
LeftInv ==
  partial => \A g \in observed \ used : g \notin UsedGroups \/ sample[g] + 1 > range.max

GivenInv ==
  /\ SyncInv
  /\ RangeInv
  /\ LeftInv
  /\ FullBlocks
  /\ reading => ~stopped
  /\ \/ \E i \in 0 .. Len(records) : InStepWithCounts(i) /\ GivenUpTo(i)
     \/ BehindRecords /\ GivenUpTo(Len(records))

LEMMA WantedKept ==
  ASSUME UNCHANGED file
  PROVE  /\ Wanted' = Wanted /\ Chosen' = Chosen
         /\ \A i : Wants(i)' <=> Wants(i)
<1>1. UNCHANGED <<blocks, layout, records, observed, nof, partial, range>>
  BY DEF file, data
<1>2. Starts' = Starts /\ \A g : HeaderSize(g)' = HeaderSize(g)
  BY <1>1, SameFile DEF data
<1>3. \A i : Before(i)' = Before(i)
  BY <1>1 DEF Before
<1>4. \A i : Payload(i)' = Payload(i)
  BY <1>1, <1>2 DEF Payload, Field
<1>5. \A i : SampleOf(i)' = SampleOf(i)
  BY <1>1, <1>3, <1>4 DEF SampleOf
<1>6. \A n : InRange(n)' <=> InRange(n)
  BY <1>1 DEF InRange
<1>7. \A i : Wants(i)' <=> Wants(i)
  BY <1>1, <1>3, <1>6 DEF Wants
<1>8. Chosen' = Chosen
  BY <1>1, <1>7 DEF Chosen
<1>9. Wanted' = Wanted
  BY <1>5, <1>8 DEF Wanted
<1> QED
  BY <1>7, <1>8, <1>9

LEMMA WantedValues ==
  ASSUME FileTypes
  PROVE  /\ Len(records) \in Nat /\ Chosen \in SUBSET (1 .. Len(records))
         /\ Len(Wanted) = Cardinality(Chosen) /\ Cardinality(Chosen) \in Nat
         /\ Wanted \in Seq({Wanted[k] : k \in 1 .. Cardinality(Chosen)})
         /\ \A k \in 1 .. Cardinality(Chosen) : Wanted[k] = SampleOf(Ascending(Chosen)[k])
<1>1. PICK n \in Nat : n = Len(records) /\ DOMAIN records = 1 .. n
  BY DEF FileTypes
<1>2. Chosen \in SUBSET (1 .. n)
  BY <1>1 DEF Chosen
<1>3. Cardinality(Chosen) \in Nat
  BY <1>2, UptoCounts
<1>4. Wanted = [k \in 1 .. Cardinality(Chosen) |-> SampleOf(Ascending(Chosen)[k])]
  BY DEF Wanted, Ascending
<1> QED
  BY <1>1, <1>2, <1>3, <1>4

LEMMA GivenMore ==
  ASSUME FileTypes, NEW i \in 0 .. Len(records) - 1, GivenUpTo(i)
  PROVE  IF Wants(i + 1)
         THEN /\ Len(delivered) < Len(Wanted)
              /\ Wanted[Len(delivered) + 1] = SampleOf(i + 1)
              /\ Append(delivered, SampleOf(i + 1)) = First(Wanted, Cardinality(Upto(Chosen, i + 1)))
         ELSE delivered = First(Wanted, Cardinality(Upto(Chosen, i + 1)))
<1>1. PICK n \in Nat : n = Len(records) /\ DOMAIN records = 1 .. n
  BY DEF FileTypes
<1>2. PICK c \in SUBSET (1 .. n) : c = Chosen
  BY <1>1, WantedValues
<1>3. PICK S : Wanted \in Seq(S) /\ Len(Wanted) = Cardinality(c)
  BY <1>2, WantedValues
<1>4. PICK w \in Seq(S) : w = Wanted /\ Len(w) = Cardinality(c)
  BY <1>3
<1>5. PICK k : k = Cardinality(Upto(c, i)) /\ delivered = First(w, k)
  BY <1>2, <1>4 DEF GivenUpTo
<1>6. i \in 0 .. n - 1 /\ (Wants(i + 1) <=> i + 1 \in c)
  BY <1>1, <1>2 DEF Chosen
<1>7. CASE i + 1 \in c
  <2>1. k \in Nat /\ k < Len(w) /\ Len(First(w, k)) = k
    BY <1>4, <1>5, <1>6, <1>7, ListAdds
  <2>2. Ascending(c)[k + 1] = i + 1
    BY <1>4, <1>5, <1>6, <1>7, ListAdds
  <2>3. Append(First(w, k), w[k + 1]) = First(w, Cardinality(Upto(c, i + 1)))
    <3>1. Append(First(w, k), w[k + 1]) = First(w, k + 1)
      BY <1>4, <1>5, <1>6, <1>7, ListAdds, SMTT(30)
    <3>2. Cardinality(Upto(c, i + 1)) = k + 1
      BY <1>4, <1>5, <1>6, <1>7, ListAdds
    <3> QED
      BY <3>1, <3>2
  <2>4. Wanted[k + 1] = SampleOf(Ascending(Chosen)[k + 1])
    <3>1. k + 1 \in 1 .. Cardinality(Chosen)
      BY <1>2, <1>4, <2>1
    <3>2. \A l \in 1 .. Cardinality(Chosen) : Wanted[l] = SampleOf(Ascending(Chosen)[l])
      BY WantedValues
    <3> QED
      BY <3>1, <3>2
  <2>5. w[k + 1] = SampleOf(i + 1)
    BY <1>2, <1>4, <2>2, <2>4
  <2> QED
    BY <1>2, <1>4, <1>5, <1>6, <1>7, <2>1, <2>3, <2>5
<1>8. CASE i + 1 \notin c
  <2>1. i \in 0 .. n /\ i + 1 \in 0 .. n /\ i <= i + 1 /\ \A j \in i + 1 .. i + 1 : j \notin c
    BY <1>6, <1>8
  <2>2. Upto(c, i) = Upto(c, i + 1)
    BY <2>1, UptoSame
  <2> QED
    BY <1>2, <1>4, <1>5, <1>6, <1>8, <2>2
<1> QED
  BY <1>7, <1>8

LEMMA GivenAll ==
  ASSUME FileTypes, NEW i \in 0 .. Len(records), GivenUpTo(i),
         \A j \in i + 1 .. Len(records) : ~Wants(j)
  PROVE  delivered = Wanted
<1>1. PICK n \in Nat : n = Len(records) /\ Chosen \in SUBSET (1 .. n)
  BY WantedValues
<1>2. PICK S : Wanted \in Seq(S) /\ Len(Wanted) = Cardinality(Chosen)
  BY WantedValues
<1>3. \A j \in i + 1 .. n : j \notin Chosen
  BY <1>1 DEF Chosen
<1> QED
  BY <1>1, <1>2, <1>3, ListComplete DEF GivenUpTo

-----------------------------------------------------------------------------
\* What is wanted of the next record, in terms of the counters
LEMMA WantsNext ==
  ASSUME FileTypes, SamplesCounted, NEW i \in 0 .. Len(records) - 1, sample = CountsOf(i)
  PROVE  LET g == records[i + 1].group
         IN  /\ Wants(i + 1) <=> /\ g \in observed
                                 /\ sample[g] < nof[g]
                                 /\ partial => InRange(sample[g])
             /\ sample[g] < nof[g] =>
                  SampleOf(i + 1) = [group |-> g, sample |-> sample[g], bytes |-> Payload(i + 1)]
<1> DEFINE g == records[i + 1].group
<1>1. layout \in Layouts /\ records \in Seq(Records) /\ i \in 0 .. Len(records)
      /\ i + 1 \in 1 .. Len(records)
  BY DEF FileTypes
<1>2. g \in Groups
  BY <1>1, StartsValues
<1>3. Cardinality(Before(i + 1)) = Count(g, i)
  <2>1. i + 1 - 1 = i
    BY <1>1
  <2> QED
    BY <2>1 DEF Before, Count
<1>4. Count(g, i) \in Nat /\ nof[g] \in Nat
  BY <1>1, <1>2, CountValues DEF SamplesCounted
<1>5. sample[g] = IF Count(g, i) < nof[g] THEN Count(g, i) ELSE nof[g]
  BY <1>2 DEF CountsOf
<1>6. sample[g] < nof[g] <=> Count(g, i) < nof[g]
  BY <1>4, <1>5
<1>7. Wants(i + 1) <=> /\ g \in observed
                       /\ Count(g, i) < nof[g]
                       /\ partial => InRange(Count(g, i))
  BY <1>3 DEF Wants
<1>8. SampleOf(i + 1) = [group |-> g, sample |-> Count(g, i), bytes |-> Payload(i + 1)]
  BY <1>3 DEF SampleOf
<1> QED
  BY <1>5, <1>6, <1>7, <1>8

LEMMA CountMonotone ==
  ASSUME layout \in Layouts, records \in Seq(Records), NEW g,
         NEW i \in 0 .. Len(records), NEW j \in 0 .. Len(records), i <= j
  PROVE  Count(g, i) <= Count(g, j)
<1>1. {k \in 1 .. i : records[k].group = g} \subseteq {k \in 1 .. j : records[k].group = g}
  OBVIOUS
<1>2. IsFiniteSet(1 .. j)
  BY FS_Interval
<1>3. IsFiniteSet({k \in 1 .. j : records[k].group = g})
  BY <1>2, FS_Subset
<1> QED
  BY <1>1, <1>3, FS_Subset DEF Count

\* Nothing more is wanted of a group that is not in use any more.
LEMMA LeftWantsNothing ==
  ASSUME FileTypes, SamplesCounted, RangeInv, LeftInv, partial,
         NEW i \in 0 .. Len(records), sample = CountsOf(i),
         NEW j \in i + 1 .. Len(records), records[j].group \notin used
  PROVE  ~Wants(j)
<1>1. layout \in Layouts /\ records \in Seq(Records) /\ j \in 1 .. Len(records)
      /\ j - 1 \in 0 .. Len(records) /\ i <= j - 1
  BY DEF FileTypes
<1>2. PICK g \in Groups : g = records[j].group
  BY <1>1, StartsValues
<1>3. PICK n : n = Count(g, j - 1)
  OBVIOUS
<1>4. Cardinality(Before(j)) = n
  BY <1>2, <1>3 DEF Before, Count
<1> SUFFICES ASSUME g \in observed, n < nof[g], InRange(n) PROVE FALSE
  BY <1>2, <1>4 DEF Wants
<1>5. n \in Nat /\ nof[g] \in Nat /\ Count(g, i) \in Nat /\ Count(g, i) <= n
  BY <1>1, <1>2, <1>3, CountValues, CountMonotone DEF SamplesCounted
<1>6. sample[g] = IF Count(g, i) < nof[g] THEN Count(g, i) ELSE nof[g]
  BY <1>2 DEF CountsOf
<1>7. sample[g] <= n /\ sample[g] \in Nat
  BY <1>5, <1>6
<1>8. range.min \in Nat /\ range.max \in Nat
  BY DEF RangeInv, CountersTyped
<1>9. range.min <= n + 1 /\ n + 1 <= range.max
  BY DEF InRange
<1>10. CASE g \notin UsedGroups
  <2>1. ~(range.min <= nof[g])
    BY <1>10 DEF UsedGroups
  <2> QED
    BY <1>5, <1>8, <1>9, <2>1
<1>11. CASE sample[g] + 1 > range.max
  BY <1>5, <1>7, <1>8, <1>9, <1>11
<1> QED
  BY <1>2, <1>10, <1>11 DEF LeftInv

-----------------------------------------------------------------------------
LEMMA GivenInvInit == ASSUME Init, ~EmptyBlocks PROVE GivenInv
<1>1. SyncInv /\ RangeInv /\ FullBlocks
  BY SyncInvInit, RangeInvInit, FileInitFull DEF Init, ParseInit
<1>2. LeftInv
  BY DEF Init, LeftInv
<1>3. 0 \in 0 .. Len(records) /\ InStep(0)
  BY <1>1, ParseInitInStep DEF Init, SyncInv, FileTypes
<1>4. sample = CountsOf(0)
  <2>1. \A g \in Groups : Count(g, 0) = 0 /\ nof[g] \in Nat
    BY <1>1, CountValues DEF SyncInv, FileTypes, SamplesCounted
  <2>2. \A g \in Groups : 0 = IF Count(g, 0) < nof[g] THEN Count(g, 0) ELSE nof[g]
    BY <2>1
  <2> QED
    BY <2>2 DEF Init, CountsOf
<1>5. GivenUpTo(0)
  <2>1. Cardinality(Upto(Chosen, 0)) = 0
    BY <1>1, WantedValues, UptoCounts DEF SyncInv
  <2>2. First(Wanted, 0) = <<>>
    BY DEF First
  <2> QED
    BY <2>1, <2>2 DEF GivenUpTo, Init
<1> QED
  BY <1>1, <1>2, <1>3, <1>4, <1>5 DEF GivenInv, InStepWithCounts, Init

LEMMA LeftKept == ASSUME RangeInv, LeftInv, [Next]_vars PROVE LeftInv'
<1> SUFFICES ASSUME partial', NEW g \in observed' \ used'
             PROVE  g \notin UsedGroups' \/ sample'[g] + 1 > range'.max
  BY DEF LeftInv
<1>1. UNCHANGED file
  BY DEF Next, EndOfData, ReadHeader, SkipRecord, ReadRecord, Fail, Returned, vars
<1>2. /\ observed' = observed /\ partial' = partial /\ range' = range
      /\ UsedGroups' = UsedGroups /\ g \in Groups
  BY <1>1, FileKept DEF file, RangeInv
<1>3. sample[g] \in Nat /\ range.max \in Nat
  BY <1>2 DEF RangeInv, CountersTyped
<1>4. sample'[g] \in Nat /\ sample[g] <= sample'[g]
  <2>1. sample' = sample \/ sample' = IncrementSample(group)
    BY DEF Next, EndOfData, ReadHeader, SkipRecord, ReadRecord, Fail, Returned, vars, state
  <2>2. IncrementSample(group)[g] \in {sample[g], sample[g] + 1}
    BY <1>2, IncrementOne DEF RangeInv, CountersTyped
  <2> QED
    BY <1>3, <2>1, <2>2
<1>5. CASE g \notin used
  BY <1>2, <1>3, <1>4, <1>5 DEF LeftInv
<1>6. CASE g \in used
  <2>1. used' = StillUsed(group)
    BY <1>6 DEF Next, EndOfData, ReadHeader, SkipRecord, ReadRecord, Fail, Returned, vars, state
  <2>2. g = group /\ sample[g] + 1 > range.max
    BY <1>6, <2>1 DEF StillUsed
  <2> QED
    BY <1>2, <1>3, <1>4, <2>2
<1> QED
  BY <1>5, <1>6

\* What was given so far stays what is wanted.
LEMMA GivenKept ==
  ASSUME UNCHANGED file, NEW i, delivered' = First(Wanted, Cardinality(Upto(Chosen, i)))
  PROVE  GivenUpTo(i)'
BY WantedKept DEF GivenUpTo

LEMMA PlacesKept ==
  ASSUME UNCHANGED file
  PROVE  /\ \A i : CountsOf(i)' = CountsOf(i)
         /\ PastEnd(cache)' <=> PastEnd(cache')
         /\ Len(records)' = Len(records) /\ records' = records /\ IdSize' = IdSize
         /\ FullBlocks' <=> FullBlocks
<1>1. UNCHANGED <<data, nof>>
  BY DEF file
<1>2. \A i : CountsOf(i)' = CountsOf(i)
  BY <1>1, SameFile DEF CountsOf
<1>3. PastEnd(cache)' <=> PastEnd(cache')
  <2>1. blocks' = blocks /\ DataSize' = DataSize /\ Place(cache)' = Place(cache')
    BY <1>1, SameFile DEF data
  <2> QED
    BY <2>1 DEF PastEnd, Readers, BlockSize
<1>4. FullBlocks' <=> FullBlocks
  BY <1>1 DEF data, FullBlocks
<1> QED
  BY <1>1, <1>2, <1>3, <1>4, SameFile DEF data

\* A record that is passed is delivered exactly if it is wanted.
LEMMA PassDelivers ==
  ASSUME GivenInv, SkipRecord \/ ReadRecord,
         NEW i \in 0 .. Len(records), InStepWithCounts(i), GivenUpTo(i)
  PROVE  /\ delivered' = First(Wanted, Cardinality(Upto(Chosen, i + 1)))
         /\ IF Wants(i + 1)
            THEN /\ ReadRecord
                 /\ Len(delivered) < Len(Wanted)
                 /\ delivered' = Append(delivered, Wanted[Len(delivered) + 1])
            ELSE delivered' = delivered /\ stopped' = stopped
<1>1. /\ SyncInv /\ FileTypes /\ SamplesCounted /\ RangeInv /\ LeftInv
      /\ sample = CountsOf(i)
  BY DEF GivenInv, SyncInv, InStepWithCounts
<1>2. /\ i \in 0 .. Len(records) - 1 /\ i + 1 \in i + 1 .. Len(records)
      /\ group = records[i + 1].group
      /\ ReadRecord => GetArray(cache, length).bytes = Payload(i + 1)
  <2>1. Len(records) \in Nat
    BY <1>1, WantedValues
  <2> QED
    BY <1>1, <2>1, PassInStep
<1>3. /\ Wants(i + 1) <=> /\ group \in observed
                          /\ sample[group] < nof[group]
                          /\ partial => InRange(sample[group])
      /\ sample[group] < nof[group] =>
           SampleOf(i + 1) = [group |-> group, sample |-> sample[group], bytes |-> Payload(i + 1)]
  BY <1>1, <1>2, WantsNext
<1>4. IF Wants(i + 1)
      THEN /\ Len(delivered) < Len(Wanted)
           /\ Wanted[Len(delivered) + 1] = SampleOf(i + 1)
           /\ Append(delivered, SampleOf(i + 1)) = First(Wanted, Cardinality(Upto(Chosen, i + 1)))
      ELSE delivered = First(Wanted, Cardinality(Upto(Chosen, i + 1)))
  BY <1>1, <1>2, GivenMore
<1>5. CASE SkipRecord
  <2>1. ~Reads(group) /\ delivered' = delivered /\ stopped' = stopped
    BY <1>5 DEF SkipRecord
  <2>2. ~Wants(i + 1)
    <3>1. CASE partial /\ group \notin used
      BY <1>1, <1>2, <3>1, LeftWantsNothing
    <3>2. CASE ~(partial /\ group \notin used)
      BY <1>3, <2>1, <3>2 DEF Reads
    <3> QED
      BY <3>1, <3>2
  <2> QED
    BY <1>4, <2>1, <2>2
<1>6. CASE ReadRecord
  <2>1. Reads(group) /\ GetArray(cache, length).bytes = Payload(i + 1)
    BY <1>2, <1>6 DEF ReadRecord
  <2>2. CASE sample[group] < nof[group]
    <3>1. Wants(i + 1)
      BY <1>3, <2>1, <2>2 DEF Reads
    <3>2. delivered' = Append(delivered, SampleOf(i + 1))
      BY <1>3, <1>6, <2>1, <2>2 DEF ReadRecord
    <3> QED
      BY <1>4, <1>6, <3>1, <3>2
  <2>3. CASE ~(sample[group] < nof[group])
    BY <1>3, <1>4, <1>6, <2>3 DEF ReadRecord
  <2> QED
    BY <2>2, <2>3
<1> QED
  BY <1>5, <1>6

LEMMA PassDeliversNothing ==
  ASSUME GivenInv, SkipRecord \/ ReadRecord, BehindRecords
  PROVE  delivered' = delivered /\ stopped' = stopped
<1>1. ~(sample[group] < nof[group])
  BY PassBehind DEF GivenInv
<1> QED
  BY <1>1 DEF SkipRecord, ReadRecord

LEMMA GivenInvNext == ASSUME GivenInv, [Next]_vars PROVE GivenInv'
<1>1. SyncInv' /\ RangeInv' /\ LeftInv'
  BY SyncInvNext, RangeInvNext, LeftKept DEF GivenInv
<1>2. UNCHANGED file
  BY DEF Next, EndOfData, ReadHeader, SkipRecord, ReadRecord, Fail, Returned, vars
<1>3. FullBlocks'
  BY <1>2, PlacesKept DEF GivenInv
<1>4. reading' => ~stopped'
  BY DEF GivenInv, Next, EndOfData, ReadHeader, SkipRecord, ReadRecord, Fail, Returned, vars, state
<1> DEFINE Given == \/ \E i \in 0 .. Len(records) : InStepWithCounts(i) /\ GivenUpTo(i)
                    \/ BehindRecords /\ GivenUpTo(Len(records))
<1>5. SUFFICES Given'
  BY <1>1, <1>3, <1>4 DEF GivenInv
<1>6. /\ \A i : CountsOf(i)' = CountsOf(i)
      /\ PastEnd(cache)' <=> PastEnd(cache')
      /\ Len(records)' = Len(records) /\ IdSize' = IdSize
  BY <1>2, PlacesKept
<1>7. ASSUME UNCHANGED <<cache, parsing, sample, delivered>> PROVE Given'
  <2>1. \A i : InStep(i)' <=> InStep(i)
    BY <1>2, <1>7, SameFile DEF InStep, parsing, data, file
  <2>2. PastEnd(cache') <=> PastEnd(cache)
    BY <1>7
  <2>3. ASSUME NEW i, GivenUpTo(i) PROVE GivenUpTo(i)'
    BY <1>2, <1>7, <2>3, GivenKept DEF GivenUpTo
  <2>4. CASE BehindRecords /\ GivenUpTo(Len(records))
    <3>1. BehindRecords'
      BY <1>6, <1>7, <2>2, <2>4 DEF BehindRecords
    <3> QED
      BY <1>6, <2>3, <2>4, <3>1
  <2>5. ASSUME NEW i \in 0 .. Len(records), InStepWithCounts(i), GivenUpTo(i) PROVE Given'
    <3>1. InStepWithCounts(i)' /\ GivenUpTo(i)'
      BY <1>6, <1>7, <2>1, <2>3, <2>5 DEF InStepWithCounts
    <3> QED
      BY <1>6, <3>1
  <2> QED
    BY <2>4, <2>5 DEF GivenInv
<1>8. CASE ReadHeader
  <2>1. sample' = sample /\ delivered' = delivered
    BY <1>8 DEF ReadHeader
  <2>2. ASSUME NEW i, GivenUpTo(i) PROVE GivenUpTo(i)'
    BY <1>2, <2>1, <2>2, GivenKept DEF GivenUpTo
  <2>3. CASE BehindRecords /\ GivenUpTo(Len(records))
    <3>1. PastEnd(cache') /\ cache'.data_count \in Nat
      BY <1>8, <2>3, HeaderBehind DEF GivenInv
    <3>2. BehindRecords'
      BY <1>6, <2>1, <2>3, <3>1 DEF BehindRecords
    <3> QED
      BY <1>6, <2>2, <2>3, <3>2
  <2>4. ASSUME NEW i \in 0 .. Len(records), InStepWithCounts(i), GivenUpTo(i) PROVE Given'
    <3>1. CASE InStep(i)'
      <4>1. InStepWithCounts(i)' /\ GivenUpTo(i)'
        BY <1>6, <2>1, <2>2, <2>4, <3>1 DEF InStepWithCounts
      <4> QED
        BY <1>6, <4>1
    <3>2. CASE ~InStep(i)'
      <4>1. i = Len(records) /\ IdSize = 0 /\ PastEnd(cache') /\ cache'.data_count \in Nat
        BY <1>8, <2>4, <3>2, HeaderInStep DEF GivenInv, InStepWithCounts
      <4>2. BehindRecords'
        BY <1>6, <2>1, <2>4, <4>1 DEF BehindRecords, InStepWithCounts
      <4> QED
        BY <1>6, <2>2, <2>4, <4>1, <4>2
    <3> QED
      BY <3>1, <3>2
  <2> QED
    BY <2>3, <2>4 DEF GivenInv
<1>9. CASE SkipRecord \/ ReadRecord
  <2>1. CASE BehindRecords /\ GivenUpTo(Len(records))
    <3>1. PastEnd(cache') /\ cache'.data_count \in Nat /\ sample' = CountsOf(Len(records))
      BY <1>9, <2>1, PassBehind DEF GivenInv
    <3>2. BehindRecords'
      BY <1>6, <2>1, <3>1 DEF BehindRecords
    <3>3. delivered' = delivered
      BY <1>9, <2>1, PassDeliversNothing
    <3>4. GivenUpTo(Len(records))'
      BY <1>2, <1>6, <2>1, <3>3, GivenKept DEF GivenUpTo
    <3> QED
      BY <3>2, <3>4
  <2>2. ASSUME NEW i \in 0 .. Len(records), InStepWithCounts(i), GivenUpTo(i) PROVE Given'
    <3>1. i + 1 \in 0 .. Len(records) /\ InStep(i + 1)' /\ sample' = CountsOf(i + 1)
      BY <1>9, <2>2, PassInStep DEF GivenInv
    <3>2. delivered' = First(Wanted, Cardinality(Upto(Chosen, i + 1)))
      BY <1>9, <2>2, PassDelivers
    <3>3. InStepWithCounts(i + 1)' /\ GivenUpTo(i + 1)'
      BY <1>2, <1>6, <3>1, <3>2, GivenKept DEF InStepWithCounts
    <3> QED
      BY <1>6, <3>1, <3>3
  <2> QED
    BY <2>1, <2>2 DEF GivenInv
<1>10. CASE EndOfData \/ Fail \/ UNCHANGED vars
  BY <1>7, <1>10 DEF EndOfData, Fail, vars, state
<1> QED
  BY <1>8, <1>9, <1>10 DEF Next, Returned

-----------------------------------------------------------------------------
\* Where no more is read, everything that is wanted was given.
LEMMA EndsComplete ==
  ASSUME GivenInv, RecordsHaveSize, EndOfData \/ Fail
  PROVE  delivered = Wanted
<1>1. FileTypes /\ FullBlocks /\ Len(records) \in Nat
  BY WantedValues DEF GivenInv, SyncInv
<1>2. CASE BehindRecords /\ GivenUpTo(Len(records))
  <2>1. Len(records) \in 0 .. Len(records) /\ \A j \in Len(records) + 1 .. Len(records) : ~Wants(j)
    BY <1>1
  <2> QED
    BY <1>1, <1>2, <2>1, GivenAll
<1>3. ASSUME NEW i \in 0 .. Len(records), InStepWithCounts(i), GivenUpTo(i)
      PROVE  delivered = Wanted
  <2>1. i = Len(records)
    <3>1. CASE EndOfData
      BY <1>1, <1>3, <3>1, NoMoreRecords DEF EndOfData, InStepWithCounts
    <3>2. CASE Fail
      BY <1>1, <1>3, <3>2, RecordComplete DEF Fail, InStepWithCounts
    <3> QED
      BY <3>1, <3>2
  <2>2. \A j \in i + 1 .. Len(records) : ~Wants(j)
    BY <1>1, <2>1
  <2> QED
    BY <1>1, <1>3, <2>2, GivenAll
<1> QED
  BY <1>2, <1>3 DEF GivenInv

\* When no group is in use any more, everything that is wanted was given.
ReadyIsComplete == IsReady(used) => delivered = Wanted

LEMMA ReadyComplete == ASSUME GivenInv PROVE ReadyIsComplete
<1> SUFFICES ASSUME partial, used = {} PROVE delivered = Wanted
  BY DEF ReadyIsComplete, IsReady
<1>1. FileTypes /\ SamplesCounted /\ RangeInv /\ LeftInv /\ Len(records) \in Nat
  BY WantedValues DEF GivenInv, SyncInv
<1>2. CASE BehindRecords /\ GivenUpTo(Len(records))
  <2>1. Len(records) \in 0 .. Len(records) /\ \A j \in Len(records) + 1 .. Len(records) : ~Wants(j)
    BY <1>1
  <2> QED
    BY <1>1, <1>2, <2>1, GivenAll
<1>3. ASSUME NEW i \in 0 .. Len(records), InStepWithCounts(i), GivenUpTo(i)
      PROVE  delivered = Wanted
  <2>1. \A j \in i + 1 .. Len(records) : ~Wants(j)
    BY <1>1, <1>3, LeftWantsNothing DEF InStepWithCounts
  <2> QED
    BY <1>1, <1>3, <2>1, GivenAll
<1> QED
  BY <1>2, <1>3 DEF GivenInv

\* Every step of the reader is a step of the flat reader or none.
LEMMA FlatStep ==
  ASSUME GivenInv, RecordsHaveSize, [Next]_vars, ReadyIsComplete'
  PROVE  [Flat!Next]_Flat!vars
<1>1. UNCHANGED file
  BY DEF Next, EndOfData, ReadHeader, SkipRecord, ReadRecord, Fail, Returned, vars
<1>2. Wanted' = Wanted /\ partial' = partial
  BY <1>1, WantedKept DEF file
<1>3. ASSUME UNCHANGED <<delivered, stopped, reading>> PROVE [Flat!Next]_Flat!vars
  BY <1>2, <1>3 DEF Flat!vars
<1>4. CASE EndOfData \/ Fail
  <2>1. /\ reading /\ reading' = FALSE /\ UNCHANGED <<delivered, stopped>>
        /\ delivered = Wanted
    BY <1>4, EndsComplete DEF EndOfData, Fail
  <2>2. Flat!Return
    BY <1>2, <2>1 DEF Flat!Return
  <2> QED
    BY <2>2 DEF Flat!Next
<1>5. CASE SkipRecord
  <2>1. /\ reading /\ delivered' = delivered /\ stopped' = stopped
        /\ reading' = (~IsReady(used'))
    BY <1>5 DEF SkipRecord
  <2>2. CASE IsReady(used')
    <3>1. reading' = FALSE
      BY <2>1, <2>2
    <3>2. delivered' = Wanted'
      BY <1>2, <2>2 DEF ReadyIsComplete, IsReady
    <3>3. Flat!Return
      BY <1>2, <2>1, <3>1, <3>2 DEF Flat!Return
    <3> QED
      BY <3>3 DEF Flat!Next
  <2>3. CASE ~IsReady(used')
    <3>1. reading' = TRUE
      BY <2>1, <2>3, Zenon
    <3>2. (~reading)' = ~reading
      BY <2>1, <3>1
    <3> QED
      BY <1>2, <2>1, <3>2 DEF Flat!vars
  <2> QED
    BY <2>2, <2>3
<1>6. CASE ReadRecord
  <2>1. /\ reading /\ Reads(group) /\ reading' = (~stopped' /\ ~IsReady(used))
        /\ ~stopped
    BY <1>6 DEF ReadRecord, GivenInv
  <2>2. ~IsReady(used)
    BY <2>1 DEF Reads, IsReady
  <2>3. CASE delivered' = delivered /\ stopped' = stopped
    <3>1. reading' = TRUE
      BY <2>1, <2>2, <2>3, Zenon
    <3>2. (~reading)' = ~reading
      BY <2>1, <3>1
    <3> QED
      BY <1>2, <2>3, <3>2 DEF Flat!vars
  <2>4. CASE /\ Len(delivered) < Len(Wanted)
             /\ delivered' = Append(delivered, Wanted[Len(delivered) + 1])
             /\ stopped' \in BOOLEAN
    <3>1. (~reading') = stopped'
      <4>1. CASE stopped' = TRUE
        <5>1. reading' = FALSE
          BY <2>1, <4>1, Zenon
        <5> QED
          BY <4>1, <5>1
      <4>2. CASE stopped' = FALSE
        <5>1. reading' = TRUE
          BY <2>1, <2>2, <4>2, Zenon
        <5> QED
          BY <4>2, <5>1
      <4> QED
        BY <2>4, <4>1, <4>2
    <3>2. Flat!Deliver
      BY <1>2, <2>1, <2>4, <3>1 DEF Flat!Deliver
    <3> QED
      BY <3>2 DEF Flat!Next
  <2>5. \/ delivered' = delivered /\ stopped' = stopped
        \/ stopped' \in BOOLEAN /\ \E i \in 0 .. Len(records) : InStepWithCounts(i) /\ GivenUpTo(i)
    <3>1. stopped' \in BOOLEAN \/ (delivered' = delivered /\ stopped' = stopped)
      BY <1>6 DEF ReadRecord
    <3> QED
      BY <1>6, <3>1, PassDeliversNothing DEF GivenInv
  <2> QED
    BY <1>6, <2>3, <2>4, <2>5, PassDelivers
<1>7. CASE ReadHeader
  BY <1>3, <1>7 DEF ReadHeader
<1>8. CASE UNCHANGED vars
  BY <1>3, <1>8 DEF vars, state
<1> QED
  BY <1>4, <1>5, <1>6, <1>7, <1>8 DEF Next, Returned

\* ReadData and ReadPartialData give the observers exactly the samples they want,
\* in the order of the file, with their bytes and numbers, and nothing else until
\* one says stop; a read that returns without that has given them all.  This holds
\* for every file without empty blocks whose records have bytes, every cut of the
\* records into blocks, every subscription and every range.  Only that a read
\* returns is a premise.
THEOREM FlatReaderImplemented ==
  ASSUME ~EmptyBlocks, BytesInRecords
  PROVE  Spec /\ <>~reading => ImplementsFlat
<1>1. Init => GivenInv
  BY GivenInvInit
<1>2. GivenInv /\ [Next]_vars => GivenInv'
  BY GivenInvNext
<1>3. GivenInv => RecordsHaveSize
  BY RecordsSized DEF GivenInv, SyncInv, FileTypes
<1>4. GivenInv => ReadyIsComplete
  BY ReadyComplete
<1>5. GivenInv /\ RecordsHaveSize /\ [Next]_vars /\ ReadyIsComplete' => [Flat!Next]_Flat!vars
  BY FlatStep
<1>6. Init => Flat!Init
  BY DEF Init, Flat!Init
<1> QED
  BY <1>1, <1>2, <1>3, <1>4, <1>5, <1>6, PTL DEF Spec, ImplementsFlat, Flat!Spec
=============================================================================

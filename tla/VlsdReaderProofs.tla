-------------------------- MODULE VlsdReaderProofs --------------------------
(***************************************************************************)
(* Theorems about reading the data of a VLSD channel, for files of any     *)
(* length and any choice of offsets: offset_ is the offset of the data     *)
(* that is read next.                                                      *)
(***************************************************************************)
EXTENDS VlsdReader, RecordStreamProofs

-----------------------------------------------------------------------------
(* Offsets *)

\* The bytes record i adds to the offset
Passes(i) == IF records[i].group = channel THEN LengthSize + records[i].length ELSE 0

LEMMA PassesType ==
  ASSUME FileTypes, NEW i \in 1 .. Len(records)
  PROVE  Passes(i) \in Nat
<1>1. records[i].length \in Nat
  BY StartsValues DEF FileTypes
<1> QED
  BY <1>1, LengthAssumption DEF Passes

LEMMA OffsetSum ==
  ASSUME FileTypes
  PROVE  \E g, v : /\ v \in [1 .. Len(records) -> Nat] /\ IsSum(g, v, Len(records))
                   /\ \A i \in 1 .. Len(records) : v[i] = Passes(i)
                   /\ \A i \in 0 .. Len(records) : OffsetOf(i + 1) = g[i]
<1>1. PICK n \in Nat : n = Len(records)
  BY DEF FileTypes
<1>2. PICK v \in [1 .. n -> Nat] : \A i \in 1 .. n : v[i] = Passes(i)
  <2> DEFINE v == [i \in 1 .. n |-> Passes(i)]
  <2>1. v \in [1 .. n -> Nat] /\ \A i \in 1 .. n : v[i] = Passes(i)
    BY <1>1, PassesType
  <2> QED
    BY <2>1
<1>3. PICK g : IsSum(g, v, n)
  BY SumExists
<1>4. ASSUME NEW i \in 0 .. n PROVE OffsetOf(i + 1) = g[i]
  <2> DEFINE IsOffset(h) ==
               h = [k \in 0 .. i + 1 - 1 |->
                      IF k = 0 THEN 0
                      ELSE h[k - 1] + (IF records[k].group = channel
                                       THEN LengthSize + records[k].length ELSE 0)]
             sum == CHOOSE h : IsOffset(h)
  <2>1. PICK w \in [1 .. i -> Nat] : \A k \in 1 .. i : w[k] = v[k] /\ w[k] = Passes(k)
    <3> DEFINE w == [k \in 1 .. i |-> v[k]]
    <3>1. \A k \in 1 .. i : k \in 1 .. n
      OBVIOUS
    <3>2. w \in [1 .. i -> Nat] /\ \A k \in 1 .. i : w[k] = v[k] /\ w[k] = Passes(k)
      BY <1>2, <3>1
    <3> QED
      BY <3>2
  <2>2. PICK h : IsSum(h, w, i)
    BY SumExists
  <2>3. i + 1 - 1 = i
    OBVIOUS
  <2>4. ASSUME NEW e PROVE IsOffset(e) <=> IsSum(e, w, i)
    <3>1. [k \in 0 .. i |-> IF k = 0 THEN 0 ELSE e[k - 1] + w[k]]
          = [k \in 0 .. i |-> IF k = 0 THEN 0 ELSE e[k - 1] + Passes(k)]
      <4>1. \A k \in 0 .. i : k # 0 => k \in 1 .. i
        OBVIOUS
      <4> QED
        BY <2>1, <4>1
    <3>2. IsOffset(e) <=> e = [k \in 0 .. i |-> IF k = 0 THEN 0 ELSE e[k - 1] + Passes(k)]
      BY <2>3, Zenon DEF Passes
    <3> QED
      BY <3>1, <3>2, Zenon DEF IsSum
  <2>5. IsOffset(sum)
    <3>1. IsOffset(h)
      BY <2>2, <2>4
    <3> QED
      BY <3>1, Zenon
  <2>6. OffsetOf(i + 1) = sum[i]
    <3>1. OffsetOf(i + 1) = sum[i + 1 - 1]
      BY DEF OffsetOf
    <3> HIDE DEF sum
    <3> QED
      BY <2>3, <3>1
  <2> HIDE DEF sum
  <2>7. IsSum(sum, w, i)
    BY <2>4, <2>5
  <2>8. \A k \in 0 .. i : sum[k] = g[k]
    <3>1. i \in Nat /\ i <= n
      OBVIOUS
    <3> QED
      BY <1>3, <2>1, <2>7, <3>1, SumSame, SMTT(30)
  <2> QED
    BY <2>6, <2>8
<1> QED
  BY <1>1, <1>2, <1>3, <1>4

LEMMA OffsetValues ==
  ASSUME FileTypes
  PROVE  /\ OffsetOf(1) = 0
         /\ \A i \in 0 .. Len(records) : OffsetOf(i + 1) \in Nat
         /\ \A i \in 1 .. Len(records) : OffsetOf(i + 1) = OffsetOf(i) + Passes(i)
         /\ \A i, j \in 0 .. Len(records) : i <= j => OffsetOf(i + 1) <= OffsetOf(j + 1)
<1>1. PICK n \in Nat : n = Len(records)
  BY DEF FileTypes
<1>2. PICK g, v : /\ v \in [1 .. n -> Nat] /\ IsSum(g, v, n)
                  /\ \A i \in 1 .. n : v[i] = Passes(i)
                  /\ \A i \in 0 .. n : OffsetOf(i + 1) = g[i]
  BY <1>1, OffsetSum
<1>3. /\ g \in [0 .. n -> Nat]
      /\ g[0] = 0
      /\ \A i \in 1 .. n : g[i] = g[i - 1] + v[i]
  BY <1>2, SumValues
<1>4. \A i, j \in 0 .. n : i <= j => g[i] <= g[j]
  BY <1>2, SumMonotone
<1>5. \A i \in 1 .. n : OffsetOf(i) = g[i - 1]
  <2> SUFFICES ASSUME NEW i \in 1 .. n PROVE OffsetOf(i) = g[i - 1]
    OBVIOUS
  <2>1. PICK k \in 0 .. n : k = i - 1 /\ k + 1 = i
    OBVIOUS
  <2> QED
    BY <1>2, <2>1
<1>6. OffsetOf(1) = 0
  <2>1. 0 \in 0 .. n /\ 0 + 1 = 1
    OBVIOUS
  <2> QED
    BY <1>2, <1>3, <2>1
<1>7. \A i \in 0 .. n : OffsetOf(i + 1) \in Nat
  BY <1>2, <1>3
<1>8. \A i \in 1 .. n : OffsetOf(i + 1) = OffsetOf(i) + Passes(i)
  <2>1. \A i \in 1 .. n : i \in 0 .. n
    OBVIOUS
  <2> QED
    BY <1>2, <1>3, <1>5, <2>1
<1>9. \A i, j \in 0 .. n : i <= j => OffsetOf(i + 1) <= OffsetOf(j + 1)
  BY <1>2, <1>4
<1> QED
  BY <1>1, <1>6, <1>7, <1>8, <1>9

\* Signal data is nothing but the data of the channel: an offset is a place.
LEMMA SignalOffsets ==
  ASSUME FileTypes, IdSize = 0, channel \in VlsdGroups
  PROVE  /\ Groups = {channel}
         /\ \A i \in 0 .. Len(records) : Starts[i] = OffsetOf(i + 1)
<1>1. Groups = {channel}
  <2>1. Cardinality(Groups) = 1 /\ IsFiniteSet(Groups) /\ channel \in Groups
    BY LayoutTypes DEF FileTypes
  <2>2. PICK g : Groups = {g}
    BY <2>1, FS_Singleton
  <2> QED
    BY <2>1, <2>2
<1>2. PICK n \in Nat : n = Len(records)
  BY DEF FileTypes
<1>3. Starts[0] = 0 /\ OffsetOf(0 + 1) = 0
  BY StartsValues, OffsetValues DEF FileTypes
<1>4. ASSUME NEW i \in 1 .. n
      PROVE  /\ Starts[i] = Starts[i - 1] + Passes(i)
             /\ OffsetOf(i + 1) = OffsetOf(i) + Passes(i)
  <2>1. /\ Starts[i] = Starts[i - 1] + (HeaderSize(records[i].group) + records[i].length)
        /\ records[i].group \in Groups
    BY <1>2, StartsValues DEF FileTypes
  <2>2. records[i].group = channel
    BY <1>1, <2>1
  <2>3. HeaderSize(records[i].group) = LengthSize
    BY <2>2, LengthAssumption DEF HeaderSize
  <2> QED
    BY <1>2, <2>1, <2>2, <2>3, OffsetValues DEF Passes
<1> DEFINE T == {i \in 0 .. n : Starts[i] = OffsetOf(i + 1)}
<1>5. 0 \in T
  BY <1>3
<1>6. ASSUME NEW i \in 0 .. n, i # n, i \in T PROVE i + 1 \in T
  <2>1. PICK k \in 1 .. n : k = i + 1 /\ k - 1 = i
    BY <1>6
  <2> QED
    BY <1>4, <1>6, <2>1
<1> HIDE DEF T
<1>7. 0 .. n \subseteq T
  BY <1>5, <1>6, SetInduction
<1> QED
  BY <1>1, <1>2, <1>7 DEF T

-----------------------------------------------------------------------------
(* OffsetInSync *)

\* The offsets that are left lie ahead.
OffsetsAhead == \A o \in todo : o >= offset /\ (next # "id" => o > offset)

InStepWithOffset(i) == InStep(i) /\ offset = OffsetOf(i + 1)

ChannelTyped ==
  /\ link \in Links
  /\ SignalData <=> IdSize = 0
  /\ channel \in VlsdGroups
  /\ filter \subseteq Offsets
  /\ todo \subseteq filter
  /\ offset \in Nat
  /\ reading \in BOOLEAN

OffsetInv ==
  /\ FileTypes
  /\ PartsTyped
  /\ ChannelTyped
  /\ todo # {} => SignalData
  /\ OffsetsAhead
  /\ SignalData /\ filter = {} => Exact
  /\ \E i \in 0 .. Len(records) : InStepWithOffset(i)

LEMMA OffsetsType ==
  ASSUME FileTypes
  PROVE  Offsets \subseteq Nat
<1> SUFFICES ASSUME NEW j \in DOMAIN records PROVE OffsetOf(j) \in Nat
  BY DEF Offsets
<1>1. PICK i \in 0 .. Len(records) : j = i + 1
  <2>1. j \in 1 .. Len(records)
    BY StartsValues DEF FileTypes
  <2>2. j - 1 \in 0 .. Len(records) /\ j = j - 1 + 1
    BY <2>1
  <2> QED
    BY <2>2
<1> QED
  BY <1>1, OffsetValues

\* An offset that is ahead of record i + 1 is that of this or of a later record.
LEMMA OffsetAhead ==
  ASSUME FileTypes, NEW o \in Offsets, NEW i \in 0 .. Len(records), o >= OffsetOf(i + 1)
  PROVE  \E j \in 1 .. Len(records) :
           /\ o = OffsetOf(j) /\ records[j].group = channel
           /\ j >= i + 1 /\ (o > OffsetOf(i + 1) => j > i + 1)
<1>1. Len(records) \in Nat /\ DOMAIN records = 1 .. Len(records)
  BY StartsValues DEF FileTypes
<1>2. PICK j \in 1 .. Len(records) : o = OffsetOf(j) /\ records[j].group = channel
  BY <1>1 DEF Offsets
<1>3. PICK k \in 0 .. Len(records) : j = k + 1
  <2>1. j - 1 \in 0 .. Len(records) /\ j = j - 1 + 1
    BY <1>1
  <2> QED
    BY <2>1
<1>4. o \in Nat /\ OffsetOf(i + 1) \in Nat
  BY <1>2, <1>3, OffsetValues
<1>5. ~(j <= i)
  <2> SUFFICES ASSUME j <= i PROVE FALSE
    OBVIOUS
  <2>1. OffsetOf(j + 1) = o + Passes(j) /\ j \in 0 .. Len(records)
    BY <1>1, <1>2, OffsetValues
  <2>2. OffsetOf(j + 1) <= OffsetOf(i + 1)
    BY <2>1, OffsetValues
  <2>3. Passes(j) \in Nat /\ Passes(j) # 0
    <3>1. records[j].length \in Nat
      BY StartsValues DEF FileTypes
    <3> QED
      BY <1>2, <3>1, LengthAssumption DEF Passes
  <2> QED
    BY <1>4, <2>1, <2>2, <2>3
<1>6. j >= i + 1 /\ (j = i + 1 => o = OffsetOf(i + 1))
  BY <1>1, <1>2, <1>5
<1>7. o > OffsetOf(i + 1) => j > i + 1
  BY <1>1, <1>4, <1>6
<1> QED
  BY <1>2, <1>6, <1>7

LEMMA NextOffsetLeast ==
  ASSUME todo # {}, todo \subseteq Nat
  PROVE  NextOffset \in todo /\ \A p \in todo : NextOffset <= p
<1>1. \E o \in todo : \A p \in todo : o <= p
  BY LeastNatural
<1> QED
  BY <1>1 DEF NextOffset

LEMMA OffsetInvInit == ASSUME Init PROVE OffsetInv
<1>1. FileTypes /\ InStep(0) /\ Exact /\ group \in Groups /\ length \in Nat /\ next = "id"
  BY ParseInitInStep DEF Init, ParseInit
<1>2. OffsetOf(0 + 1) = 0 /\ 0 \in 0 .. Len(records) /\ Offsets \subseteq Nat
  BY <1>1, OffsetValues, OffsetsType DEF InStep
<1>3. ChannelTyped /\ (todo # {} => SignalData)
  BY DEF Init, ChannelTyped, Readable
<1>4. OffsetsAhead
  <2>1. \A o \in todo : o \in Nat
    BY <1>2, <1>3 DEF ChannelTyped
  <2> QED
    BY <1>1, <2>1 DEF OffsetsAhead, Init
<1>5. InStepWithOffset(0)
  BY <1>1, <1>2 DEF InStepWithOffset, Init
<1> QED
  BY <1>1, <1>2, <1>3, <1>4, <1>5 DEF OffsetInv, PartsTyped

\* What a step that leaves the file alone has to keep of the invariant
LEMMA OffsetKept ==
  ASSUME OffsetInv, UNCHANGED file, PartsTyped', todo' \subseteq todo, reading' \in BOOLEAN,
         SignalData /\ filter = {} => Exact',
         OffsetsAhead',
         \E i \in 0 .. Len(records) : InStep(i)' /\ offset' = OffsetOf(i + 1)
  PROVE  OffsetInv'
<1>1. /\ UNCHANGED <<data, link, channel, filter>>
  BY DEF file
<1>2. FileTypes' /\ IdSize' = IdSize /\ VlsdGroups' = VlsdGroups
  BY <1>1, SameFile DEF OffsetInv
<1>3. (\A i : OffsetOf(i)' = OffsetOf(i)) /\ records' = records
  BY <1>1 DEF OffsetOf, data
<1>4. Offsets' = Offsets
  BY <1>1, <1>3 DEF Offsets
<1>5. offset' \in Nat
  BY OffsetValues DEF OffsetInv
<1>6. SignalData' <=> SignalData
  BY <1>1 DEF SignalData
<1>7. ChannelTyped'
  BY <1>1, <1>2, <1>4, <1>5, <1>6 DEF OffsetInv, ChannelTyped
<1>8. todo' # {} => SignalData'
  BY <1>6 DEF OffsetInv
<1>9. \E i \in 0 .. Len(records)' : InStepWithOffset(i)'
  BY <1>3 DEF InStepWithOffset
<1>10. (SignalData /\ filter = {} => Exact)'
  BY <1>1, <1>6
<1> QED
  BY <1>2, <1>7, <1>8, <1>9, <1>10 DEF OffsetInv

LEMMA HeaderInStep ==
  ASSUME OffsetInv, ReadHeader, NEW i \in 0 .. Len(records), InStepWithOffset(i)
  PROVE  InStep(i)' /\ (SignalData /\ filter = {} => Exact') /\ OffsetsAhead'
<1>1. /\ UNCHANGED <<todo, offset>> /\ UNCHANGED data /\ InStep(i)
      /\ FileTypes /\ ChannelTyped /\ OffsetsAhead
      /\ SignalData /\ filter = {} => Exact
  BY DEF ReadHeader, file, OffsetInv, InStepWithOffset
<1>2. CASE ParseLength
  <2>1. InStep(i)' /\ (Exact => Exact')
    BY <1>1, <1>2, LengthRecognised
  <2>2. OffsetsAhead'
    BY <1>1, <1>2 DEF OffsetsAhead, ParseLength
  <2> QED
    BY <1>1, <2>1, <2>2
<1>3. CASE ParseRecordId
  <2>1. next = "id" /\ ~ByOffset /\ ~NoMoreData
    BY <1>3 DEF ReadHeader, ParseRecordId
  <2>2. CASE i = Len(records)
    <3>1. IdSize = 0
      BY <1>1, <1>3, <2>2, IdBehindLast
    <3>2. SignalData /\ filter = {}
      BY <1>1, <2>1, <3>1 DEF ChannelTyped, ByOffset
    <3>3. cache.data_count = DataSize
      BY <1>1, <2>1, <2>2, <3>2 DEF Exact, InStep, FileTypes
    <3>4. blocks \in Seq(Blocks)
      BY <1>1 DEF FileTypes
    <3> QED
      BY <2>1, <3>3, <3>4, EndsValues DEF NoMoreData
  <2>3. CASE i # Len(records)
    <3>1. i < Len(records)
      <4>1. Len(records) \in Nat
        BY <1>1 DEF FileTypes
      <4> QED
        BY <2>3, <4>1
    <3>2. InStep(i)' /\ (Exact => Exact')
      BY <1>1, <1>3, <3>1, IdRecognised
    <3>3. todo = {}
      BY <1>1, <2>1 DEF OffsetInv, ByOffset, ChannelTyped
    <3>4. OffsetsAhead'
      BY <1>1, <3>3 DEF OffsetsAhead
    <3> QED
      BY <1>1, <3>2, <3>4
  <2> QED
    BY <2>2, <2>3
<1> QED
  BY <1>2, <1>3 DEF ReadHeader

LEMMA HeaderOffset == ASSUME OffsetInv, ReadHeader PROVE OffsetInv'
<1>1. /\ UNCHANGED <<file, todo, offset, reading>> /\ UNCHANGED data
      /\ FileTypes /\ PartsTyped /\ ChannelTyped
      /\ layout \in Layouts /\ blocks \in Seq(Blocks) /\ blocks # <<>>
  BY DEF ReadHeader, file, OffsetInv, FileTypes
<1>2. PartsTyped'
  BY <1>1, HeaderTyped DEF ReadHeader
<1>3. PICK i \in 0 .. Len(records) : InStepWithOffset(i)
  BY DEF OffsetInv
<1>4. InStep(i)' /\ (SignalData /\ filter = {} => Exact') /\ OffsetsAhead'
  BY <1>3, HeaderInStep
<1> QED
  BY <1>1, <1>2, <1>3, <1>4, OffsetKept DEF ChannelTyped, InStepWithOffset

\* The data of a record is passed.
LEMMA PassedOffset ==
  ASSUME OffsetInv, NEW i \in 0 .. Len(records), InStep(i), offset = OffsetOf(i + 1),
         next = "data", next' = "id", todo' = todo, offset' = Passed(length)
  PROVE  /\ i + 1 \in 0 .. Len(records) /\ offset' = OffsetOf(i + 1 + 1)
         /\ OffsetsAhead'
<1>1. FileTypes /\ group = records[i + 1].group /\ length = records[i + 1].length
      /\ i < Len(records) /\ ChannelTyped /\ OffsetsAhead
  BY DEF OffsetInv, InStep
<1>2. PICK j \in 1 .. Len(records) : j = i + 1 /\ j \in 0 .. Len(records)
  BY <1>1
<1>3. OffsetOf(j + 1) = offset + Passes(j) /\ offset \in Nat /\ Passes(j) \in Nat
  BY <1>1, <1>2, OffsetValues, PassesType
<1>4. offset' = OffsetOf(j + 1)
  <2>1. CASE group = channel
    <3>1. length \in Nat
      BY <1>1, <1>2, StartsValues DEF FileTypes
    <3> QED
      BY <1>1, <1>2, <1>3, <2>1, <3>1, LengthAssumption DEF Passed, Passes
  <2>2. CASE group # channel
    BY <1>1, <1>2, <1>3, <2>2 DEF Passed, Passes
  <2> QED
    BY <2>1, <2>2
<1>5. ASSUME NEW o \in todo PROVE o >= OffsetOf(j + 1)
  <2>1. o \in Offsets /\ o > OffsetOf(i + 1)
    BY <1>1 DEF ChannelTyped, OffsetsAhead
  <2>2. o >= OffsetOf(i + 1) /\ o \in Nat
    BY <1>1, <2>1, OffsetsType, OffsetValues
  <2>3. PICK k \in 1 .. Len(records) : o = OffsetOf(k) /\ k > i + 1
    BY <1>1, <2>1, <2>2, OffsetAhead
  <2>4. PICK l \in 0 .. Len(records) : k = l + 1 /\ j <= l
    <3>1. k - 1 \in 0 .. Len(records) /\ k = k - 1 + 1 /\ j <= k - 1
      BY <1>2, <2>3
    <3> QED
      BY <3>1
  <2>5. OffsetOf(j + 1) <= OffsetOf(l + 1) /\ OffsetOf(j + 1) \in Nat
    BY <1>1, <1>2, <2>4, OffsetValues
  <2> QED
    BY <2>2, <2>3, <2>4, <2>5
<1> QED
  BY <1>2, <1>4, <1>5 DEF OffsetsAhead

LEMMA PassInStep ==
  ASSUME OffsetInv, SkipRecord \/ ReadRecord, NEW i \in 0 .. Len(records), InStepWithOffset(i)
  PROVE  /\ i \in 0 .. Len(records) - 1 /\ i + 1 \in 0 .. Len(records)
         /\ group = records[i + 1].group
         /\ InStep(i + 1)' /\ offset' = OffsetOf(i + 1 + 1) /\ OffsetsAhead'
         /\ ReadRecord => /\ Exact => Exact'
                          /\ GetArray(cache, length).bytes = Payload(i + 1)
<1>1. /\ todo' = todo /\ UNCHANGED data /\ offset' = Passed(length)
      /\ FileTypes /\ InStep(i) /\ offset = OffsetOf(i + 1)
  BY DEF SkipRecord, ReadRecord, file, OffsetInv, InStepWithOffset
<1>2. /\ SkipRecord => SkipData
      /\ ReadRecord => ReadData(GetArray(cache, length))
  BY DEF SkipRecord, ReadRecord
<1>3. next = "data" /\ next' = "id"
  BY <1>2 DEF SkipData, ReadData
<1>4. i \in 0 .. Len(records) - 1 /\ group = records[i + 1].group
  BY <1>1, <1>3, DataPlace DEF InStep
<1>5. /\ i + 1 \in 0 .. Len(records) /\ offset' = OffsetOf(i + 1 + 1)
      /\ OffsetsAhead'
  BY <1>1, <1>3, PassedOffset
<1>6. CASE SkipRecord /\ ~ReadRecord
  BY <1>1, <1>2, <1>4, <1>5, <1>6, DataSkipped
<1>7. CASE ReadRecord
  BY <1>1, <1>2, <1>4, <1>5, <1>7, DataRead
<1> QED
  BY <1>6, <1>7

\* Nothing is skipped of signal data by the offsets or as a whole.
LEMMA SkipsNoSignal ==
  ASSUME OffsetInv, SkipRecord
  PROVE  ~ByOffset /\ ~(SignalData /\ filter = {})
<1>1. FileTypes /\ PartsTyped /\ ChannelTyped /\ ~Reads
  BY DEF SkipRecord, OffsetInv
<1>2. SUFFICES ASSUME SignalData PROVE FALSE
  BY <1>2 DEF ByOffset
<1>3. Groups = {channel}
  BY <1>1, <1>2, SignalOffsets DEF ChannelTyped
<1> QED
  BY <1>1, <1>2, <1>3 DEF Reads, ByOffset, PartsTyped

LEMMA PassOffset == ASSUME OffsetInv, SkipRecord \/ ReadRecord PROVE OffsetInv'
<1>1. /\ UNCHANGED <<file, todo>> /\ UNCHANGED <<group, length>> /\ UNCHANGED data
      /\ next' = "id" /\ PartsTyped /\ ChannelTyped
  BY DEF SkipRecord, SkipData, ReadRecord, ReadData, file, OffsetInv
<1>2. PartsTyped'
  BY <1>1, SameFile DEF PartsTyped
<1>3. PICK i \in 0 .. Len(records) : InStepWithOffset(i)
  BY DEF OffsetInv
<1>4. /\ i + 1 \in 0 .. Len(records) /\ InStep(i + 1)' /\ offset' = OffsetOf(i + 1 + 1)
      /\ OffsetsAhead' /\ (ReadRecord => (Exact => Exact'))
  BY <1>3, PassInStep
<1>5. SignalData /\ filter = {} => Exact'
  BY <1>4, SkipsNoSignal DEF OffsetInv
<1>6. reading' \in BOOLEAN
  <2>1. reading' = reading \/ reading' = (SignalData => cache'.data_count < DataSize)
    BY DEF SkipRecord, ReadRecord
  <2> QED
    BY <1>1, <2>1, Zenon DEF ChannelTyped
<1> QED
  BY <1>1, <1>2, <1>4, <1>5, <1>6, OffsetKept

LEMMA SeekInStep ==
  ASSUME OffsetInv, Seek, NEW i \in 0 .. Len(records), InStepWithOffset(i)
  PROVE  \E k \in 0 .. Len(records) :
           /\ i <= k /\ k < Len(records)
           /\ InStep(k)' /\ offset' = OffsetOf(k + 1)
           /\ offset' \in todo /\ offset' >= offset
           /\ \A p \in todo : offset' <= p
<1>1. /\ UNCHANGED data /\ UNCHANGED <<group, length>>
      /\ next = "id" /\ next' = "length" /\ todo # {} /\ todo' = todo \ {NextOffset}
      /\ cache' = SkipBytes(cache, NextOffset - offset) /\ offset' = NextOffset
      /\ ByOffset /\ SignalData /\ IdSize = 0
      /\ FileTypes /\ PartsTyped /\ ChannelTyped /\ OffsetsAhead
      /\ layout \in Layouts /\ records \in Seq(Records) /\ blocks \in Seq(Blocks)
  BY DEF Seek, file, OffsetInv, ByOffset, ChannelTyped, FileTypes
<1>3. InStep(i) /\ offset = OffsetOf(i + 1)
  BY DEF InStepWithOffset
<1>4. todo \subseteq Nat /\ todo \subseteq Offsets /\ offset \in Nat
  BY <1>1, OffsetsType DEF ChannelTyped
<1>5. PICK o \in todo : o = NextOffset /\ \A p \in todo : o <= p
  BY <1>1, <1>4, NextOffsetLeast
<1>6. o \in Nat /\ o >= offset
  BY <1>1, <1>4 DEF OffsetsAhead
<1>7. PICK j \in 1 .. Len(records) : /\ o = OffsetOf(j) /\ records[j].group = channel
                                     /\ j >= i + 1
  <2>1. o \in Offsets
    BY <1>4
  <2> QED
    BY <1>1, <1>3, <1>6, <2>1, OffsetAhead
<1>8. PICK k \in 0 .. Len(records) : j = k + 1 /\ k < Len(records) /\ i <= k
  <2>1. /\ j - 1 \in 0 .. Len(records) /\ j = j - 1 + 1 /\ j - 1 < Len(records)
        /\ i <= j - 1
    BY <1>1, <1>7
  <2> QED
    BY <2>1
<1>9. Groups = {channel} /\ Starts[i] = offset /\ Starts[k] = o
  BY <1>1, <1>3, <1>7, <1>8, SignalOffsets DEF ChannelTyped
<1>10. PICK n \in Nat : n = o - offset /\ offset + n = o
  BY <1>4, <1>6
<1>11. Place(cache) = offset /\ Located(cache) /\ cache.data_count <= Place(cache)
  BY <1>1, <1>3, <1>9 DEF InStep
<1>12. Place(cache) + n <= DataSize
  <2>1. Starts[k] <= Starts[Len(records)] /\ DataSize = Starts[Len(records)]
    <3>1. k <= Len(records) /\ Len(records) \in 0 .. Len(records)
      BY <1>1, <1>8
    <3> QED
      BY <1>1, <3>1, StartsValues DEF FileTypes
  <2> QED
    BY <1>9, <1>10, <1>11, <2>1
<1>13. /\ Located(cache') /\ Place(cache') = o
       /\ cache'.data_count <= cache.data_count + n
  BY <1>1, <1>5, <1>10, <1>11, <1>12, SkipBytesMoves
<1>14. cache'.data_count <= Place(cache')
  <2>1. cache'.data_count \in Nat /\ cache.data_count \in Nat
    BY <1>1, <1>11, <1>13, PlaceType
  <2> QED
    BY <1>4, <1>10, <1>11, <1>13, <2>1
<1>15. group = channel /\ channel \in VlsdGroups
  BY <1>1, <1>9 DEF PartsTyped, ChannelTyped
<1>16. InStep(k)'
  <2>1. Place(cache') = Starts[k] + IdSize
    BY <1>1, <1>6, <1>9, <1>13
  <2>2. records[k + 1].group = channel
    BY <1>7, <1>8
  <2> QED
    BY <1>1, <1>8, <1>13, <1>14, <1>15, <2>1, <2>2, SameFile DEF InStep, data
<1>17. offset' = OffsetOf(k + 1) /\ offset' = o
  BY <1>1, <1>5, <1>7, <1>8
<1> QED
  BY <1>5, <1>6, <1>8, <1>16, <1>17

LEMMA SeekOffset == ASSUME OffsetInv, Seek PROVE OffsetInv'
<1>1. /\ UNCHANGED <<file, reading>> /\ UNCHANGED data /\ UNCHANGED <<group, length>>
      /\ next' = "length" /\ todo # {} /\ todo' = todo \ {NextOffset}
      /\ offset' = NextOffset /\ ByOffset
      /\ PartsTyped /\ ChannelTyped /\ FileTypes
  BY DEF Seek, file, OffsetInv
<1>2. PartsTyped'
  BY <1>1, SameFile DEF PartsTyped
<1>3. PICK i \in 0 .. Len(records) : InStepWithOffset(i)
  BY DEF OffsetInv
<1>4. PICK k \in 0 .. Len(records) :
        /\ InStep(k)' /\ offset' = OffsetOf(k + 1)
        /\ offset' \in todo /\ \A p \in todo : offset' <= p
  BY <1>3, SeekInStep
<1>5. OffsetsAhead'
  <2>1. todo \subseteq Nat
    BY <1>1, OffsetsType DEF ChannelTyped
  <2> QED
    BY <1>1, <1>4, <2>1 DEF OffsetsAhead
<1>6. ~(filter = {})
  BY <1>1 DEF ByOffset
<1> QED
  BY <1>1, <1>2, <1>4, <1>5, <1>6, OffsetKept DEF ChannelTyped

LEMMA OffsetInvNext == ASSUME OffsetInv, [Next]_vars PROVE OffsetInv'
<1>1. ASSUME UNCHANGED <<file, cache, parsing, todo, offset>>, reading' \in BOOLEAN
      PROVE  OffsetInv'
  <2>1. UNCHANGED data
    BY <1>1 DEF file
  <2>2. PartsTyped'
    BY <1>1, <2>1, SameFile DEF OffsetInv, PartsTyped, parsing
  <2>3. \A i : InStep(i)' <=> InStep(i)
    BY <1>1, <2>1, SameFile DEF InStep, parsing, data
  <2>4. Exact' <=> Exact
    BY <1>1, <2>1, SameFile DEF Exact
  <2>5. OffsetsAhead'
    BY <1>1 DEF OffsetInv, OffsetsAhead, parsing
  <2>6. PICK i \in 0 .. Len(records) : InStep(i) /\ offset = OffsetOf(i + 1)
    BY DEF OffsetInv, InStepWithOffset
  <2> QED
    BY <1>1, <2>2, <2>3, <2>4, <2>5, <2>6, OffsetKept DEF OffsetInv
<1>2. CASE EndOfData \/ EndOfFilter \/ Fail
  BY <1>1, <1>2 DEF EndOfData, EndOfFilter, Fail
<1>3. CASE UNCHANGED vars
  BY <1>1, <1>3 DEF vars, state, OffsetInv, ChannelTyped
<1> QED
  BY <1>2, <1>3, HeaderOffset, SeekOffset, PassOffset DEF Next, Returned

\* While it parses, the reader is at a record and offset_ is the offset of the
\* next data of the channel: for any records, lengths and cuts into blocks, any
\* other groups in between and any choice of offsets, although the bytes that
\* SkipBytes() passes are not all counted.
THEOREM VlsdOffsetInSync == Spec => []OffsetInSync
<1>1. OffsetInv => OffsetInSync
  BY InStepAtRecord DEF OffsetInv, InStepWithOffset, OffsetInSync
<1> QED
  BY <1>1, OffsetInvInit, OffsetInvNext, PTL DEF Spec

\* Every variable of the reader keeps its type, and it never believes to have
\* passed more bytes than there are.
THEOREM VlsdTypeCorrect == Spec => []TypeOK
<1>1. OffsetInv => TypeOK
  <2> SUFFICES ASSUME OffsetInv PROVE TypeOK
    OBVIOUS
  <2>1. PICK i \in 0 .. Len(records) : InStep(i)
    BY DEF OffsetInv, InStepWithOffset
  <2>2. FileTypes /\ blocks \in Seq(Blocks) /\ Located(cache)
        /\ cache.data_count <= Place(cache)
    BY <2>1 DEF OffsetInv, FileTypes, InStep
  <2>3. /\ cache.block_index \in 0 .. Len(blocks) /\ cache.data_count \in Nat
        /\ Place(cache) \in Nat /\ Place(cache) <= DataSize /\ DataSize \in Nat
    BY <2>2, PlaceType, EndsValues
  <2>4. ParseTypeOK
    BY <2>2, <2>3 DEF OffsetInv, FileTypes, PartsTyped, ParseTypeOK
  <2>5. cache.data_count <= DataSize
    BY <2>2, <2>3
  <2>6. filter \subseteq Nat
    BY <2>2, OffsetsType DEF OffsetInv, ChannelTyped
  <2> QED
    BY <2>4, <2>5, <2>6 DEF TypeOK, OffsetInv, ChannelTyped
<1> QED
  BY <1>1, OffsetInvInit, OffsetInvNext, PTL DEF Spec

-----------------------------------------------------------------------------
(* What is delivered *)

\* Those of the first i records that are wanted were given.
GivenUpTo(i) == delivered = First(Wanted, Cardinality(Upto(Chosen, i)))

\* The loop over the filter has come to every offset that was passed, and to
\* that of the data it is at.
FilterInOrder ==
  ByOffset => /\ \A o \in filter \ todo : o < offset \/ (o = offset /\ next # "id")
              /\ next # "id" => offset \in filter

GivenInv ==
  /\ OffsetInv
  /\ FullBlocks
  /\ FilterInOrder
  /\ \E i \in 0 .. Len(records) : InStepWithOffset(i) /\ GivenUpTo(i)

WantedAt(i) == [offset |-> OffsetOf(i), bytes |-> Payload(i)]

LEMMA WantedKept ==
  ASSUME UNCHANGED file
  PROVE  /\ Wanted' = Wanted /\ Chosen' = Chosen /\ records' = records
         /\ FullBlocks' <=> FullBlocks
         /\ ByOffset' <=> ByOffset
<1>1. UNCHANGED <<blocks, layout, records, link, channel, filter>>
  BY DEF file, data
<1>2. Starts' = Starts /\ \A g : HeaderSize(g)' = HeaderSize(g)
  BY <1>1, SameFile DEF data
<1>3. \A i : OffsetOf(i)' = OffsetOf(i)
  BY <1>1 DEF OffsetOf
<1>4. \A i : Payload(i)' = Payload(i)
  BY <1>1, <1>2 DEF Payload, Field
<1>5. \A i : Wants(i)' <=> Wants(i)
  BY <1>1, <1>3 DEF Wants
<1>6. Chosen' = Chosen
  BY <1>1, <1>5 DEF Chosen
<1>7. Wanted' = Wanted
  BY <1>3, <1>4, <1>6 DEF Wanted
<1> QED
  BY <1>1, <1>6, <1>7 DEF FullBlocks, ByOffset, SignalData

LEMMA WantedValues ==
  ASSUME FileTypes
  PROVE  /\ Len(records) \in Nat /\ Chosen \in SUBSET (1 .. Len(records))
         /\ Len(Wanted) = Cardinality(Chosen) /\ Cardinality(Chosen) \in Nat
         /\ Wanted \in Seq({Wanted[k] : k \in 1 .. Cardinality(Chosen)})
         /\ \A k \in 1 .. Cardinality(Chosen) : Wanted[k] = WantedAt(Ascending(Chosen)[k])
<1>1. PICK n \in Nat : n = Len(records) /\ DOMAIN records = 1 .. n
  BY DEF FileTypes
<1>2. Chosen \in SUBSET (1 .. n)
  BY <1>1 DEF Chosen
<1>3. Cardinality(Chosen) \in Nat
  BY <1>2, UptoCounts
<1>4. Wanted = [k \in 1 .. Cardinality(Chosen) |-> WantedAt(Ascending(Chosen)[k])]
  BY DEF Wanted, WantedAt, Ascending
<1> QED
  BY <1>1, <1>2, <1>3, <1>4

LEMMA GivenMore ==
  ASSUME FileTypes, NEW i \in 0 .. Len(records) - 1, GivenUpTo(i)
  PROVE  IF Wants(i + 1)
         THEN /\ Len(delivered) < Len(Wanted)
              /\ Wanted[Len(delivered) + 1] = WantedAt(i + 1)
              /\ Append(delivered, WantedAt(i + 1)) = First(Wanted, Cardinality(Upto(Chosen, i + 1)))
         ELSE delivered = First(Wanted, Cardinality(Upto(Chosen, i + 1)))
<1>1. PICK n \in Nat : n = Len(records) /\ DOMAIN records = 1 .. n
  BY DEF FileTypes
<1>2. PICK c \in SUBSET (1 .. n) : c = Chosen
  BY <1>1, WantedValues
<1>3. PICK S : Wanted \in Seq(S) /\ Len(Wanted) = Cardinality(c)
  BY <1>2, WantedValues
<1>4. PICK w \in Seq(S) : w = Wanted /\ Len(w) = Cardinality(c)
  BY <1>3
<1>5. PICK k : k = Cardinality(Upto(c, i)) /\ delivered = First(w, k)
  BY <1>2, <1>4 DEF GivenUpTo
<1>6. i \in 0 .. n - 1 /\ (Wants(i + 1) <=> i + 1 \in c)
  BY <1>1, <1>2 DEF Chosen
<1>7. CASE i + 1 \in c
  <2>1. k \in Nat /\ k < Len(w) /\ Len(First(w, k)) = k
    BY <1>4, <1>5, <1>6, <1>7, ListAdds
  <2>2. Ascending(c)[k + 1] = i + 1
    BY <1>4, <1>5, <1>6, <1>7, ListAdds
  <2>3. Append(First(w, k), w[k + 1]) = First(w, Cardinality(Upto(c, i + 1)))
    <3>1. Append(First(w, k), w[k + 1]) = First(w, k + 1)
      BY <1>4, <1>5, <1>6, <1>7, ListAdds, SMTT(30)
    <3>2. Cardinality(Upto(c, i + 1)) = k + 1
      BY <1>4, <1>5, <1>6, <1>7, ListAdds
    <3> QED
      BY <3>1, <3>2
  <2>4. Wanted[k + 1] = WantedAt(Ascending(Chosen)[k + 1])
    <3>1. k + 1 \in 1 .. Cardinality(Chosen)
      BY <1>2, <1>4, <2>1
    <3>2. \A l \in 1 .. Cardinality(Chosen) : Wanted[l] = WantedAt(Ascending(Chosen)[l])
      BY WantedValues
    <3> QED
      BY <3>1, <3>2
  <2>5. w[k + 1] = WantedAt(i + 1)
    BY <1>2, <1>4, <2>2, <2>4
  <2> QED
    BY <1>2, <1>4, <1>5, <1>6, <1>7, <2>1, <2>3, <2>5
<1>8. CASE i + 1 \notin c
  <2>1. i \in 0 .. n /\ i + 1 \in 0 .. n /\ i <= i + 1 /\ \A j \in i + 1 .. i + 1 : j \notin c
    BY <1>6, <1>8
  <2>2. Upto(c, i) = Upto(c, i + 1)
    BY <2>1, UptoSame
  <2> QED
    BY <1>2, <1>4, <1>5, <1>6, <1>8, <2>2
<1> QED
  BY <1>7, <1>8

\* What is behind a run of records that nobody wants
LEMMA GivenSame ==
  ASSUME FileTypes, NEW i \in 0 .. Len(records), NEW k \in 0 .. Len(records), i <= k,
         \A j \in i + 1 .. k : ~Wants(j), GivenUpTo(i)
  PROVE  GivenUpTo(k)
<1>1. PICK n \in Nat : n = Len(records) /\ Chosen \in SUBSET (1 .. n)
  BY WantedValues
<1>2. \A j \in i + 1 .. k : j \notin Chosen
  BY DEF Chosen
<1>3. Upto(Chosen, i) = Upto(Chosen, k)
  BY <1>1, <1>2, UptoSame
<1> QED
  BY <1>3 DEF GivenUpTo

LEMMA GivenAll ==
  ASSUME FileTypes, NEW i \in 0 .. Len(records), GivenUpTo(i),
         \A j \in i + 1 .. Len(records) : ~Wants(j)
  PROVE  delivered = Wanted
<1>1. PICK n \in Nat : n = Len(records) /\ Chosen \in SUBSET (1 .. n)
  BY WantedValues
<1>2. PICK S : Wanted \in Seq(S) /\ Len(Wanted) = Cardinality(Chosen)
  BY WantedValues
<1>3. \A j \in i + 1 .. n : j \notin Chosen
  BY <1>1 DEF Chosen
<1> QED
  BY <1>1, <1>2, <1>3, ListComplete DEF GivenUpTo

\* What was given so far stays what is wanted.
LEMMA GivenKept ==
  ASSUME UNCHANGED file, NEW i, delivered' = First(Wanted, Cardinality(Upto(Chosen, i)))
  PROVE  GivenUpTo(i)'
BY WantedKept DEF GivenUpTo

-----------------------------------------------------------------------------
(* The steps *)

LEMMA GivenInvInit == ASSUME Init, ~EmptyBlocks PROVE GivenInv
<1>1. OffsetInv /\ FullBlocks /\ FileTypes
  BY OffsetInvInit, FileInitFull DEF Init, ParseInit, OffsetInv
<1>2. FilterInOrder
  BY DEF Init, ParseInit, FilterInOrder, ByOffset
<1>3. 0 \in 0 .. Len(records) /\ InStep(0) /\ OffsetOf(0 + 1) = 0
  BY <1>1, ParseInitInStep, OffsetValues, WantedValues DEF Init
<1>4. GivenUpTo(0)
  <2>1. Cardinality(Upto(Chosen, 0)) = 0
    BY <1>1, WantedValues, UptoCounts
  <2>2. First(Wanted, 0) = <<>>
    BY DEF First
  <2> QED
    BY <2>1, <2>2 DEF GivenUpTo, Init
<1> QED
  BY <1>1, <1>2, <1>3, <1>4 DEF GivenInv, InStepWithOffset, Init

\* A record that is passed is delivered exactly if it is wanted.
LEMMA PassDelivers ==
  ASSUME GivenInv, SkipRecord \/ ReadRecord,
         NEW i \in 0 .. Len(records), InStepWithOffset(i), GivenUpTo(i)
  PROVE  /\ delivered' = First(Wanted, Cardinality(Upto(Chosen, i + 1)))
         /\ ReadRecord => /\ Len(delivered) < Len(Wanted)
                          /\ delivered' = Append(delivered, Wanted[Len(delivered) + 1])
<1>1. /\ OffsetInv /\ FileTypes /\ FilterInOrder /\ offset = OffsetOf(i + 1)
  BY DEF GivenInv, OffsetInv, InStepWithOffset
<1>2. /\ i \in 0 .. Len(records) - 1
      /\ group = records[i + 1].group
      /\ ReadRecord => GetArray(cache, length).bytes = Payload(i + 1)
  BY <1>1, PassInStep
<1>3. IF Wants(i + 1)
      THEN /\ Len(delivered) < Len(Wanted)
           /\ Wanted[Len(delivered) + 1] = WantedAt(i + 1)
           /\ Append(delivered, WantedAt(i + 1)) = First(Wanted, Cardinality(Upto(Chosen, i + 1)))
      ELSE delivered = First(Wanted, Cardinality(Upto(Chosen, i + 1)))
  BY <1>1, <1>2, GivenMore
<1>4. CASE ReadRecord
  <2>1. Reads /\ next = "data"
    BY <1>4 DEF ReadRecord, ReadData
  <2>2. Wants(i + 1)
    BY <1>1, <1>2, <2>1 DEF Wants, Reads, FilterInOrder
  <2>3. delivered' = Append(delivered, WantedAt(i + 1))
    BY <1>1, <1>2, <1>4 DEF ReadRecord, WantedAt
  <2> QED
    BY <1>3, <2>2, <2>3
<1>5. CASE SkipRecord /\ ~ReadRecord
  <2>1. ~Reads /\ delivered' = delivered
    BY <1>5 DEF SkipRecord
  <2>2. ~Wants(i + 1)
    BY <1>1, <1>2, <2>1 DEF Wants, Reads
  <2> QED
    BY <1>3, <1>5, <2>1, <2>2
<1> QED
  BY <1>4, <1>5

\* Data behind the first of i records has an offset no less than theirs.
LEMMA OffsetBehind ==
  ASSUME FileTypes, NEW i \in 0 .. Len(records), NEW l \in i + 1 .. Len(records)
  PROVE  /\ OffsetOf(l) \in Nat /\ OffsetOf(l) >= OffsetOf(i + 1)
         /\ \A k \in 0 .. Len(records) :
              l <= k /\ records[l].group = channel => OffsetOf(l) < OffsetOf(k + 1)
<1>1. PICK m \in 0 .. Len(records) : l = m + 1 /\ i <= m
  <2>1. l - 1 \in 0 .. Len(records) /\ l = l - 1 + 1 /\ i <= l - 1
    BY WantedValues
  <2> QED
    BY <2>1
<1>2. OffsetOf(l) \in Nat /\ OffsetOf(i + 1) \in Nat /\ OffsetOf(l) >= OffsetOf(i + 1)
  BY <1>1, OffsetValues
<1>3. l \in 1 .. Len(records) /\ l \in 0 .. Len(records)
  BY WantedValues
<1>4. ASSUME NEW k \in 0 .. Len(records), l <= k, records[l].group = channel
      PROVE  OffsetOf(l) < OffsetOf(k + 1)
  <2>1. OffsetOf(l + 1) <= OffsetOf(k + 1) /\ OffsetOf(k + 1) \in Nat
    BY <1>3, <1>4, OffsetValues
  <2>2. OffsetOf(l + 1) = OffsetOf(l) + Passes(l)
    BY <1>3, OffsetValues
  <2>3. Passes(l) \in Nat /\ Passes(l) # 0
    <3>1. records[l].length \in Nat
      BY <1>3, StartsValues DEF FileTypes
    <3> QED
      BY <1>4, <3>1, LengthAssumption DEF Passes
  <2> QED
    BY <1>2, <2>1, <2>2, <2>3
<1> QED
  BY <1>2, <1>4

\* The data between the offset that was read last and the next of the filter is
\* not wanted.
LEMMA SeekPassesNothing ==
  ASSUME GivenInv, ByOffset, next = "id",
         NEW i \in 0 .. Len(records), InStepWithOffset(i),
         NEW k \in 0 .. Len(records),
         \A o \in todo : OffsetOf(k + 1) <= o
  PROVE  \A l \in i + 1 .. k : ~Wants(l)
<1> SUFFICES ASSUME NEW l \in i + 1 .. k, Wants(l) PROVE FALSE
  OBVIOUS
<1>1. /\ FileTypes /\ FilterInOrder /\ offset = OffsetOf(i + 1)
  BY DEF GivenInv, OffsetInv, InStepWithOffset
<1>2. l \in i + 1 .. Len(records) /\ l <= k
  BY <1>1, WantedValues
<1>3. OffsetOf(l) \in filter /\ records[l].group = channel
  BY DEF Wants, ByOffset
<1>4. OffsetOf(l) \in Nat /\ OffsetOf(l) >= offset /\ OffsetOf(l) < OffsetOf(k + 1)
  BY <1>1, <1>2, <1>3, OffsetBehind
<1>5. offset \in Nat /\ OffsetOf(k + 1) \in Nat
  BY <1>1, OffsetValues
<1>6. OffsetOf(l) \in todo
  BY <1>1, <1>3, <1>4, <1>5 DEF FilterInOrder
<1> QED
  BY <1>4, <1>5, <1>6

\* There is nothing wanted behind the last offset of the filter.
LEMMA FilterComplete ==
  ASSUME GivenInv, EndOfFilter
  PROVE  delivered = Wanted
<1>1. FileTypes /\ ByOffset /\ next = "id" /\ todo = {} /\ Len(records) \in Nat
  BY WantedValues DEF EndOfFilter, GivenInv, OffsetInv
<1>2. PICK i \in 0 .. Len(records) : InStepWithOffset(i) /\ GivenUpTo(i)
  BY DEF GivenInv
<1>3. \A l \in i + 1 .. Len(records) : ~Wants(l)
  <2>1. Len(records) \in 0 .. Len(records) /\ \A o \in todo : OffsetOf(Len(records) + 1) <= o
    BY <1>1
  <2> QED
    BY <1>1, <1>2, <2>1, SeekPassesNothing
<1> QED
  BY <1>1, <1>2, <1>3, GivenAll

LEMMA FilterOrderKept == ASSUME GivenInv, [Next]_vars PROVE FilterInOrder'
<1>1. UNCHANGED file
  BY DEF Next, EndOfData, EndOfFilter, ReadHeader, Seek, SkipRecord, ReadRecord, Fail, Returned, vars
<1> SUFFICES ASSUME ByOffset
             PROVE  /\ \A o \in filter \ todo' : o < offset' \/ (o = offset' /\ next' # "id")
                    /\ next' # "id" => offset' \in filter
  BY <1>1, WantedKept DEF FilterInOrder, file
<1>2. /\ FileTypes /\ ChannelTyped /\ offset \in Nat
      /\ \A o \in filter \ todo : o < offset \/ (o = offset /\ next # "id")
      /\ next # "id" => offset \in filter
      /\ filter \subseteq Nat
  BY OffsetsType DEF GivenInv, OffsetInv, ChannelTyped, FilterInOrder
<1>3. ASSUME UNCHANGED <<parsing, todo, offset>>
      PROVE  /\ \A o \in filter \ todo' : o < offset' \/ (o = offset' /\ next' # "id")
             /\ next' # "id" => offset' \in filter
  BY <1>2, <1>3 DEF parsing
<1>4. CASE ReadHeader
  <2>1. UNCHANGED <<todo, offset>> /\ next # "id" /\ next' # "id"
    BY <1>4 DEF ReadHeader, ParseLength, ParseRecordId
  <2> QED
    BY <1>2, <2>1
<1>5. CASE Seek
  <2>1. /\ todo' = todo \ {NextOffset} /\ offset' = NextOffset /\ next' = "length" /\ next = "id"
    BY <1>5 DEF Seek
  <2>2. offset' \in todo /\ offset' >= offset /\ offset' \in filter
    BY <1>2, <1>5, SeekInStep DEF GivenInv, OffsetInv, ChannelTyped
  <2> QED
    BY <1>2, <2>1, <2>2
<1>6. CASE SkipRecord
  BY <1>6, SkipsNoSignal DEF GivenInv
<1>7. CASE ReadRecord
  <2>1. /\ todo' = todo /\ next' = "id" /\ group = channel
        /\ offset' = Passed(length)
    BY <1>7 DEF ReadRecord, ReadData, Reads
  <2>2. length \in Nat
    BY DEF GivenInv, OffsetInv, PartsTyped
  <2>3. offset' > offset
    BY <1>2, <2>1, <2>2, LengthAssumption DEF Passed
  <2> QED
    BY <1>2, <2>1, <2>3, <1>1, LengthAssumption, <2>2 DEF Passed
<1>8. CASE EndOfData \/ EndOfFilter \/ Fail \/ UNCHANGED vars
  BY <1>3, <1>8 DEF EndOfData, EndOfFilter, Fail, vars, state
<1> QED
  BY <1>4, <1>5, <1>6, <1>7, <1>8 DEF Next, Returned

LEMMA GivenInvNext == ASSUME GivenInv, [Next]_vars PROVE GivenInv'
<1>1. OffsetInv' /\ FilterInOrder'
  BY OffsetInvNext, FilterOrderKept DEF GivenInv
<1>2. UNCHANGED file
  BY DEF Next, EndOfData, EndOfFilter, ReadHeader, Seek, SkipRecord, ReadRecord, Fail, Returned, vars
<1>3. FullBlocks' /\ records' = records
  BY <1>2, WantedKept DEF GivenInv
<1>4. \A k : OffsetOf(k)' = OffsetOf(k)
  BY <1>2, <1>3 DEF OffsetOf, file
<1>5. PICK i \in 0 .. Len(records) : InStepWithOffset(i) /\ GivenUpTo(i)
  BY DEF GivenInv
<1>6. SUFFICES \E k \in 0 .. Len(records) : /\ InStep(k)' /\ offset' = OffsetOf(k + 1)
                                           /\ GivenUpTo(k)'
  BY <1>1, <1>3, <1>4, <1>6 DEF GivenInv, InStepWithOffset
<1>7. ASSUME NEW k, GivenUpTo(k), delivered' = delivered PROVE GivenUpTo(k)'
  BY <1>2, <1>7, GivenKept DEF GivenUpTo
<1>8. CASE ReadHeader
  <2>1. InStep(i)' /\ delivered' = delivered /\ offset' = OffsetOf(i + 1)
    BY <1>5, <1>8, HeaderInStep DEF GivenInv, ReadHeader, InStepWithOffset
  <2> QED
    BY <1>5, <1>7, <2>1
<1>9. CASE Seek
  <2>1. delivered' = delivered /\ ByOffset /\ next = "id" /\ FileTypes
    BY <1>9 DEF Seek, GivenInv, OffsetInv
  <2>2. PICK k \in 0 .. Len(records) : /\ i <= k /\ InStep(k)' /\ offset' = OffsetOf(k + 1)
                                       /\ \A p \in todo : offset' <= p
    BY <1>5, <1>9, SeekInStep DEF GivenInv
  <2>3. \A l \in i + 1 .. k : ~Wants(l)
    BY <1>5, <2>1, <2>2, SeekPassesNothing
  <2>4. GivenUpTo(k)
    BY <1>5, <2>1, <2>2, <2>3, GivenSame
  <2> QED
    BY <1>7, <2>1, <2>2, <2>4
<1>10. CASE SkipRecord \/ ReadRecord
  <2>1. i + 1 \in 0 .. Len(records) /\ InStep(i + 1)' /\ offset' = OffsetOf(i + 1 + 1)
    BY <1>5, <1>10, PassInStep DEF GivenInv
  <2>2. delivered' = First(Wanted, Cardinality(Upto(Chosen, i + 1)))
    BY <1>5, <1>10, PassDelivers
  <2>3. GivenUpTo(i + 1)'
    BY <1>2, <2>2, GivenKept
  <2> QED
    BY <2>1, <2>3
<1>11. CASE EndOfData \/ EndOfFilter \/ Fail \/ UNCHANGED vars
  <2>1. UNCHANGED <<cache, parsing, offset, delivered>> /\ UNCHANGED data
    BY <1>2, <1>11 DEF EndOfData, EndOfFilter, Fail, vars, state, file
  <2>2. InStep(i)' /\ offset' = OffsetOf(i + 1)
    BY <1>5, <2>1, SameFile DEF InStep, InStepWithOffset, parsing, data
  <2> QED
    BY <1>5, <1>7, <2>1, <2>2
<1> QED
  BY <1>8, <1>9, <1>10, <1>11 DEF Next, Returned

-----------------------------------------------------------------------------
\* Where the reader believes that no more data is left, everything was given.
EndIsComplete == next = "id" /\ NoMoreData => delivered = Wanted

LEMMA EndComplete == ASSUME GivenInv, RecordsHaveSize PROVE EndIsComplete
<1> SUFFICES ASSUME next = "id", NoMoreData PROVE delivered = Wanted
  BY DEF EndIsComplete
<1>1. FileTypes /\ Len(records) \in Nat
  BY WantedValues DEF GivenInv, OffsetInv
<1>2. PICK i \in 0 .. Len(records) : InStepWithOffset(i) /\ GivenUpTo(i)
  BY DEF GivenInv
<1>3. i = Len(records)
  BY <1>1, <1>2, NoMoreRecords DEF InStepWithOffset
<1>4. \A j \in i + 1 .. Len(records) : ~Wants(j)
  BY <1>1, <1>3
<1> QED
  BY <1>1, <1>2, <1>4, GivenAll

\* GetArray throws only behind the last record.
LEMMA FailComplete == ASSUME GivenInv, Fail PROVE delivered = Wanted
<1>1. FileTypes /\ FullBlocks /\ Len(records) \in Nat
  BY WantedValues DEF GivenInv, OffsetInv
<1>2. PICK i \in 0 .. Len(records) : InStepWithOffset(i) /\ GivenUpTo(i)
  BY DEF GivenInv
<1>3. i = Len(records)
  BY <1>1, <1>2, RecordComplete DEF Fail, InStepWithOffset
<1>4. \A j \in i + 1 .. Len(records) : ~Wants(j)
  BY <1>1, <1>3
<1> QED
  BY <1>1, <1>2, <1>4, GivenAll

\* Every step of the reader is a step of the flat reader or none.
LEMMA FlatStep ==
  ASSUME GivenInv, EndIsComplete, [Next]_vars, EndIsComplete'
  PROVE  [Flat!Next]_Flat!vars
<1>1. UNCHANGED file
  BY DEF Next, EndOfData, EndOfFilter, ReadHeader, Seek, SkipRecord, ReadRecord, Fail, Returned, vars
<1>2. Wanted' = Wanted
  BY <1>1, WantedKept
<1>3. ASSUME UNCHANGED <<delivered, reading>> PROVE [Flat!Next]_Flat!vars
  BY <1>2, <1>3 DEF Flat!vars
<1>4. CASE EndOfData \/ EndOfFilter \/ Fail
  <2>1. reading /\ reading' = FALSE /\ delivered' = delivered
    BY <1>4 DEF EndOfData, EndOfFilter, Fail
  <2>2. delivered = Wanted
    BY <1>4, FilterComplete, FailComplete DEF EndOfData, EndIsComplete
  <2>3. Flat!Return
    BY <1>2, <2>1, <2>2 DEF Flat!Return
  <2> QED
    BY <2>3 DEF Flat!Next
<1>5. CASE ReadRecord
  <2>1. /\ reading /\ next' = "id"
        /\ reading' = (SignalData => cache'.data_count < DataSize)
    BY <1>5 DEF ReadRecord, ReadData
  <2>2. /\ Len(delivered) < Len(Wanted)
        /\ delivered' = Append(delivered, Wanted[Len(delivered) + 1])
    BY <1>5, PassDelivers DEF GivenInv
  <2>3. (~reading') = FALSE \/ (~reading') = (delivered' = Wanted)
    <3>1. CASE SignalData => cache'.data_count < DataSize
      <4>1. reading' = TRUE
        BY <2>1, <3>1, Zenon
      <4> QED
        BY <4>1
    <3>2. CASE ~(SignalData => cache'.data_count < DataSize)
      <4>1. reading' = FALSE
        BY <2>1, <3>2, Zenon
      <4>2. DataSize' = DataSize /\ blocks' = blocks
        BY <1>1, SameFile DEF file, data
      <4>3. cache'.data_count \in Nat /\ DataSize \in Nat
        <5>1. OffsetInv /\ blocks \in Seq(Blocks)
          BY DEF GivenInv, OffsetInv, FileTypes
        <5>2. PICK i \in 0 .. Len(records) : InStepWithOffset(i)
          BY <5>1 DEF OffsetInv
        <5>3. Located(cache)'
          BY <1>5, <5>1, <5>2, PassInStep DEF InStep
        <5>4. Located(cache')
          BY <1>1, <5>3, SameFile DEF file
        <5> QED
          BY <5>1, <5>4, PlaceType, EndsValues
      <4>4. NoMoreData'
        BY <3>2, <4>2, <4>3 DEF NoMoreData
      <4>5. delivered' = Wanted
        BY <1>2, <2>1, <4>4 DEF EndIsComplete
      <4> QED
        BY <4>1, <4>5
    <3> QED
      BY <3>1, <3>2
  <2>4. Flat!Deliver
    BY <1>2, <2>1, <2>2, <2>3 DEF Flat!Deliver
  <2> QED
    BY <2>4 DEF Flat!Next
<1>6. CASE ReadHeader \/ Seek \/ SkipRecord
  BY <1>3, <1>6 DEF ReadHeader, Seek, SkipRecord
<1>7. CASE UNCHANGED vars
  BY <1>3, <1>7 DEF vars, state
<1> QED
  BY <1>4, <1>5, <1>6, <1>7 DEF Next, Returned

\* ReadVlsdData gives the callback exactly the data at the offsets of the filter,
\* or all data of the channel without a filter, with their offsets and bytes and in
\* the order of the file, and does not return before it has given them all.  This
\* holds for every file without empty blocks whose records have bytes, any other
\* channel groups in between, any cut into blocks and any choice of offsets; the
\* data is not behind an HL block, of which ReadVlsdData reads nothing.  Only that
\* it returns is a premise.
THEOREM VlsdFlatImplemented ==
  ASSUME ~EmptyBlocks, BytesInRecords, "HL" \notin Links
  PROVE  Spec /\ <>~reading => ImplementsFlat
<1>1. Init => GivenInv
  BY GivenInvInit
<1>2. GivenInv /\ [Next]_vars => GivenInv'
  BY GivenInvNext
<1>3. GivenInv => EndIsComplete
  BY EndComplete, RecordsSized DEF GivenInv, OffsetInv, FileTypes
<1>4. GivenInv /\ EndIsComplete /\ [Next]_vars /\ EndIsComplete' => [Flat!Next]_Flat!vars
  BY FlatStep
<1>5. Init => Flat!Init
  <2> SUFFICES ASSUME Init PROVE Flat!Init
    OBVIOUS
  <2>1. link \in {"CG", "SD", "DZ", "DL"}
    BY LinksAssumption DEF Init
  <2>2. reading = TRUE
    BY <2>1 DEF Init, Readable
  <2> QED
    BY <2>2 DEF Init, Flat!Init
<1> QED
  BY <1>1, <1>2, <1>3, <1>4, <1>5, PTL DEF Spec, ImplementsFlat, Flat!Spec
=============================================================================

---------------------------- MODULE MessageProofs ----------------------------
(***************************************************************************)
(* Theorems about the observers that put a record and its VLSD record      *)
(* together, for files of any length, any other groups in between, any     *)
(* order of the two records and any sequence of ranges.                    *)
(***************************************************************************)
EXTENDS MessageReader, ReaderProofs

-----------------------------------------------------------------------------
(* Records in pairs *)

LEMMA BoundedRecords ==
  ASSUME FileInit
  PROVE  Len(records) <= MaxRecords
<1>1. PICK m \in 0 .. MaxRecords : records \in [1 .. m -> Records]
  BY DEF FileInit, BoundedSeq, SeqOf
<1> QED
  BY <1>1

\* One of the two groups is never ahead by more than a record.
LEMMA Balanced ==
  ASSUME FileTypes, OneToOne, NEW i \in 0 .. Len(records)
  PROVE  /\ Count(MainGroup, i) <= Count(VlsdGroup, i) + 1
         /\ Count(VlsdGroup, i) <= Count(MainGroup, i) + 1
<1> DEFINE main(k) == Count(MainGroup, k)
           vlsd(k) == Count(VlsdGroup, k)
           T == {k \in 0 .. Len(records) : main(k) <= vlsd(k) + 1 /\ vlsd(k) <= main(k) + 1}
<1>1. layout \in Layouts /\ records \in Seq(Records) /\ Len(records) \in Nat
  BY DEF FileTypes
<1>2. /\ \A k \in 0 .. Len(records) : main(k) \in Nat /\ vlsd(k) \in Nat
      /\ main(0) = 0 /\ vlsd(0) = 0
  BY <1>1, CountValues
<1>3. \A k \in 0 .. Len(records) : (main(k) + vlsd(k)) % 2 = 0 => main(k) = vlsd(k)
  BY DEF OneToOne
<1>4. ASSUME NEW k \in 0 .. Len(records) - 1
      PROVE  \/ main(k + 1) = main(k) + 1 /\ vlsd(k + 1) = vlsd(k)
             \/ main(k + 1) = main(k) /\ vlsd(k + 1) = vlsd(k) + 1
             \/ main(k + 1) = main(k) /\ vlsd(k + 1) = vlsd(k)
  <2>1. main(k + 1) = main(k) + (IF records[k + 1].group = MainGroup THEN 1 ELSE 0)
    BY <1>1, CountValues
  <2>2. vlsd(k + 1) = vlsd(k) + (IF records[k + 1].group = VlsdGroup THEN 1 ELSE 0)
    BY <1>1, CountValues
  <2>3. main(k) \in Nat /\ vlsd(k) \in Nat
    BY <1>1, <1>2
  <2> HIDE DEF main, vlsd
  <2> QED
    BY <2>1, <2>2, <2>3, GroupAssumption
<1> HIDE DEF main, vlsd
<1>5. 0 \in T
  BY <1>1, <1>2
<1>6. ASSUME NEW k \in 0 .. Len(records), k # Len(records), k \in T PROVE k + 1 \in T
  <2>1. k \in 0 .. Len(records) - 1 /\ k + 1 \in 0 .. Len(records)
    BY <1>1, <1>6
  <2>2. /\ main(k) \in Nat /\ vlsd(k) \in Nat /\ main(k + 1) \in Nat /\ vlsd(k + 1) \in Nat
        /\ (main(k + 1) + vlsd(k + 1)) % 2 = 0 => main(k + 1) = vlsd(k + 1)
        /\ main(k) <= vlsd(k) + 1 /\ vlsd(k) <= main(k) + 1
    BY <1>2, <1>3, <1>6, <2>1
  <2>3. main(k + 1) # vlsd(k + 1) + 2
    <3> SUFFICES ASSUME main(k + 1) = vlsd(k + 1) + 2 PROVE FALSE
      OBVIOUS
    <3>1. main(k + 1) + vlsd(k + 1) = 2 * (vlsd(k + 1) + 1)
      BY <2>2
    <3> QED
      BY <2>2, <3>1
  <2>4. vlsd(k + 1) # main(k + 1) + 2
    <3> SUFFICES ASSUME vlsd(k + 1) = main(k + 1) + 2 PROVE FALSE
      OBVIOUS
    <3>1. main(k + 1) + vlsd(k + 1) = 2 * (main(k + 1) + 1)
      BY <2>2
    <3> QED
      BY <2>2, <3>1
  <2>5. main(k + 1) <= vlsd(k + 1) + 1 /\ vlsd(k + 1) <= main(k + 1) + 1
    <3>1. PICK a, b, c, d : a = main(k) /\ b = vlsd(k) /\ c = main(k + 1) /\ d = vlsd(k + 1)
      OBVIOUS
    <3>2. (c = a + 1 /\ d = b) \/ (c = a /\ d = b + 1) \/ (c = a /\ d = b)
      BY <1>4, <2>1, <3>1
    <3>3. /\ a \in Nat /\ b \in Nat /\ a <= b + 1 /\ b <= a + 1
          /\ c # d + 2 /\ d # c + 2
      BY <2>2, <2>3, <2>4, <3>1
    <3> QED
      BY <3>1, <3>2, <3>3, SMTT(30)
  <2> QED
    BY <2>1, <2>5
<1> HIDE DEF T
<1>7. 0 .. Len(records) \subseteq T
  BY <1>1, <1>5, <1>6, SetInduction
<1>8. i \in T
  BY <1>7
<1> QED
  BY <1>8 DEF T, main, vlsd

\* A record is found by its group and its number.
LEMMA NthIs ==
  ASSUME FileTypes, NEW j \in 1 .. Len(records)
  PROVE  Nth(records[j].group, Count(records[j].group, j - 1)) = j
<1>1. layout \in Layouts /\ records \in Seq(Records) /\ DOMAIN records = 1 .. Len(records)
      /\ Len(records) \in Nat
  BY DEF FileTypes
<1>2. PICK g, n : g = records[j].group /\ n = Count(g, j - 1)
  OBVIOUS
<1>3. ASSUME NEW k \in 1 .. Len(records), records[k].group = g
      PROVE  Cardinality(Before(k)) = Count(g, k - 1)
  BY <1>3 DEF Before, Count
<1>4. ASSUME NEW a \in 1 .. Len(records), NEW b \in 1 .. Len(records), a < b,
             records[a].group = g
      PROVE  Count(g, a - 1) # Count(g, b - 1)
  <2>1. PICK l \in 0 .. Len(records) - 1 : l = a - 1 /\ l + 1 = a
    BY <1>1
  <2>2. a \in 0 .. Len(records) /\ b - 1 \in 0 .. Len(records) /\ a <= b - 1
        /\ l \in 0 .. Len(records)
    BY <1>1, <1>4, <2>1
  <2>3. Count(g, a) = Count(g, l) + 1
    BY <1>1, <1>4, <2>1, CountValues
  <2>4. Count(g, a) <= Count(g, b - 1)
    BY <1>1, <2>2, CountMonotone
  <2>5. Count(g, a) \in Nat /\ Count(g, l) \in Nat /\ Count(g, b - 1) \in Nat
    BY <1>1, <2>2, CountValues
  <2> QED
    BY <2>1, <2>3, <2>4, <2>5
<1>5. ASSUME NEW k \in DOMAIN records, records[k].group = g, Cardinality(Before(k)) = n
      PROVE  k = j
  <2>1. k \in 1 .. Len(records) /\ Count(g, k - 1) = Count(g, j - 1)
    BY <1>1, <1>2, <1>3, <1>5
  <2>2. ~(k < j) /\ ~(j < k)
    BY <1>2, <1>4, <1>5, <2>1
  <2> QED
    BY <1>1, <2>1, <2>2
<1>6. j \in DOMAIN records /\ records[j].group = g /\ Cardinality(Before(j)) = n
  BY <1>1, <1>2, <1>3
<1>7. Nth(g, n) = j
  BY <1>5, <1>6 DEF Nth
<1> QED
  BY <1>2, <1>7

-----------------------------------------------------------------------------
(* The invariant *)

\* Sample n of group g was read in this range.
Seen(g, n) == n < sample[g] /\ (partial => InRange(n))
AllSeen(n) == \A g \in observed : Seen(g, n)

\* A message was made of sample n.
Done(n) == \E m \in Given : m.sample = n

\* What the observer has of sample n
Part(g, n) == IF g \in observed /\ Seen(g, n) THEN {Payload(Nth(g, n))} ELSE {}

SettingsInv ==
  /\ mode \in Modes
  /\ storage \in Storages
  /\ observed = RecordIds
  /\ storage = "VlsdStorage" => OneToOne
  /\ mode = "copy" => ~partial
  /\ Len(records) <= MaxRecords
  /\ Asked \subseteq asked
  /\ \A n \in asked : n \in Nat /\ (partial => n + 1 <= range.max)

\* What was handed on is right and not ahead of the current sample.
HandedInv ==
  /\ current_sample_index \in Nat \cup {-1}
  /\ partial => current_sample_index + 1 <= range.max
  /\ \E S : messages \in Seq(S)
  /\ \E S : delivered \in Seq(S)
  /\ sample_buffer = <<>> \/ DOMAIN sample_buffer = 1 .. nof[MainGroup]
  /\ \A m \in Given : m.sample <= current_sample_index
  /\ MessagesPaired

(***************************************************************************)
(* Of the samples of this range those have a message that were read of     *)
(* every observed group.  Until the observer stops the read, no later      *)
(* sample than the current one was read; if that is one of this range, it  *)
(* was read of some group, and while it waits for the other its parts are  *)
(* in last_sample_.                                                        *)
(***************************************************************************)
CurrentInv ==
  /\ \A g \in observed : \A n \in Nat : Seen(g, n) => n <= current_sample_index
  /\ \A c \in Nat : c = current_sample_index /\ (partial => InRange(c)) =>
       /\ \E g \in observed : Seen(g, c)
       /\ ~AllSeen(c) =>
            last_sample = [sample    |-> c,
                           record    |-> Part(MainGroup, c),
                           vlsd_data |-> Part(VlsdGroup, c)]

WaitingInv ==
  Interested =>
    /\ \A n \in Nat : (partial => InRange(n)) => (Done(n) <=> AllSeen(n))
    /\ ~stopped => CurrentInv

MInv ==
  /\ SyncInv
  /\ RangeInv
  /\ LeftInv
  /\ reading => ~stopped
  /\ SettingsInv
  /\ HandedInv
  /\ WaitingInv

\* The same file, observed in the same way
LEMMA SameMessages ==
  ASSUME UNCHANGED <<data, observed, nof, partial, mode, storage>>
  PROVE  /\ \A g, n : Nth(g, n)' = Nth(g, n)
         /\ \A i : Payload(i)' = Payload(i)
         /\ \A n : Message(n)' = Message(n)
         /\ OneToOne' <=> OneToOne
         /\ RecordIds' = RecordIds
         /\ Interested' <=> Interested
<1>1. records' = records
  BY DEF data
<1>2. Starts' = Starts /\ (\A g : HeaderSize(g)' = HeaderSize(g)) /\ \A g, i : Count(g, i)' = Count(g, i)
  BY SameFile
<1>3. \A i : Payload(i)' = Payload(i)
  BY <1>1, <1>2 DEF Payload, Field
<1>4. \A g, n : Nth(g, n)' = Nth(g, n)
  BY <1>1 DEF Nth, Before
<1>5. \A n : Message(n)' = Message(n)
  BY <1>3, <1>4 DEF Message
<1>6. OneToOne' <=> OneToOne
  BY <1>1, <1>2 DEF OneToOne
<1>7. RecordIds' = RecordIds /\ (Interested' <=> Interested)
  BY DEF RecordIds, Interested
<1> QED
  BY <1>3, <1>4, <1>5, <1>6, <1>7

-----------------------------------------------------------------------------
(* A record that is observed *)

LEMMA Observed ==
  ASSUME SettingsInv, RangeInv
  PROVE  /\ MainGroup \in observed /\ observed \subseteq Groups
         /\ \A g \in observed : g # MainGroup => g = VlsdGroup
         /\ VlsdGroup \in observed <=> storage = "VlsdStorage"
BY GroupAssumption DEF SettingsInv, RangeInv, RecordIds

LEMMA Counters ==
  ASSUME SyncInv, NEW g \in Groups
  PROVE  sample[g] \in Nat /\ nof[g] \in Nat /\ sample[g] <= nof[g]
<1>1. PICK i \in 0 .. Len(records) : sample = CountsOf(i)
  <2>1. CASE BehindRecords
    <3>1. Len(records) \in Nat
      BY DEF SyncInv, FileTypes
    <3>2. Len(records) \in 0 .. Len(records)
      BY <3>1
    <3> QED
      BY <2>1, <3>2 DEF BehindRecords
  <2>2. CASE \E i \in 0 .. Len(records) : InStepWithCounts(i)
    BY <2>2 DEF InStepWithCounts
  <2> QED
    BY <2>1, <2>2 DEF SyncInv
<1>2. Count(g, i) \in Nat /\ nof[g] \in Nat
  BY <1>1, CountValues DEF SyncInv, FileTypes, SamplesCounted
<1>3. sample[g] = IF Count(g, i) < nof[g] THEN Count(g, i) ELSE nof[g]
  BY <1>1 DEF CountsOf
<1> QED
  BY <1>2, <1>3

\* Record i + 1 is read, and its group has sample s for it.
ReadsSample(i, s) ==
  /\ i \in 0 .. Len(records) - 1
  /\ group = records[i + 1].group
  /\ sample = CountsOf(i)
  /\ s = sample[group]
  /\ s < nof[group]
  /\ sample' = [sample EXCEPT ![group] = s + 1]
  /\ Reads(group)
  /\ UNCHANGED <<file, settings>>

LEMMA ObserveCases ==
  ASSUME MInv, Observe
  PROVE  \/ UNCHANGED <<observer, sample, stopped, delivered>>
         \/ \E i, s : ReadsSample(i, s) /\ OnSample(s, group, Payload(i + 1))
<1>1. ReadRecord /\ SyncInv /\ UNCHANGED settings /\ UNCHANGED file
  BY DEF Observe, ReadRecord, MInv
<1>2. CASE ~(sample[group] < nof[group])
  <2>1. UNCHANGED observer
    BY <1>2 DEF Observe
  <2>2. UNCHANGED <<sample, stopped, delivered>>
    BY <1>1, <1>2 DEF ReadRecord, IncrementSample
  <2> QED
    BY <2>1, <2>2
<1>3. CASE sample[group] < nof[group]
  <2>1. ~BehindRecords
    BY <1>1, <1>3, PassBehind
  <2>2. PICK i \in 0 .. Len(records) : InStepWithCounts(i)
    BY <1>1, <2>1 DEF SyncInv
  <2>3. /\ i \in 0 .. Len(records) - 1 /\ group = records[i + 1].group
        /\ GetArray(cache, length).bytes = Payload(i + 1)
    BY <1>1, <2>2, PassInStep
  <2>4. /\ delivered' = Append(delivered,
                [group |-> group, sample |-> sample[group], bytes |-> Payload(i + 1)])
        /\ sample' = [sample EXCEPT ![group] = sample[group] + 1]
        /\ Reads(group)
    BY <1>1, <1>3, <2>3 DEF ReadRecord, IncrementSample
  <2>5. delivered'[Len(delivered')].bytes = Payload(i + 1)
    <3>1. PICK S : delivered \in Seq(S)
      BY DEF MInv, HandedInv
    <3>2. PICK d : d = [group |-> group, sample |-> sample[group], bytes |-> Payload(i + 1)]
      OBVIOUS
    <3>3. delivered \in Seq(S \cup {d}) /\ delivered' = Append(delivered, d)
      BY <2>4, <3>1, <3>2
    <3>4. delivered'[Len(delivered')] = d
      BY <3>3
    <3> QED
      BY <3>2, <3>4
  <2>6. OnSample(sample[group], group, Payload(i + 1))
    BY <1>3, <2>5 DEF Observe
  <2>7. ReadsSample(i, sample[group])
    BY <1>1, <1>3, <2>2, <2>3, <2>4 DEF ReadsSample, InStepWithCounts
  <2> QED
    BY <2>6, <2>7
<1> QED
  BY <1>2, <1>3

\* What is read besides is that sample.
LEMMA SampleIsNew ==
  ASSUME MInv, NEW i, NEW s, ReadsSample(i, s)
  PROVE  /\ group \in observed /\ s \in Nat /\ (partial => InRange(s))
         /\ ~Seen(group, s)
         /\ \A g \in observed, n \in Nat : Seen(g, n)' <=> Seen(g, n) \/ (g = group /\ n = s)
         /\ s = Count(group, i) /\ Nth(group, s) = i + 1
         /\ s \in asked
<1>1. /\ SyncInv /\ FileTypes /\ SamplesCounted /\ SettingsInv /\ RangeInv
      /\ records \in Seq(Records) /\ layout \in Layouts /\ Len(records) \in Nat
  BY DEF MInv, SyncInv, FileTypes
<1>2. /\ i \in 0 .. Len(records) - 1 /\ i \in 0 .. Len(records) /\ i + 1 \in 1 .. Len(records)
      /\ i + 1 - 1 = i
      /\ group = records[i + 1].group /\ sample = CountsOf(i) /\ s = sample[group]
      /\ s < nof[group] /\ Reads(group)
      /\ sample' = [sample EXCEPT ![group] = s + 1] /\ UNCHANGED file
  BY <1>1 DEF ReadsSample
<1>3. group \in observed /\ group \in Groups /\ observed \subseteq Groups
      /\ (partial => InRange(s))
  BY <1>1, <1>2 DEF Reads, RangeInv
<1>4. s \in Nat /\ nof[group] \in Nat
  BY <1>1, <1>2, <1>3, Counters
<1>5. ~Seen(group, s)
  BY <1>2, <1>4 DEF Seen
<1>6. ASSUME NEW g \in observed, NEW n \in Nat
      PROVE  Seen(g, n)' <=> Seen(g, n) \/ (g = group /\ n = s)
  <2>1. InRange(n)' <=> InRange(n)
    BY <1>2, FileKept
  <2>2. partial' = partial
    BY <1>2 DEF file
  <2>3. sample'[g] = IF g = group THEN s + 1 ELSE sample[g]
    BY <1>2, <1>3, <1>1 DEF RangeInv, CountersTyped
  <2>4. CASE g = group
    <3>1. n < s + 1 <=> n < s \/ n = s
      BY <1>4
    <3> QED
      BY <1>2, <1>3, <2>1, <2>2, <2>3, <2>4, <3>1 DEF Seen
  <2>5. CASE g # group
    BY <2>1, <2>2, <2>3, <2>5 DEF Seen
  <2> QED
    BY <2>4, <2>5
<1>7. s = Count(group, i)
  <2>1. s = IF Count(group, i) < nof[group] THEN Count(group, i) ELSE nof[group]
    BY <1>2, <1>3 DEF CountsOf
  <2> QED
    BY <1>2, <1>4, <2>1
<1>8. Nth(group, s) = i + 1
  <2>1. Nth(records[i + 1].group, Count(records[i + 1].group, i + 1 - 1)) = i + 1
    BY <1>1, <1>2, NthIs
  <2> QED
    BY <1>2, <1>7, <2>1
<1>9. s \in asked
  <2>1. nof[group] <= Count(group, Len(records)) /\ Count(group, Len(records)) <= Len(records)
    <3>1. Count(group, Len(records)) <= Len(records)
      <4>1. IsFiniteSet(1 .. Len(records)) /\ Cardinality(1 .. Len(records)) = Len(records)
        BY <1>1, FS_Interval
      <4>2. {j \in 1 .. Len(records) : records[j].group = group} \subseteq 1 .. Len(records)
        OBVIOUS
      <4> QED
        BY <4>1, <4>2, FS_Subset DEF Count
    <3> QED
      BY <1>1, <1>3, <3>1 DEF SamplesCounted
  <2>2. Len(records) \in 0 .. Len(records)
    BY <1>1
  <2>3. Count(group, Len(records)) \in Nat
    BY <1>1, <2>2, CountValues
  <2>4. s \in 0 .. MaxRecords
    <3>1. Len(records) <= MaxRecords
      BY <1>1 DEF SettingsInv
    <3> QED
      BY <1>1, <1>2, <1>4, <2>1, <2>3, <3>1, RecordsAssumption
  <2> QED
    BY <1>1, <1>3, <2>4 DEF SettingsInv, Asked
<1> QED
  BY <1>3, <1>4, <1>5, <1>6, <1>7, <1>8, <1>9

\* It is not of an earlier sample than the current one.
LEMMA NotBehind ==
  ASSUME MInv, CurrentInv, NEW i, NEW s, ReadsSample(i, s)
  PROVE  current_sample_index <= s
<1>1. /\ SyncInv /\ FileTypes /\ SettingsInv /\ RangeInv /\ HandedInv
      /\ records \in Seq(Records) /\ layout \in Layouts /\ Len(records) \in Nat
  BY DEF MInv, SyncInv, FileTypes
<1>2. /\ group \in observed /\ s \in Nat /\ (partial => InRange(s))
      /\ s = Count(group, i)
  BY SampleIsNew
<1>3. i \in 0 .. Len(records) /\ sample = CountsOf(i) /\ s = sample[group]
  BY <1>1 DEF ReadsSample
<1>4. PICK c \in Nat \cup {-1} : c = current_sample_index
  BY <1>1 DEF HandedInv
<1>5. CASE c = -1
  BY <1>2, <1>4, <1>5
<1>6. CASE c \in Nat /\ ~(partial => InRange(c))
  <2>1. c + 1 <= range.max /\ range.min \in Nat /\ range.max \in Nat
    BY <1>1, <1>4, <1>6 DEF HandedInv, RangeInv, CountersTyped
  <2>2. ~(range.min <= c + 1) /\ range.min <= s + 1
    BY <1>2, <1>6, <2>1 DEF InRange
  <2> QED
    BY <1>2, <1>4, <1>6, <2>1, <2>2
<1>7. CASE c \in Nat /\ (partial => InRange(c))
  <2>1. PICK h \in observed : Seen(h, c)
    BY <1>4, <1>7 DEF CurrentInv
  <2>2. h \in Groups /\ c < sample[h]
    BY <1>1, <2>1 DEF Seen, RangeInv
  <2>3. CASE h = group
    BY <1>2, <1>3, <1>4, <1>7, <2>2, <2>3
  <2>4. CASE h # group
    <3>1. OneToOne /\ ((h = MainGroup /\ group = VlsdGroup) \/ (h = VlsdGroup /\ group = MainGroup))
      BY <1>1, <1>2, <2>4, Observed DEF SettingsInv
    <3>2. Count(h, i) <= Count(group, i) + 1
      BY <1>1, <1>3, <3>1, Balanced
    <3>3. Count(h, i) \in Nat /\ nof[h] \in Nat
      BY <1>1, <1>3, <2>2, CountValues DEF SyncInv, SamplesCounted
    <3>4. sample[h] = IF Count(h, i) < nof[h] THEN Count(h, i) ELSE nof[h]
      BY <1>3, <2>2 DEF CountsOf
    <3>5. c < s + 1
      BY <1>2, <1>7, <2>2, <3>2, <3>3, <3>4
    <3> QED
      BY <1>2, <1>4, <1>7, <3>5
  <2> QED
    BY <2>3, <2>4
<1> QED
  BY <1>4, <1>5, <1>6, <1>7

\* If there are more VLSD records than the group has samples, then the samples of
\* the group were all read.
LEMMA OverrunIsLate ==
  ASSUME MInv, NEW i, NEW s, ReadsSample(i, s), Overrun(s)
  PROVE  /\ group = VlsdGroup
         /\ \A n \in Nat : n < nof[MainGroup] => \A g \in observed : n < sample[g]
<1>1. /\ SyncInv /\ FileTypes /\ SettingsInv /\ RangeInv
      /\ records \in Seq(Records) /\ layout \in Layouts /\ Len(records) \in Nat
  BY DEF MInv, SyncInv, FileTypes
<1>2. group \in observed /\ s \in Nat /\ s = Count(group, i)
  BY SampleIsNew
<1>3. /\ i \in 0 .. Len(records) - 1 /\ i \in 0 .. Len(records) /\ i + 1 \in 0 .. Len(records)
      /\ sample = CountsOf(i) /\ s = sample[group]
      /\ s < nof[group] /\ group = records[i + 1].group
  BY <1>1 DEF ReadsSample
<1>4. MainGroup \in observed /\ MainGroup \in Groups /\ group \in Groups
  BY <1>1, <1>2, Observed
<1>5. nof[MainGroup] \in Nat /\ nof[group] \in Nat /\ nof[MainGroup] <= s
  BY <1>1, <1>4, Counters DEF Overrun
<1>6. group # MainGroup
  BY <1>2, <1>3, <1>5
<1>7. group = VlsdGroup /\ OneToOne
  BY <1>1, <1>2, <1>6, Observed DEF SettingsInv
<1>8. Count(VlsdGroup, i + 1) <= Count(MainGroup, i + 1) + 1
  BY <1>1, <1>3, <1>7, Balanced
<1>9. Count(MainGroup, i + 1) = Count(MainGroup, i) /\ Count(MainGroup, i) \in Nat
  <2>1. Count(MainGroup, i + 1)
          = Count(MainGroup, i) + (IF records[i + 1].group = MainGroup THEN 1 ELSE 0)
    BY <1>1, <1>3, CountValues
  <2>2. Count(MainGroup, i) \in Nat
    BY <1>1, <1>3, CountValues
  <2> QED
    BY <1>3, <1>6, <2>1, <2>2
<1>10. Count(VlsdGroup, i + 1) = s + 1
  <2>1. Count(VlsdGroup, i + 1)
          = Count(VlsdGroup, i) + (IF records[i + 1].group = VlsdGroup THEN 1 ELSE 0)
    BY <1>1, <1>3, CountValues
  <2> QED
    BY <1>2, <1>3, <1>7, <2>1
<1>11. sample[MainGroup] = nof[MainGroup]
  <2>1. sample[MainGroup] = IF Count(MainGroup, i) < nof[MainGroup]
                            THEN Count(MainGroup, i) ELSE nof[MainGroup]
    BY <1>3, <1>4 DEF CountsOf
  <2>2. nof[MainGroup] <= Count(MainGroup, i)
    BY <1>2, <1>5, <1>8, <1>9, <1>10
  <2> QED
    BY <1>5, <1>9, <2>1, <2>2
<1>12. ASSUME NEW n \in Nat, n < nof[MainGroup], NEW g \in observed PROVE n < sample[g]
  <2>1. CASE g = MainGroup
    BY <1>11, <1>12, <2>1
  <2>2. CASE g # MainGroup
    <3>1. g = group
      BY <1>1, <1>7, <2>2, Observed
    <3> QED
      BY <1>2, <1>3, <1>5, <1>12, <3>1
  <2> QED
    BY <2>1, <2>2
<1> QED
  BY <1>7, <1>12

-----------------------------------------------------------------------------
(* A message that is handed on *)

LEMMA GivenIs ==
  /\ \A m : m \in Given <=> \/ \E k \in DOMAIN messages : m = messages[k]
                            \/ \E k \in DOMAIN sample_buffer : m \in sample_buffer[k]
  /\ \A m : m \in Given' <=> \/ \E k \in DOMAIN messages' : m = messages'[k]
                             \/ \E k \in DOMAIN sample_buffer' : m \in sample_buffer'[k]
BY DEF Given

LEMMA BufferIs ==
  ASSUME sample_buffer = <<>> \/ DOMAIN sample_buffer = 1 .. nof[MainGroup]
  PROVE  /\ DOMAIN Buffer = 1 .. nof[MainGroup]
         /\ \A k \in DOMAIN Buffer : \A m : m \in Buffer[k] <=>
              k \in DOMAIN sample_buffer /\ m \in sample_buffer[k]
         /\ \A k \in DOMAIN sample_buffer : k \in DOMAIN Buffer
<1>1. CASE sample_buffer = <<>>
  <2>1. DOMAIN sample_buffer = {}
    BY <1>1
  <2>2. Buffer = [k \in 1 .. nof[MainGroup] |-> {}]
    BY <1>1 DEF Buffer
  <2> QED
    BY <2>1, <2>2
<1>2. CASE sample_buffer # <<>>
  BY <1>2 DEF Buffer
<1> QED
  BY <1>1, <1>2

\* With the new record either all records of its sample were read, and its message
\* is complete and right, or it is the first one.
LEMMA UpdatedIs ==
  ASSUME MInv, CurrentInv, NEW i, NEW s, ReadsSample(i, s),
         NEW last, last = Updated(s, group, Payload(i + 1))
  PROVE  /\ last.sample = s
         /\ \/ /\ Completes(s, group, last)
               /\ \A g \in observed : g = group \/ Seen(g, s)
               /\ MessageOf(last) = Message(s)
            \/ /\ ~Completes(s, group, last)
               /\ \E g \in observed : g # group /\ ~Seen(g, s)
               /\ current_sample_index < s
               /\ last = [sample    |-> s,
                          record    |-> IF group = MainGroup THEN {Payload(i + 1)} ELSE {},
                          vlsd_data |-> IF group = MainGroup THEN {} ELSE {Payload(i + 1)}]
<1>1. PICK p : p = Payload(i + 1) /\ last = Updated(s, group, p)
  OBVIOUS
<1>2. /\ group \in observed /\ s \in Nat /\ (partial => InRange(s)) /\ ~Seen(group, s)
      /\ Payload(Nth(group, s)) = p
  BY <1>1, SampleIsNew
<1>3. SettingsInv /\ RangeInv
  BY DEF MInv
<1>4. /\ MainGroup \in observed /\ \A g \in observed : g # MainGroup => g = VlsdGroup
      /\ VlsdGroup \in observed <=> storage = "VlsdStorage"
  BY <1>3, Observed
<1>5. PICK c \in Nat \cup {-1} : c = current_sample_index
  BY DEF MInv, HandedInv
<1>6. c <= s
  BY <1>5, NotBehind
<1>7. CASE c < s
  <2>1. IsNew(s)
    BY <1>2, <1>5, <1>7 DEF IsNew
  <2>2. last = [sample    |-> s,
                record    |-> IF group = MainGroup THEN {p} ELSE {},
                vlsd_data |-> IF group = MainGroup THEN {} ELSE {p}]
    BY <1>1, <2>1 DEF Updated, NoSample
  <2>3. CASE storage = "VlsdStorage"
    <3>1. PICK g \in observed : g # group
      BY <1>4, <2>3, GroupAssumption
    <3>2. ~Seen(g, s)
      BY <1>2, <1>5, <1>7 DEF CurrentInv
    <3>3. ~Completes(s, group, last)
      BY <2>1, <2>2, <2>3 DEF Completes
    <3> QED
      BY <1>1, <1>5, <1>7, <2>2, <3>1, <3>2, <3>3
  <2>4. CASE storage # "VlsdStorage"
    <3>1. group = MainGroup /\ \A g \in observed : g = group
      BY <1>2, <1>4, <2>4
    <3>2. last = [sample |-> s, record |-> {p}, vlsd_data |-> {}]
      BY <2>2, <3>1
    <3>3. Completes(s, group, last)
      BY <2>4, <3>1, <3>2 DEF Completes
    <3>4. MessageOf(last) = Message(s)
      BY <1>2, <2>4, <3>1, <3>2 DEF MessageOf, Message
    <3> QED
      BY <3>1, <3>2, <3>3, <3>4
  <2> QED
    BY <2>3, <2>4
<1>8. CASE c = s
  <2>1. ~IsNew(s)
    BY <1>2, <1>5, <1>8 DEF IsNew
  <2>2. PICK h \in observed : Seen(h, s)
    BY <1>2, <1>5, <1>8 DEF CurrentInv
  <2>3. h # group /\ storage = "VlsdStorage"
    BY <1>2, <1>4, <2>2
  <2>4. ~AllSeen(s)
    BY <1>2 DEF AllSeen
  <2>5. last_sample = [sample |-> s, record |-> Part(MainGroup, s), vlsd_data |-> Part(VlsdGroup, s)]
    BY <1>2, <1>5, <1>8, <2>4 DEF CurrentInv
  <2>6. PICK q : q = Payload(Nth(h, s)) /\ Part(h, s) = {q} /\ Part(group, s) = {}
    BY <1>2, <2>2 DEF Part
  <2>7. last = [sample    |-> s,
                record    |-> IF group = MainGroup THEN {p} ELSE {q},
                vlsd_data |-> IF group = MainGroup THEN {q} ELSE {p}]
    <3>1. CASE group = MainGroup
      <4>1. h = VlsdGroup
        BY <1>4, <2>3, <3>1
      <4> QED
        BY <1>1, <2>1, <2>5, <2>6, <3>1, <4>1 DEF Updated
    <3>2. CASE group # MainGroup
      <4>1. h = MainGroup /\ group = VlsdGroup
        BY <1>2, <1>4, <2>3, <3>2
      <4> QED
        BY <1>1, <2>1, <2>5, <2>6, <3>2, <4>1 DEF Updated
    <3> QED
      BY <3>1, <3>2
  <2>8. Completes(s, group, last)
    BY <2>1, <2>3, <2>7 DEF Completes
  <2>9. MessageOf(last) = Message(s)
    <3>1. CASE group = MainGroup
      <4>1. h = VlsdGroup
        BY <1>4, <2>3, <3>1
      <4> QED
        BY <1>2, <2>3, <2>6, <2>7, <3>1, <4>1 DEF MessageOf, Message
    <3>2. CASE group # MainGroup
      <4>1. h = MainGroup /\ group = VlsdGroup
        BY <1>2, <1>4, <2>3, <3>2
      <4> QED
        BY <1>2, <2>3, <2>6, <2>7, <3>2, <4>1 DEF MessageOf, Message
    <3> QED
      BY <3>1, <3>2
  <2>10. \A g \in observed : g = group \/ Seen(g, s)
    BY <1>2, <1>4, <2>2, <2>3
  <2> QED
    BY <2>7, <2>8, <2>9, <2>10
<1> QED
  BY <1>2, <1>5, <1>6, <1>7, <1>8

LEMMA AvailableKept ==
  ASSUME UNCHANGED <<observed, nof, asked>>
  PROVE  Available' = Available
BY DEF Available

\* A right message of a later sample than those handed on before
LEMMA HandedOn ==
  ASSUME HandedInv, UNCHANGED <<data, observed, nof, partial, mode, storage, asked>>,
         asked \subseteq Nat, nof[MainGroup] \in Nat,
         NEW s \in Available, NEW last, last.sample = s, MessageOf(last) = Message(s),
         HandOn(last), mode = "buffer" => s < nof[MainGroup],
         \A m \in Given : m.sample < s
  PROVE  /\ MessagesPaired'
         /\ \E S : messages' \in Seq(S)
         /\ sample_buffer' = <<>> \/ DOMAIN sample_buffer' = 1 .. nof[MainGroup]
         /\ \A m \in Given' : m.sample <= s
         /\ \A n : (\E m \in Given' : m.sample = n) <=> Done(n) \/ n = s
<1>1. s \in Nat /\ \A m \in Given : m.sample \in Nat /\ m.sample \in Available /\ m = Message(m.sample)
  BY DEF HandedInv, MessagesPaired, Available
<1>2. PICK e : e = MessageOf(last) /\ e = Message(s) /\ e.sample = s
  BY DEF Message
<1>3. PICK S : messages \in Seq(S)
  BY DEF HandedInv
<1>4. sample_buffer = <<>> \/ DOMAIN sample_buffer = 1 .. nof[MainGroup]
  BY DEF HandedInv
<1>5. /\ Available' = Available /\ \A n : Message(n)' = Message(n)
  BY AvailableKept, SameMessages
<1>6. CASE mode # "buffer"
  <2>1. messages' = Append(messages, e) /\ sample_buffer' = sample_buffer
    BY <1>2, <1>6 DEF HandOn
  <2>2. /\ messages \in Seq(S \cup {e}) /\ messages' \in Seq(S \cup {e})
        /\ DOMAIN messages = 1 .. Len(messages) /\ Len(messages) \in Nat
        /\ DOMAIN messages' = 1 .. Len(messages) + 1
        /\ messages'[Len(messages) + 1] = e
        /\ \A k \in 1 .. Len(messages) : messages'[k] = messages[k]
    BY <1>3, <2>1
  <2>3. \A m : m \in Given' <=> m \in Given \/ m = e
    <3>1. \A m : (\E k \in DOMAIN messages' : m = messages'[k])
                   <=> (\E k \in DOMAIN messages : m = messages[k]) \/ m = e
      <4> SUFFICES ASSUME NEW m
                   PROVE  (\E k \in DOMAIN messages' : m = messages'[k])
                            <=> (\E k \in DOMAIN messages : m = messages[k]) \/ m = e
        OBVIOUS
      <4>1. ASSUME NEW k \in DOMAIN messages', m = messages'[k]
            PROVE  (\E l \in DOMAIN messages : m = messages[l]) \/ m = e
        <5>1. k \in 1 .. Len(messages) \/ k = Len(messages) + 1
          BY <2>2
        <5> QED
          BY <2>2, <4>1, <5>1
      <4>2. ASSUME NEW k \in DOMAIN messages, m = messages[k]
            PROVE  \E l \in DOMAIN messages' : m = messages'[l]
        <5>1. k \in DOMAIN messages' /\ messages'[k] = messages[k]
          BY <2>2
        <5> QED
          BY <4>2, <5>1
      <4>3. m = e => \E l \in DOMAIN messages' : m = messages'[l]
        <5>1. Len(messages) + 1 \in DOMAIN messages'
          BY <2>2
        <5> QED
          BY <2>2, <5>1
      <4> QED
        BY <4>1, <4>2, <4>3
    <3> QED
      BY <2>1, <3>1, GivenIs
  <2>4. \A k, l \in DOMAIN messages' : k < l => messages'[k].sample < messages'[l].sample
    <3> SUFFICES ASSUME NEW k \in DOMAIN messages', NEW l \in DOMAIN messages', k < l
                 PROVE  messages'[k].sample < messages'[l].sample
      OBVIOUS
    <3>1. k \in 1 .. Len(messages) /\ messages'[k] = messages[k] /\ messages[k] \in Given
      <4>1. k \in 1 .. Len(messages)
        BY <2>2
      <4> QED
        BY <2>2, <4>1, GivenIs
    <3>2. CASE l = Len(messages) + 1
      BY <1>2, <2>2, <3>1, <3>2
    <3>3. CASE l # Len(messages) + 1
      <4>1. l \in DOMAIN messages /\ messages'[l] = messages[l] /\ k \in DOMAIN messages
        BY <2>2, <3>1, <3>3
      <4> QED
        BY <3>1, <4>1 DEF HandedInv, MessagesPaired
    <3> QED
      BY <3>2, <3>3
  <2>5. MessagesPaired'
    <3>1. \A m \in Given' : m.sample \in Available' /\ m = Message(m.sample)'
      BY <1>1, <1>2, <1>5, <2>3
    <3>2. \A k \in DOMAIN sample_buffer' : \A m \in sample_buffer'[k] : m.sample = k - 1
      BY <2>1 DEF HandedInv, MessagesPaired
    <3> QED
      BY <2>4, <3>1, <3>2 DEF MessagesPaired
  <2>6. \A m \in Given' : m.sample <= s
    BY <1>1, <1>2, <2>3
  <2>7. \A n : (\E m \in Given' : m.sample = n) <=> Done(n) \/ n = s
    BY <1>2, <2>3 DEF Done
  <2> QED
    BY <1>4, <2>1, <2>2, <2>5, <2>6, <2>7
<1>7. CASE mode = "buffer"
  <2>1. messages' = messages /\ sample_buffer' = [Buffer EXCEPT ![s + 1] = {e}]
    BY <1>2, <1>7 DEF HandOn
  <2>2. /\ DOMAIN Buffer = 1 .. nof[MainGroup]
        /\ \A k \in DOMAIN Buffer : \A m : m \in Buffer[k] <=>
             k \in DOMAIN sample_buffer /\ m \in sample_buffer[k]
        /\ \A k \in DOMAIN sample_buffer : k \in DOMAIN Buffer
    BY <1>4, BufferIs
  <2> HIDE DEF Buffer
  <2>3. s + 1 \in DOMAIN Buffer
    BY <1>1, <1>7, <2>2
  <2>4. /\ DOMAIN sample_buffer' = DOMAIN Buffer
        /\ sample_buffer'[s + 1] = {e}
        /\ \A k \in DOMAIN Buffer : k # s + 1 => sample_buffer'[k] = Buffer[k]
    BY <2>1, <2>3
  <2>5. \A m : m \notin Buffer[s + 1]
    <3> SUFFICES ASSUME NEW m, m \in Buffer[s + 1] PROVE FALSE
      OBVIOUS
    <3>1. s + 1 \in DOMAIN sample_buffer /\ m \in sample_buffer[s + 1]
      BY <2>2, <2>3
    <3>2. m \in Given
      BY <3>1, GivenIs
    <3>3. m.sample = s
      <4>1. PICK k : k = s + 1
        OBVIOUS
      <4>2. k \in DOMAIN sample_buffer /\ m \in sample_buffer[k]
        BY <3>1, <4>1
      <4>3. m.sample = k - 1
        BY <4>2 DEF HandedInv, MessagesPaired
      <4> QED
        BY <1>1, <4>1, <4>3
    <3>4. m.sample # s
      BY <1>1, <3>2
    <3> QED
      BY <1>1, <3>3, <3>4
  <2>6. \A m : m \in Given' <=> m \in Given \/ m = e
    <3> SUFFICES ASSUME NEW m PROVE m \in Given' <=> m \in Given \/ m = e
      OBVIOUS
    <3>1. ASSUME NEW k \in DOMAIN sample_buffer', m \in sample_buffer'[k]
          PROVE  m \in Given \/ m = e
      <4>1. CASE k = s + 1
        BY <2>4, <3>1, <4>1
      <4>2. CASE k # s + 1
        <5>1. k \in DOMAIN Buffer /\ m \in Buffer[k]
          BY <2>4, <3>1, <4>2
        <5>2. k \in DOMAIN sample_buffer /\ m \in sample_buffer[k]
          BY <2>2, <5>1
        <5> QED
          BY <5>2, GivenIs
      <4> QED
        BY <4>1, <4>2
    <3>2. ASSUME NEW k \in DOMAIN sample_buffer, m \in sample_buffer[k]
          PROVE  m \in Given'
      <4>1. k \in DOMAIN Buffer /\ m \in Buffer[k]
        BY <2>2, <3>2
      <4>2. k # s + 1
        BY <2>5, <4>1
      <4>3. k \in DOMAIN sample_buffer' /\ m \in sample_buffer'[k]
        BY <2>4, <4>1, <4>2
      <4> QED
        BY <4>3, GivenIs
    <3>3. e \in Given'
      <4>1. s + 1 \in DOMAIN sample_buffer' /\ e \in sample_buffer'[s + 1]
        BY <2>3, <2>4
      <4> QED
        BY <4>1, GivenIs
    <3> QED
      BY <2>1, <3>1, <3>2, <3>3, GivenIs
  <2>7. \A k \in DOMAIN sample_buffer' : \A m \in sample_buffer'[k] : m.sample = k - 1
    <3> SUFFICES ASSUME NEW k \in DOMAIN sample_buffer', NEW m, m \in sample_buffer'[k]
                 PROVE  m.sample = k - 1
      OBVIOUS
    <3>1. CASE k = s + 1
      BY <1>1, <1>2, <2>4, <3>1
    <3>2. CASE k # s + 1
      <4>1. k \in DOMAIN Buffer /\ m \in Buffer[k]
        BY <2>4, <3>2
      <4>2. k \in DOMAIN sample_buffer /\ m \in sample_buffer[k]
        BY <2>2, <4>1
      <4> QED
        BY <4>2 DEF HandedInv, MessagesPaired
    <3> QED
      BY <3>1, <3>2
  <2>8. MessagesPaired'
    <3>1. \A m \in Given' : m.sample \in Available' /\ m = Message(m.sample)'
      BY <1>1, <1>2, <1>5, <2>6
    <3>2. \A k, l \in DOMAIN messages' : k < l => messages'[k].sample < messages'[l].sample
      BY <2>1 DEF HandedInv, MessagesPaired
    <3> QED
      BY <2>7, <3>1, <3>2 DEF MessagesPaired
  <2>9. \A m \in Given' : m.sample <= s
    BY <1>1, <1>2, <2>6
  <2>10. \A n : (\E m \in Given' : m.sample = n) <=> Done(n) \/ n = s
    BY <1>2, <2>6 DEF Done
  <2> QED
    BY <1>3, <2>1, <2>2, <2>4, <2>8, <2>9, <2>10
<1> QED
  BY <1>6, <1>7

LEMMA HeldBack ==
  ASSUME HandedInv, UNCHANGED <<data, observed, nof, partial, mode, storage, asked>>,
         NEW last, HoldBack(last)
  PROVE  /\ MessagesPaired'
         /\ \E S : messages' \in Seq(S)
         /\ sample_buffer' = <<>> \/ DOMAIN sample_buffer' = 1 .. nof[MainGroup]
         /\ \A m : m \in Given' <=> m \in Given
<1>1. messages' = messages
  BY DEF HoldBack
<1>2. sample_buffer = <<>> \/ DOMAIN sample_buffer = 1 .. nof[MainGroup]
  BY DEF HandedInv
<1>3. /\ Available' = Available /\ \A n : Message(n)' = Message(n)
  BY AvailableKept, SameMessages
<1>4. /\ \A k \in DOMAIN sample_buffer' : \A m : m \in sample_buffer'[k] =>
           k \in DOMAIN sample_buffer /\ m \in sample_buffer[k]
      /\ \A k \in DOMAIN sample_buffer : \A m : m \in sample_buffer[k] =>
           k \in DOMAIN sample_buffer' /\ m \in sample_buffer'[k]
      /\ sample_buffer' = <<>> \/ DOMAIN sample_buffer' = 1 .. nof[MainGroup]
  <2>1. CASE mode = "buffer"
    <3>1. sample_buffer' = Buffer
      BY <2>1 DEF HoldBack
    <3>2. /\ DOMAIN Buffer = 1 .. nof[MainGroup]
          /\ \A k \in DOMAIN Buffer : \A m : m \in Buffer[k] <=>
               k \in DOMAIN sample_buffer /\ m \in sample_buffer[k]
          /\ \A k \in DOMAIN sample_buffer : k \in DOMAIN Buffer
      BY <1>2, BufferIs
    <3> HIDE DEF Buffer
    <3> QED
      BY <3>1, <3>2
  <2>2. CASE mode # "buffer"
    BY <1>2, <2>2 DEF HoldBack
  <2> QED
    BY <2>1, <2>2
<1>5. \A m : m \in Given' <=> m \in Given
  BY <1>1, <1>4, GivenIs
<1>6. MessagesPaired'
  <2>1. \A m \in Given' : m.sample \in Available' /\ m = Message(m.sample)'
    BY <1>3, <1>5 DEF HandedInv, MessagesPaired
  <2>2. \A k, l \in DOMAIN messages' : k < l => messages'[k].sample < messages'[l].sample
    BY <1>1 DEF HandedInv, MessagesPaired
  <2>3. \A k \in DOMAIN sample_buffer' : \A m \in sample_buffer'[k] : m.sample = k - 1
    BY <1>4 DEF HandedInv, MessagesPaired
  <2> QED
    BY <2>1, <2>2, <2>3 DEF MessagesPaired
<1> QED
  BY <1>1, <1>4, <1>5, <1>6 DEF HandedInv

-----------------------------------------------------------------------------
(* The steps *)

LEMMA SettingsKept == ASSUME SettingsInv, UNCHANGED <<file, settings>> PROVE SettingsInv'
<1>1. UNCHANGED <<data, records, observed, nof, partial, range, mode, storage, asked>>
  BY DEF file, data, settings
<1>2. (OneToOne' <=> OneToOne) /\ RecordIds' = RecordIds
  BY <1>1, SameMessages
<1>3. Asked' = Asked
  BY <1>1 DEF Asked, InRange
<1> QED
  BY <1>1, <1>2, <1>3 DEF SettingsInv

LEMMA DeliveredSeq ==
  ASSUME \E S : delivered \in Seq(S), [Next]_vars
  PROVE  \E S : delivered' \in Seq(S)
<1>1. PICK S : delivered \in Seq(S)
  OBVIOUS
<1>2. ASSUME NEW d, delivered' = Append(delivered, d) PROVE \E T : delivered' \in Seq(T)
  <2>1. delivered \in Seq(S \cup {d})
    BY <1>1
  <2> QED
    BY <1>2, <2>1
<1>3. \/ delivered' = delivered
      \/ \E d : delivered' = Append(delivered, d)
  BY DEF Next, EndOfData, ReadHeader, SkipRecord, ReadRecord, Fail, Returned, vars, state
<1> QED
  BY <1>1, <1>2, <1>3

\* The observer is given nothing.
LEMMA HandedIdle ==
  ASSUME HandedInv, UNCHANGED <<file, settings, observer>>, \E S : delivered' \in Seq(S)
  PROVE  /\ HandedInv' /\ Given' = Given
         /\ Interested' <=> Interested
         /\ \A n : Done(n)' <=> Done(n)
<1>1. UNCHANGED <<data, observed, nof, partial, range, mode, storage, asked, messages,
                  sample_buffer, current_sample_index>>
  BY DEF file, settings, observer
<1>2. /\ Available' = Available /\ (\A n : Message(n)' = Message(n))
      /\ Interested' <=> Interested
  BY <1>1, AvailableKept, SameMessages
<1>3. Given' = Given
  BY <1>1 DEF Given
<1>4. MessagesPaired'
  <2>1. \A m \in Given' : m.sample \in Available' /\ m = Message(m.sample)'
    BY <1>2, <1>3 DEF HandedInv, MessagesPaired
  <2> QED
    BY <1>1, <2>1 DEF HandedInv, MessagesPaired
<1> QED
  BY <1>1, <1>2, <1>3, <1>4 DEF HandedInv, Done

LEMMA WaitingIdle ==
  ASSUME HandedInv, WaitingInv, UNCHANGED <<file, settings, observer, stopped>>,
         \E S : delivered' \in Seq(S),
         \A g \in observed, n \in Nat : Seen(g, n)' <=> Seen(g, n),
         MainGroup \in observed
  PROVE  WaitingInv'
<1>1. UNCHANGED <<data, observed, nof, partial, range, mode, storage, last_sample,
                  current_sample_index>>
  BY DEF file, settings, observer
<1>2. /\ \A g, n : Nth(g, n)' = Nth(g, n)
      /\ \A i : Payload(i)' = Payload(i)
      /\ Interested' <=> Interested
      /\ \A n : Done(n)' <=> Done(n)
      /\ \A n : InRange(n)' <=> InRange(n)
  BY <1>1, SameMessages, HandedIdle, FileKept
<1>3. \A n \in Nat : AllSeen(n)' <=> AllSeen(n)
  BY <1>1 DEF AllSeen
<1>4. ASSUME NEW g, NEW n \in Nat PROVE Part(g, n)' = Part(g, n)
  <2>1. CASE g \in observed
    <3>1. Seen(g, n)' <=> Seen(g, n)
      BY <2>1
    <3> HIDE DEF Seen
    <3> QED
      BY <1>1, <1>2, <2>1, <3>1 DEF Part
  <2>2. CASE g \notin observed
    BY <1>1, <2>2 DEF Part
  <2> QED
    BY <2>1, <2>2
<1>5. ASSUME CurrentInv PROVE CurrentInv'
  <2>1. \A g \in observed' : \A n \in Nat : Seen(g, n)' => n <= current_sample_index'
    BY <1>1, <1>5 DEF CurrentInv
  <2>2. ASSUME NEW c \in Nat, c = current_sample_index', (partial => InRange(c))'
        PROVE  /\ \E g \in observed' : Seen(g, c)'
               /\ ~AllSeen(c)' => last_sample' = [sample    |-> c,
                                                  record    |-> Part(MainGroup, c)',
                                                  vlsd_data |-> Part(VlsdGroup, c)']
    <3>1. c = current_sample_index /\ (partial => InRange(c))
      BY <1>1, <1>2, <2>2
    <3>2. /\ \E g \in observed : Seen(g, c)
          /\ ~AllSeen(c) =>
               last_sample = [sample    |-> c, record |-> Part(MainGroup, c),
                              vlsd_data |-> Part(VlsdGroup, c)]
      BY <1>5, <3>1 DEF CurrentInv
    <3>3. \E g \in observed' : Seen(g, c)'
      BY <1>1, <3>2
    <3> HIDE DEF AllSeen, Part
    <3> QED
      BY <1>1, <1>3, <1>4, <3>2, <3>3
  <2> QED
    BY <2>1, <2>2 DEF CurrentInv
<1> QED
  BY <1>1, <1>2, <1>3, <1>5 DEF WaitingInv

\* The observer stops the read.
LEMMA OverrunKeeps ==
  ASSUME MInv, Interested, NEW i, NEW s, ReadsSample(i, s), Overrun(s), stopped',
         UNCHANGED observer, \E S : delivered' \in Seq(S)
  PROVE  HandedInv' /\ WaitingInv' /\ \A n : Done(n) => Done(n)'
<1>1. /\ SyncInv /\ RangeInv /\ SettingsInv /\ HandedInv /\ WaitingInv
      /\ UNCHANGED <<file, settings>> /\ UNCHANGED <<observed, partial>>
  BY DEF MInv, ReadsSample, file
<1>2. /\ HandedInv' /\ (\A n : Done(n)' <=> Done(n)) /\ (\A n : InRange(n)' <=> InRange(n))
  BY <1>1, HandedIdle, FileKept
<1>3. /\ \A g \in observed, n \in Nat : Seen(g, n)' <=> Seen(g, n) \/ (g = group /\ n = s)
      /\ s \in Nat
  BY SampleIsNew
<1>4. MainGroup \in observed /\ MainGroup \in Groups /\ group # MainGroup
  BY <1>1, Observed, OverrunIsLate, GroupAssumption
<1>5. ~Seen(MainGroup, s)
  <2>1. /\ sample[MainGroup] \in Nat /\ nof[MainGroup] \in Nat
        /\ sample[MainGroup] <= nof[MainGroup] /\ nof[MainGroup] <= s
    BY <1>1, <1>4, Counters DEF Overrun
  <2> QED
    BY <1>3, <2>1 DEF Seen
<1>6. ASSUME NEW n \in Nat PROVE AllSeen(n)' <=> AllSeen(n)
  <2>1. CASE n = s
    <3>1. ~Seen(MainGroup, s)'
      BY <1>3, <1>4, <1>5
    <3>2. ~AllSeen(s)
      BY <1>4, <1>5 DEF AllSeen
    <3>3. ~AllSeen(s)'
      <4> HIDE DEF Seen
      <4> QED
        BY <1>1, <1>4, <3>1 DEF AllSeen
    <3> QED
      BY <2>1, <3>2, <3>3
  <2>2. CASE n # s
    <3>1. \A g \in observed : Seen(g, n)' <=> Seen(g, n)
      BY <1>3, <2>2
    <3> QED
      BY <1>1, <3>1 DEF AllSeen
  <2> QED
    BY <2>1, <2>2
<1>7. \A n \in Nat : (partial => InRange(n))' => (Done(n)' <=> AllSeen(n)')
  <2>1. \A n \in Nat : (partial => InRange(n)) => (Done(n) <=> AllSeen(n))
    BY <1>1 DEF WaitingInv
  <2> QED
    BY <1>1, <1>2, <1>6, <2>1
<1> QED
  BY <1>2, <1>7 DEF WaitingInv

\* The sample is a later one than those that have a message.
LEMMA GivenBefore ==
  ASSUME MInv, Interested, CurrentInv, NEW i, NEW s, ReadsSample(i, s)
  PROVE  /\ ~Done(s) /\ \A m \in Given : m.sample < s
         /\ \A g \in observed, n \in Nat : Seen(g, n) => n <= s
<1>1. SettingsInv /\ HandedInv /\ WaitingInv
  BY DEF MInv
<1>2. s \in Nat /\ (partial => InRange(s)) /\ group \in observed /\ ~Seen(group, s)
  BY SampleIsNew
<1>3. PICK c \in Nat \cup {-1} : c = current_sample_index /\ c <= s
  BY <1>1, NotBehind DEF HandedInv
<1>4. ~Done(s)
  <2>1. ~AllSeen(s)
    BY <1>2 DEF AllSeen
  <2> QED
    BY <1>1, <1>2, <2>1 DEF WaitingInv
<1>5. ASSUME NEW m \in Given PROVE m.sample < s
  <2>1. m.sample \in Nat /\ m.sample <= c
    BY <1>1, <1>3 DEF HandedInv, MessagesPaired, Available, SettingsInv
  <2>2. m.sample # s
    BY <1>4 DEF Done
  <2> QED
    BY <1>2, <1>3, <2>1, <2>2
<1>6. ASSUME NEW g \in observed, NEW n \in Nat, Seen(g, n) PROVE n <= s
  <2>1. n <= c
    BY <1>3, <1>6 DEF CurrentInv
  <2> QED
    BY <1>2, <1>3, <2>1
<1> QED
  BY <1>4, <1>5, <1>6

\* The message of the sample is complete.
LEMMA HandOnKeeps ==
  ASSUME MInv, Interested, CurrentInv, NEW i, NEW s, ReadsSample(i, s), ~Overrun(s),
         NEW last, last.sample = s, MessageOf(last) = Message(s), HandOn(last),
         \A g \in observed : g = group \/ Seen(g, s),
         current_sample_index' = s, \E S : delivered' \in Seq(S)
  PROVE  HandedInv' /\ WaitingInv' /\ \A n : Done(n) => Done(n)'
<1>1. /\ SyncInv /\ RangeInv /\ SettingsInv /\ HandedInv /\ WaitingInv
      /\ UNCHANGED <<file, settings>>
      /\ UNCHANGED <<data, observed, nof, partial, mode, storage, asked, range>>
  BY DEF MInv, ReadsSample, file, settings
<1>2. /\ \A g \in observed, n \in Nat : Seen(g, n)' <=> Seen(g, n) \/ (g = group /\ n = s)
      /\ s \in Nat /\ s \in asked /\ (partial => InRange(s)) /\ group \in observed
  BY SampleIsNew
<1>3. \A n : InRange(n)' <=> InRange(n)
  BY <1>1, FileKept
<1>4. MainGroup \in observed /\ observed \subseteq Groups
  BY <1>1, Observed
<1>5. ASSUME NEW g \in observed PROVE s < nof[g]
  <2>1. CASE g = group
    BY <2>1 DEF ReadsSample
  <2>2. CASE Seen(g, s)
    <3>1. s < sample[g] /\ sample[g] \in Nat /\ nof[g] \in Nat /\ sample[g] <= nof[g]
      BY <1>1, <1>4, <2>2, Counters DEF Seen
    <3> QED
      BY <1>2, <3>1
  <2> QED
    BY <2>1, <2>2
<1>6. s \in Available
  BY <1>2, <1>5 DEF Available
<1>7. /\ MessagesPaired'
      /\ \E S : messages' \in Seq(S)
      /\ sample_buffer' = <<>> \/ DOMAIN sample_buffer' = 1 .. nof[MainGroup]
      /\ \A m \in Given' : m.sample <= s
      /\ \A n : (\E m \in Given' : m.sample = n) <=> Done(n) \/ n = s
  <2>1. asked \subseteq Nat /\ nof[MainGroup] \in Nat /\ s < nof[MainGroup]
    BY <1>1, <1>4, <1>5, Counters DEF SettingsInv
  <2>2. \A m \in Given : m.sample < s
    BY GivenBefore
  <2> QED
    BY <1>1, <1>6, <2>1, <2>2, HandedOn
<1>8. HandedInv'
  <2>1. partial' => s + 1 <= range'.max
    BY <1>1, <1>2 DEF InRange
  <2> QED
    BY <1>1, <1>2, <1>7, <2>1 DEF HandedInv
<1>9. \A n \in Nat : AllSeen(n)' <=> AllSeen(n) \/ n = s
  <2> SUFFICES ASSUME NEW n \in Nat PROVE AllSeen(n)' <=> AllSeen(n) \/ n = s
    OBVIOUS
  <2>1. CASE n = s
    BY <1>1, <1>2, <2>1 DEF AllSeen
  <2>2. CASE n # s
    BY <1>1, <1>2, <2>2 DEF AllSeen
  <2> QED
    BY <2>1, <2>2
<1>10. \A n \in Nat : (partial => InRange(n))' => (Done(n)' <=> AllSeen(n)')
  <2>1. \A n \in Nat : (partial => InRange(n)) => (Done(n) <=> AllSeen(n))
    BY <1>1 DEF WaitingInv
  <2>2. \A n : Done(n)' <=> Done(n) \/ n = s
    BY <1>7 DEF Done
  <2> QED
    BY <1>1, <1>3, <1>9, <2>1, <2>2
<1>11. CurrentInv'
  <2>1. \A g \in observed' : \A n \in Nat : Seen(g, n)' => n <= current_sample_index'
    BY <1>1, <1>2, GivenBefore
  <2>2. AllSeen(s)' /\ \E g \in observed : Seen(g, s)'
    BY <1>2, <1>9
  <2> HIDE DEF Seen, AllSeen
  <2> QED
    BY <1>1, <1>2, <2>1, <2>2 DEF CurrentInv
<1> QED
  BY <1>7, <1>8, <1>10, <1>11 DEF WaitingInv, Done

\* The record is the first one of its sample.
LEMMA HoldBackKeeps ==
  ASSUME MInv, Interested, CurrentInv, NEW i, NEW s, ReadsSample(i, s),
         NEW last, HoldBack(last),
         last = [sample    |-> s,
                 record    |-> IF group = MainGroup THEN {Payload(i + 1)} ELSE {},
                 vlsd_data |-> IF group = MainGroup THEN {} ELSE {Payload(i + 1)}],
         \E g \in observed : g # group /\ ~Seen(g, s),
         current_sample_index' = s, \E S : delivered' \in Seq(S)
  PROVE  HandedInv' /\ WaitingInv' /\ \A n : Done(n) => Done(n)'
<1>1. /\ SyncInv /\ RangeInv /\ SettingsInv /\ HandedInv /\ WaitingInv
      /\ UNCHANGED <<file, settings>>
      /\ UNCHANGED <<data, observed, nof, partial, mode, storage, asked, range>>
  BY DEF MInv, ReadsSample, file, settings
<1>2. /\ \A g \in observed, n \in Nat : Seen(g, n)' <=> Seen(g, n) \/ (g = group /\ n = s)
      /\ s \in Nat /\ (partial => InRange(s)) /\ group \in observed
      /\ Nth(group, s) = i + 1
  BY SampleIsNew
<1>3. /\ \A n : InRange(n)' <=> InRange(n)
      /\ \A g, n : Nth(g, n)' = Nth(g, n)
      /\ \A j : Payload(j)' = Payload(j)
  BY <1>1, FileKept, SameMessages
<1>4. PICK h \in observed : h # group /\ ~Seen(h, s)
  OBVIOUS
<1>5. /\ (group = MainGroup /\ h = VlsdGroup) \/ (group = VlsdGroup /\ h = MainGroup)
  BY <1>1, <1>2, <1>4, Observed
<1>6. /\ MessagesPaired'
      /\ \E S : messages' \in Seq(S)
      /\ sample_buffer' = <<>> \/ DOMAIN sample_buffer' = 1 .. nof[MainGroup]
      /\ \A m : m \in Given' <=> m \in Given
  BY <1>1, HeldBack
<1>7. ~Done(s) /\ \A m \in Given : m.sample < s
  BY GivenBefore
<1>8. HandedInv'
  <2>1. partial' => s + 1 <= range'.max
    BY <1>1, <1>2 DEF InRange
  <2>2. \A m \in Given : m.sample \in Nat
    BY <1>1 DEF HandedInv, MessagesPaired, Available, SettingsInv
  <2>3. \A m \in Given' : m.sample <= s
    BY <1>2, <1>6, <1>7, <2>2
  <2> QED
    BY <1>1, <1>2, <1>6, <2>1, <2>3 DEF HandedInv
<1>9. \A n \in Nat : AllSeen(n)' <=> AllSeen(n) /\ n # s
  <2> SUFFICES ASSUME NEW n \in Nat PROVE AllSeen(n)' <=> AllSeen(n) /\ n # s
    OBVIOUS
  <2>1. CASE n = s
    BY <1>1, <1>2, <1>4, <2>1 DEF AllSeen
  <2>2. CASE n # s
    BY <1>1, <1>2, <2>2 DEF AllSeen
  <2> QED
    BY <2>1, <2>2
<1>10. \A n \in Nat : (partial => InRange(n))' => (Done(n)' <=> AllSeen(n)')
  <2>1. \A n \in Nat : (partial => InRange(n)) => (Done(n) <=> AllSeen(n))
    BY <1>1 DEF WaitingInv
  <2>2. \A n : Done(n)' <=> Done(n)
    BY <1>6 DEF Done
  <2> QED
    BY <1>1, <1>3, <1>7, <1>9, <2>1, <2>2
<1>11. CurrentInv'
  <2>1. \A g \in observed' : \A n \in Nat : Seen(g, n)' => n <= current_sample_index'
    BY <1>1, <1>2, GivenBefore
  <2>2. PICK k \in observed : k = group /\ Seen(k, s)' /\ ~Seen(h, s)'
    BY <1>2, <1>4
  <2>3. Part(k, s)' = {Payload(i + 1)} /\ Part(h, s)' = {}
    <3> HIDE DEF Seen
    <3> QED
      BY <1>1, <1>2, <1>3, <2>2 DEF Part
  <2>4. last_sample' = [sample    |-> s,
                        record    |-> Part(MainGroup, s)',
                        vlsd_data |-> Part(VlsdGroup, s)']
    <3>1. last_sample' = last
      BY DEF HoldBack
    <3> HIDE DEF Part
    <3> QED
      BY <1>5, <2>2, <2>3, <3>1, GroupAssumption
  <2> HIDE DEF Seen, AllSeen, Part
  <2> QED
    BY <1>1, <1>2, <2>1, <2>2, <2>4 DEF CurrentInv
<1> QED
  BY <1>6, <1>8, <1>10, <1>11 DEF WaitingInv, Done

LEMMA ObserveKeeps ==
  ASSUME MInv, Observe
  PROVE  MInv' /\ \A n : Done(n) => Done(n)'
<1>1. /\ SyncInv /\ RangeInv /\ LeftInv /\ SettingsInv /\ HandedInv /\ WaitingInv
      /\ reading /\ ~stopped /\ MainGroup \in observed
  BY Observed DEF MInv, Observe, ReadRecord
<1>2. /\ ReadRecord /\ UNCHANGED <<file, settings>> /\ [Next]_vars
  BY DEF Observe, ReadRecord, Next
<1>3. SyncInv' /\ RangeInv' /\ LeftInv' /\ SettingsInv'
  BY <1>1, <1>2, SyncInvNext, RangeInvNext, LeftKept, SettingsKept
<1>4. reading' => ~stopped'
  BY <1>2 DEF ReadRecord
<1>5. \E S : delivered' \in Seq(S)
  BY <1>1, <1>2, DeliveredSeq DEF HandedInv
<1>6. HandedInv' /\ WaitingInv' /\ \A n : Done(n) => Done(n)'
  <2>1. CASE UNCHANGED <<observer, sample, stopped, delivered>>
    <3>1. \A g \in observed, n \in Nat : Seen(g, n)' <=> Seen(g, n)
      BY <1>2, <2>1, FileKept DEF Seen, file
    <3> QED
      BY <1>1, <1>2, <1>5, <2>1, <3>1, HandedIdle, WaitingIdle
  <2>2. ASSUME NEW i, NEW s, ReadsSample(i, s), OnSample(s, group, Payload(i + 1))
        PROVE  HandedInv' /\ WaitingInv' /\ \A n : Done(n) => Done(n)'
    <3>1. CASE ~Interested /\ UNCHANGED observer
      BY <1>1, <1>2, <1>5, <3>1, HandedIdle DEF WaitingInv
    <3>2. CASE Interested /\ Overrun(s) /\ stopped' /\ UNCHANGED observer
      BY <1>5, <2>2, <3>2, OverrunKeeps
    <3>3. ASSUME Interested, ~Overrun(s),
                 current_sample_index' = IF IsNew(s) THEN s ELSE current_sample_index,
                 NEW last, last = Updated(s, group, Payload(i + 1)),
                 IF Completes(s, group, last) THEN HandOn(last) ELSE HoldBack(last)
          PROVE  HandedInv' /\ WaitingInv' /\ \A n : Done(n) => Done(n)'
      <4>1. CurrentInv
        BY <1>1, <3>3 DEF WaitingInv
      <4>2. current_sample_index' = s
        <5>1. PICK c \in Nat \cup {-1} : c = current_sample_index
          BY <1>1 DEF HandedInv
        <5>2. s \in Nat /\ c <= s
          BY <2>2, <4>1, <5>1, SampleIsNew, NotBehind
        <5> QED
          BY <3>3, <5>1, <5>2 DEF IsNew
      <4>3. CASE /\ Completes(s, group, last)
                 /\ \A g \in observed : g = group \/ Seen(g, s)
                 /\ MessageOf(last) = Message(s)
                 /\ last.sample = s
        <5>1. HandOn(last)
          BY <3>3, <4>3
        <5> QED
          BY <1>5, <2>2, <3>3, <4>1, <4>2, <4>3, <5>1, HandOnKeeps
      <4>4. CASE /\ ~Completes(s, group, last)
                 /\ \E g \in observed : g # group /\ ~Seen(g, s)
                 /\ last = [sample    |-> s,
                            record    |-> IF group = MainGroup THEN {Payload(i + 1)} ELSE {},
                            vlsd_data |-> IF group = MainGroup THEN {} ELSE {Payload(i + 1)}]
        <5>1. HoldBack(last)
          BY <3>3, <4>4
        <5> QED
          BY <1>5, <2>2, <3>3, <4>1, <4>2, <4>4, <5>1, HoldBackKeeps
      <4> QED
        BY <2>2, <3>3, <4>1, <4>3, <4>4, UpdatedIs
    <3> QED
      BY <2>2, <3>1, <3>2, <3>3 DEF OnSample
  <2> QED
    BY <2>1, <2>2, ObserveCases
<1> QED
  BY <1>3, <1>4, <1>6 DEF MInv

\* A record that is skipped is of no sample in the range of an observed group.
LEMMA SkipSees ==
  ASSUME MInv, SkipRecord
  PROVE  \A g \in observed, n \in Nat : Seen(g, n)' <=> Seen(g, n)
<1>1. /\ SyncInv /\ RangeInv /\ LeftInv /\ UNCHANGED file /\ ~Reads(group)
      /\ sample' = IncrementSample(group) /\ sample \in [Groups -> Nat]
  BY DEF MInv, SkipRecord, RangeInv, CountersTyped
<1> SUFFICES ASSUME NEW g \in observed, NEW n \in Nat PROVE Seen(g, n)' <=> Seen(g, n)
  OBVIOUS
<1>2. /\ (InRange(n)' <=> InRange(n)) /\ partial' = partial /\ g \in Groups
  BY <1>1, FileKept DEF file, RangeInv
<1>3. CASE g # group \/ ~(sample[g] < nof[g])
  <2>1. sample'[g] = sample[g]
    BY <1>1, <1>2, <1>3, IncrementOne DEF IncrementSample
  <2> QED
    BY <1>2, <2>1 DEF Seen
<1>4. CASE g = group /\ sample[g] < nof[g]
  <2>1. PICK s \in Nat : s = sample[g] /\ sample'[g] = s + 1
    <3>1. sample' = [sample EXCEPT ![g] = sample[g] + 1]
      BY <1>1, <1>4 DEF IncrementSample
    <3> QED
      BY <1>1, <1>2, <3>1
  <2>2. partial /\ (g \notin used \/ ~InRange(s))
    BY <1>1, <1>4, <2>1 DEF Reads
  <2>3. ~InRange(s)
    <3>1. range.min \in Nat /\ range.max \in Nat /\ nof[g] \in Nat
      BY <1>1, <1>2, Counters DEF RangeInv, CountersTyped
    <3>2. CASE g \notin used
      <4>1. g \notin UsedGroups \/ s + 1 > range.max
        BY <1>1, <2>1, <2>2, <3>2 DEF LeftInv
      <4>2. CASE g \notin UsedGroups
        <5>1. ~(range.min <= nof[g])
          BY <4>2 DEF UsedGroups
        <5> QED
          BY <1>4, <2>1, <3>1, <5>1 DEF InRange
      <4>3. CASE s + 1 > range.max
        BY <2>1, <3>1, <4>3 DEF InRange
      <4> QED
        BY <4>1, <4>2, <4>3
    <3> QED
      BY <2>2, <3>2
  <2>4. n < s + 1 <=> n < s \/ n = s
    BY <2>1
  <2> QED
    BY <1>2, <2>1, <2>2, <2>3, <2>4 DEF Seen
<1> QED
  BY <1>3, <1>4

LEMMA ReadOnKeeps == ASSUME MInv, ReadOn PROVE MInv'
<1>1. /\ SyncInv /\ RangeInv /\ LeftInv /\ SettingsInv /\ HandedInv /\ WaitingInv
      /\ MainGroup \in observed
  BY Observed DEF MInv
<1>2. /\ UNCHANGED <<file, settings, observer, stopped, delivered>> /\ [Next]_vars
      /\ reading' => reading
  BY DEF ReadOn, Next, EndOfData, ReadHeader, SkipRecord, Fail, Returned, vars, state
<1>3. SyncInv' /\ RangeInv' /\ LeftInv' /\ SettingsInv'
  BY <1>1, <1>2, SyncInvNext, RangeInvNext, LeftKept, SettingsKept
<1>4. \E S : delivered' \in Seq(S)
  BY <1>1, <1>2 DEF HandedInv
<1>5. \A g \in observed, n \in Nat : Seen(g, n)' <=> Seen(g, n)
  <2>1. CASE SkipRecord
    BY <2>1, SkipSees
  <2>2. CASE sample' = sample
    BY <1>2, <2>2, FileKept DEF Seen, file
  <2> QED
    BY <2>1, <2>2 DEF ReadOn, EndOfData, ReadHeader, Fail, Returned, vars, state
<1>6. HandedInv' /\ WaitingInv'
  BY <1>1, <1>2, <1>4, <1>5, HandedIdle, WaitingIdle
<1> QED
  BY <1>2, <1>3, <1>6 DEF MInv

\* The reader starts again in front of the first record.
LEMMA NextRangeReads ==
  ASSUME MInv, ReadNextRange
  PROVE  SyncInv' /\ RangeInv' /\ LeftInv'
<1>1. /\ SyncInv /\ RangeInv /\ FileTypes /\ SamplesCounted /\ PartsTyped
      /\ UNCHANGED <<data, group, length, observed, nof, partial>>
      /\ cache' = NewReader /\ next' = "id" /\ used' = UsedGroups'
      /\ sample' = [g \in Groups |-> 0] /\ reading'
  BY DEF MInv, SyncInv, ReadNextRange
<1>2. layout \in Layouts /\ records \in Seq(Records) /\ blocks \in Seq(Blocks)
  BY <1>1 DEF FileTypes
<1>3. /\ FileTypes' /\ Groups' = Groups /\ records' = records
      /\ \A g, i : Count(g, i)' = Count(g, i)
  BY <1>1, SameFile DEF data
<1>4. SamplesCounted' /\ PartsTyped'
  BY <1>1, <1>3 DEF SamplesCounted, PartsTyped
<1>5. 0 \in 0 .. Len(records)
  BY <1>2
<1>6. InStep(0)'
  <2>1. Located(cache') /\ Place(cache') = 0 /\ cache'.data_count = 0
    BY <1>1, <1>2, NewReaderLocated
  <2>2. Located(cache)' /\ Place(cache)' = 0 /\ Starts' = Starts
    BY <1>1, <2>1, SameFile
  <2>3. Starts[0] = 0
    BY <1>2, StartsValues
  <2> QED
    BY <1>1, <1>3, <1>5, <2>1, <2>2, <2>3 DEF InStep
<1>7. sample' = CountsOf(0)'
  <2>1. \A g \in Groups : Count(g, 0) = 0 /\ nof[g] \in Nat
    BY <1>1, <1>2, CountValues DEF SamplesCounted
  <2>2. \A g \in Groups : 0 = IF Count(g, 0) < nof[g] THEN Count(g, 0) ELSE nof[g]
    BY <2>1
  <2> QED
    BY <1>1, <1>3, <2>2 DEF CountsOf
<1>8. SyncInv'
  BY <1>3, <1>4, <1>5, <1>6, <1>7 DEF SyncInv, InStepWithCounts
<1>9. range' \in [min : Nat, max : Nat] /\ range'.min <= range'.max
  <2>1. range.max \in Nat
    BY <1>1 DEF RangeInv, CountersTyped
  <2>2. PICK max \in range.max + 1 .. MaxSample, min \in range.max + 1 .. MaxSample :
          min <= max /\ range' = [min |-> min, max |-> max]
    BY DEF ReadNextRange
  <2> QED
    BY <2>1, <2>2
<1>10. CountersTyped'
  BY <1>1, <1>3, <1>9 DEF CountersTyped, RangeInv
<1>11. UsedMetNone'
  <2>1. \A g \in Groups : sample'[g] <= range'.max
    BY <1>1, <1>9
  <2> QED
    BY <1>1, <1>3, <2>1 DEF UsedMetNone
<1>12. RangeInv'
  <2>1. NotReady'
    BY <1>1 DEF NotReady, NewReader
  <2> QED
    BY <1>1, <1>3, <1>10, <1>11, <2>1 DEF RangeInv
<1>13. LeftInv'
  BY <1>1 DEF LeftInv
<1> QED
  BY <1>8, <1>12, <1>13

LEMMA NextRangeKeeps == ASSUME MInv, ReadNextRange PROVE MInv'
<1>1. /\ SyncInv /\ RangeInv /\ SettingsInv /\ HandedInv /\ WaitingInv
      /\ UNCHANGED <<data, observed, nof, partial, mode, storage, observer>>
      /\ partial /\ asked' = asked \cup Asked' /\ delivered' = <<>> /\ stopped' = FALSE
      /\ sample' = [g \in Groups |-> 0]
      /\ MainGroup \in observed /\ MainGroup \in Groups /\ observed \subseteq Groups
  BY Observed DEF MInv, ReadNextRange
<1>2. SyncInv' /\ RangeInv' /\ LeftInv'
  BY NextRangeReads
<1>3. PICK a, b, c, d :
        /\ a = range.max /\ b = range'.min /\ c = range'.max /\ d = current_sample_index
        /\ a \in Nat /\ b \in Nat /\ c \in Nat /\ d \in Nat \cup {-1}
        /\ a < b /\ b <= c /\ d + 1 <= a
  <2>1. range.max \in Nat
    BY <1>1 DEF RangeInv, CountersTyped
  <2>2. current_sample_index \in Nat \cup {-1} /\ current_sample_index + 1 <= range.max
    BY <1>1 DEF HandedInv
  <2>3. PICK max \in range.max + 1 .. MaxSample, min \in range.max + 1 .. MaxSample :
          min <= max /\ range' = [min |-> min, max |-> max]
    BY DEF ReadNextRange
  <2>4. range'.min = min /\ range'.max = max
    BY <2>3
  <2>5. min \in Nat /\ max \in Nat /\ range.max < min /\ min <= max
    BY <2>1, <2>3
  <2> QED
    BY <2>1, <2>2, <2>4, <2>5
<1>4. /\ \A n : Message(n)' = Message(n)
      /\ (OneToOne' <=> OneToOne) /\ RecordIds' = RecordIds
      /\ Interested' <=> Interested
      /\ records' = records
  BY <1>1, SameMessages DEF data
<1>5. Given' = Given /\ messages' = messages /\ sample_buffer' = sample_buffer
      /\ last_sample' = last_sample /\ current_sample_index' = current_sample_index
  BY <1>1 DEF Given, observer
<1>6. \A n \in asked : n \in Nat /\ n + 1 <= a
  BY <1>1, <1>3 DEF SettingsInv
<1>7. \A n \in asked' : n \in Nat /\ n + 1 <= c
  <2> SUFFICES ASSUME NEW n \in asked' PROVE n \in Nat /\ n + 1 <= c
    OBVIOUS
  <2>1. CASE n \in asked
    BY <1>3, <1>6, <2>1
  <2>2. CASE n \in Asked'
    BY <1>1, <1>3, <2>2 DEF Asked, InRange
  <2> QED
    BY <1>1, <2>1, <2>2
<1>8. SettingsInv'
  BY <1>1, <1>3, <1>4, <1>7 DEF SettingsInv
<1>9. Available \subseteq Available'
  BY <1>1 DEF Available
<1>10. MessagesPaired'
  <2>1. \A m \in Given' : m.sample \in Available' /\ m = Message(m.sample)'
    BY <1>1, <1>4, <1>5, <1>9 DEF HandedInv, MessagesPaired
  <2> QED
    BY <1>1, <1>5, <2>1 DEF HandedInv, MessagesPaired
<1>11. HandedInv'
  <2>1. delivered' \in Seq({})
    BY <1>1
  <2>2. current_sample_index' + 1 <= range'.max
    BY <1>3, <1>5
  <2> QED
    BY <1>1, <1>5, <1>10, <2>1, <2>2 DEF HandedInv
<1>12. \A g \in observed, n \in Nat : ~Seen(g, n)'
  BY <1>1 DEF Seen
<1>13. ASSUME NEW n \in Nat, InRange(n)' PROVE ~(n <= d) /\ \A m \in Given' : m.sample # n
  <2>1. b <= n + 1
    BY <1>3, <1>13 DEF InRange
  <2>2. \A m \in Given' : m.sample <= d
    BY <1>1, <1>3, <1>5 DEF HandedInv
  <2>3. ~(n <= d)
    BY <1>3, <2>1
  <2> QED
    BY <2>2, <2>3
<1>14. WaitingInv'
  <2>1. \A n \in Nat : (partial => InRange(n))' => ~Done(n)' /\ ~AllSeen(n)'
    BY <1>1, <1>12, <1>13 DEF Done, AllSeen
  <2>2. CurrentInv'
    <3>1. \A n \in Nat : n = current_sample_index' => ~(partial => InRange(n))'
      BY <1>1, <1>3, <1>5, <1>13
    <3> QED
      BY <1>1, <1>12, <3>1 DEF CurrentInv
  <2> QED
    BY <2>1, <2>2 DEF WaitingInv
<1>15. (reading => ~stopped)'
  BY <1>1
<1> QED
  BY <1>2, <1>8, <1>11, <1>14, <1>15 DEF MInv

LEMMA MInvInit == ASSUME MessageInit PROVE MInv
<1>1. /\ SyncInv /\ RangeInv
      /\ observed = RecordIds /\ messages = <<>> /\ sample_buffer = <<>>
      /\ current_sample_index = -1 /\ delivered = <<>> /\ ~stopped
      /\ sample = [g \in Groups |-> 0] /\ asked = Asked /\ used = UsedGroups
  BY SyncInvInit, RangeInvInit DEF MessageInit, Init
<1>2. LeftInv
  BY <1>1 DEF LeftInv
<1>3. SettingsInv
  <2>1. Len(records) <= MaxRecords
    BY BoundedRecords DEF MessageInit, Init, ParseInit
  <2>2. \A n \in asked : n \in Nat /\ (partial => n + 1 <= range.max)
    BY <1>1 DEF Asked, InRange
  <2> QED
    BY <1>1, <2>1, <2>2 DEF SettingsInv, MessageInit
<1>4. Given = {}
  BY <1>1 DEF Given
<1>5. HandedInv
  <2>1. messages \in Seq({}) /\ delivered \in Seq({})
    BY <1>1
  <2>2. partial => current_sample_index + 1 <= range.max
    BY <1>1 DEF RangeInv, CountersTyped
  <2>3. MessagesPaired
    BY <1>1, <1>4 DEF MessagesPaired
  <2> QED
    BY <1>1, <1>4, <2>1, <2>2, <2>3 DEF HandedInv
<1>6. WaitingInv
  <2>1. MainGroup \in observed /\ observed \subseteq Groups
    BY <1>1, <1>3, Observed
  <2>2. \A g \in observed, n \in Nat : ~Seen(g, n)
    BY <1>1, <2>1 DEF Seen
  <2>3. \A n \in Nat : ~Done(n) /\ ~AllSeen(n)
    BY <1>4, <2>1, <2>2 DEF Done, AllSeen
  <2>4. CurrentInv
    BY <1>1, <2>2 DEF CurrentInv
  <2> QED
    BY <2>3, <2>4 DEF WaitingInv
<1> QED
  BY <1>1, <1>2, <1>3, <1>5, <1>6 DEF MInv

LEMMA MInvNext == ASSUME MInv, [MessageNext]_messageVars PROVE MInv'
<1>1. CASE Observe
  BY <1>1, ObserveKeeps
<1>2. CASE ReadOn
  BY <1>2, ReadOnKeeps
<1>3. CASE ReadNextRange
  BY <1>3, NextRangeKeeps
<1>4. CASE UNCHANGED messageVars
  <2>1. /\ SyncInv /\ RangeInv /\ LeftInv /\ SettingsInv /\ HandedInv /\ WaitingInv
        /\ MainGroup \in observed
    BY Observed DEF MInv
  <2>2. UNCHANGED <<file, settings, observer, stopped, delivered, reading, sample>> /\ [Next]_vars
    BY <1>4 DEF messageVars, vars, state
  <2>3. SyncInv' /\ RangeInv' /\ LeftInv' /\ SettingsInv'
    BY <2>1, <2>2, SyncInvNext, RangeInvNext, LeftKept, SettingsKept
  <2>4. \E S : delivered' \in Seq(S)
    BY <2>1, <2>2 DEF HandedInv
  <2>5. \A g \in observed, n \in Nat : Seen(g, n)' <=> Seen(g, n)
    BY <2>2, FileKept DEF Seen, file
  <2>6. HandedInv' /\ WaitingInv'
    BY <2>1, <2>2, <2>4, <2>5, HandedIdle, WaitingIdle
  <2> QED
    BY <2>2, <2>3, <2>6 DEF MInv
<1> QED
  BY <1>1, <1>2, <1>3, <1>4 DEF MessageNext

\* Where every record of a group with VLSD storage is saved with its VLSD record,
\* an observer makes only right messages: each has the bytes of its own record and
\* of its own VLSD record, whichever of them is first in the file, whatever other
\* groups are in between, whichever ranges are read one after the other and
\* wherever a read ends.  The callback is given ascending samples, and an entry of
\* the buffer is the message of its sample.
THEOREM MessagesArePaired == MessageSpec => []MessagesPaired
<1>1. MessageInit => MInv
  BY MInvInit
<1>2. MInv /\ [MessageNext]_messageVars => MInv'
  BY MInvNext
<1>3. MInv => MessagesPaired
  BY DEF MInv, HandedInv
<1> QED
  BY <1>1, <1>2, <1>3, PTL DEF MessageSpec

-----------------------------------------------------------------------------
(* Completeness *)

\* Every sample of an earlier range that has its records has its message.
EarlierDone == \A n \in Available : partial /\ n + 1 < range.min => Done(n)

\* A read that has returned has read every sample of its range.
AllRead ==
  ~reading => \A n \in Nat : (partial => InRange(n)) /\ (\A g \in observed : n < nof[g])
                               => AllSeen(n)

CInv ==
  /\ MInv
  /\ FullBlocks
  /\ EarlierDone
  /\ AllRead

\* Where no more is read, the samples of every group were counted.
LEMMA EndReads ==
  ASSUME SyncInv, FullBlocks, RecordsHaveSize, EndOfData \/ Fail, NEW g \in Groups
  PROVE  nof[g] <= sample[g]
<1>1. FileTypes /\ SamplesCounted /\ Len(records) \in Nat
  BY DEF SyncInv, FileTypes
<1>2. sample = CountsOf(Len(records))
  <2>1. CASE BehindRecords
    BY <2>1 DEF BehindRecords
  <2>2. ASSUME NEW i \in 0 .. Len(records), InStepWithCounts(i)
        PROVE  sample = CountsOf(Len(records))
    <3>1. CASE EndOfData
      BY <1>1, <2>2, <3>1, NoMoreRecords DEF EndOfData, InStepWithCounts
    <3>2. CASE Fail
      BY <1>1, <2>2, <3>2, RecordComplete DEF Fail, InStepWithCounts
    <3> QED
      BY <3>1, <3>2
  <2> QED
    BY <2>1, <2>2 DEF SyncInv
<1>3. ~(sample[g] < nof[g])
  BY <1>1, <1>2, CountsEnd
<1> QED
  BY <1>3, Counters

\* When no group is in use, none has another sample in the range.
NoneLeft ==
  partial /\ used = {} =>
    \A g \in observed, n \in Nat : InRange(n) /\ n < nof[g] => n < sample[g]

LEMMA ReadyReads == ASSUME SyncInv, RangeInv, LeftInv PROVE NoneLeft
<1> SUFFICES ASSUME partial, used = {}, NEW g \in observed, NEW n \in Nat, InRange(n), n < nof[g]
             PROVE  n < sample[g]
  BY DEF NoneLeft
<1>1. g \in Groups /\ range.min \in Nat /\ range.max \in Nat
  BY DEF RangeInv, CountersTyped
<1>2. sample[g] \in Nat /\ nof[g] \in Nat
  BY <1>1, Counters
<1>3. g \notin UsedGroups \/ sample[g] + 1 > range.max
  BY DEF LeftInv
<1>4. range.min <= n + 1 /\ n + 1 <= range.max
  BY DEF InRange
<1>5. CASE g \notin UsedGroups
  <2>1. ~(range.min <= nof[g])
    BY <1>5 DEF UsedGroups
  <2> QED
    BY <1>1, <1>2, <1>4, <2>1
<1>6. CASE sample[g] + 1 > range.max
  BY <1>1, <1>2, <1>4, <1>6
<1> QED
  BY <1>3, <1>5, <1>6

\* Once it is read, a sample stays read.
LEMMA ReadStays ==
  ASSUME RangeInv, [Next]_vars, NEW g \in observed, NEW n \in Nat, n < sample[g]
  PROVE  n < sample'[g]
<1>1. g \in Groups /\ sample \in [Groups -> Nat]
  BY DEF RangeInv, CountersTyped
<1>2. sample' = sample \/ sample' = IncrementSample(group)
  BY DEF Next, EndOfData, ReadHeader, SkipRecord, ReadRecord, Fail, Returned, vars, state
<1>3. IncrementSample(group)[g] \in {sample[g], sample[g] + 1}
  BY <1>1, IncrementOne
<1>4. sample[g] \in Nat
  BY <1>1
<1> QED
  BY <1>2, <1>3, <1>4

\* A read ends behind the samples of its range, or with an overrun.
LEMMA EndKeepsAllRead ==
  ASSUME CInv, NoneLeft', RecordsHaveSize, Observe \/ ReadOn
  PROVE  AllRead'
<1>1. /\ SyncInv /\ RangeInv /\ LeftInv /\ SettingsInv /\ FullBlocks /\ AllRead
      /\ observed \subseteq Groups /\ MainGroup \in observed
      /\ reading => ~stopped
  BY Observed DEF CInv, MInv
<1>2. UNCHANGED file /\ UNCHANGED <<observed, nof, partial>> /\ [Next]_vars
  <2>1. UNCHANGED file /\ [Next]_vars
    BY DEF Observe, ReadOn, Next, EndOfData, ReadHeader, SkipRecord, ReadRecord, Fail, Returned, vars
  <2> QED
    BY <2>1 DEF file
<1> SUFFICES ASSUME ~reading', NEW n \in Nat, (partial => InRange(n))',
                    \A g \in observed : n < nof[g],
                    NEW g \in observed
             PROVE  Seen(g, n)'
  BY <1>2 DEF AllRead, AllSeen
<1>3. partial => InRange(n)
  BY <1>2, FileKept
<1> SUFFICES n < sample'[g]
  BY DEF Seen
<1>4. CASE ~reading
  <2>1. n < sample[g]
    BY <1>1, <1>3, <1>4 DEF AllRead, AllSeen, Seen
  <2> QED
    BY <1>1, <1>2, <2>1, ReadStays
<1>5. CASE EndOfData \/ Fail
  <2>1. g \in Groups /\ sample' = sample
    BY <1>1, <1>5 DEF EndOfData, Fail
  <2>2. nof[g] <= sample[g] /\ nof[g] \in Nat /\ sample[g] \in Nat
    BY <1>1, <1>5, <2>1, EndReads, Counters
  <2> QED
    BY <2>1, <2>2
<1>6. CASE SkipRecord
  <2>1. reading' = ~IsReady(used')
    BY <1>6 DEF SkipRecord
  <2>2. partial' /\ used' = {}
    BY <1>2, <2>1 DEF IsReady
  <2>3. InRange(n)' /\ n < nof'[g] /\ g \in observed'
    BY <1>2, <2>2
  <2> QED
    BY <2>2, <2>3 DEF NoneLeft
<1>7. CASE Observe
  <2>1. reading' = (~stopped' /\ ~IsReady(used)) /\ Reads(group) /\ reading
    BY <1>7 DEF Observe, ReadRecord
  <2>2. ~IsReady(used)
    BY <2>1 DEF Reads, IsReady
  <2>3. stopped' /\ ~stopped
    BY <1>1, <2>1, <2>2
  <2>4. ~UNCHANGED stopped
    BY <2>3
  <2>5. PICK i, s : ReadsSample(i, s) /\ OnSample(s, group, Payload(i + 1))
    BY <1>7, <2>4, ObserveCases DEF CInv
  <2>6. Overrun(s)
    BY <2>3, <2>5 DEF OnSample
  <2>7. n < sample[g]
    BY <1>1, <2>5, <2>6, OverrunIsLate DEF CInv
  <2> QED
    BY <1>1, <1>2, <2>7, ReadStays
<1>8. CASE ReadHeader
  BY <1>4, <1>8 DEF ReadHeader
<1> QED
  BY <1>4, <1>5, <1>6, <1>7, <1>8 DEF ReadOn, Returned

LEMMA ReadOnStays == ASSUME MInv, ReadOn PROVE \A n : Done(n)' <=> Done(n)
<1>1. UNCHANGED <<file, settings, observer, delivered>>
  BY DEF ReadOn, EndOfData, ReadHeader, SkipRecord, Fail, Returned, vars, state
<1> QED
  BY <1>1, HandedIdle DEF MInv, HandedInv

\* When a range was read, every sample asked for that has its records has its
\* message.
LEMMA ReadIsDone == ASSUME CInv, ~reading, NEW n \in Available PROVE Done(n)
<1>1. /\ SyncInv /\ RangeInv /\ SettingsInv /\ WaitingInv /\ MainGroup \in observed
      /\ observed \subseteq Groups
  BY Observed DEF CInv, MInv
<1>2. /\ n \in Nat /\ n \in asked /\ (partial => n + 1 <= range.max)
      /\ \A g \in observed : n < nof[g]
  BY <1>1 DEF Available, SettingsInv
<1>3. CASE partial /\ n + 1 < range.min
  BY <1>3 DEF CInv, EarlierDone
<1>4. CASE ~(partial /\ n + 1 < range.min)
  <2>1. partial => InRange(n)
    <3>1. range.min \in Nat /\ range.max \in Nat
      BY <1>1 DEF RangeInv, CountersTyped
    <3> QED
      BY <1>2, <1>4, <3>1 DEF InRange
  <2>2. AllSeen(n)
    BY <1>2, <2>1 DEF CInv, AllRead
  <2>3. Interested
    <3>1. nof[MainGroup] \in Nat /\ n < nof[MainGroup]
      BY <1>1, <1>2, Counters
    <3> QED
      BY <1>2, <3>1 DEF Interested
  <2> QED
    BY <1>1, <1>2, <2>1, <2>2, <2>3 DEF WaitingInv
<1> QED
  BY <1>3, <1>4

LEMMA EarlierKept ==
  ASSUME CInv, UNCHANGED <<observed, nof, asked, partial, range>>,
         \A n : Done(n) => Done(n)'
  PROVE  EarlierDone'
<1>1. Available' = Available
  BY AvailableKept
<1> QED
  BY <1>1 DEF CInv, EarlierDone

LEMMA NextRangeComplete == ASSUME CInv, ReadNextRange PROVE EarlierDone' /\ AllRead'
<1>1. /\ ~reading /\ reading' /\ partial /\ range.max \in Nat
      /\ UNCHANGED <<observed, nof, partial, observer>> /\ asked' = asked \cup Asked'
  BY DEF CInv, MInv, RangeInv, CountersTyped, ReadNextRange
<1>2. Given' = Given
  BY <1>1 DEF Given, observer
<1>3. ASSUME NEW n \in Available', n + 1 < range'.min PROVE Done(n)'
  <2>1. n \in asked
    <3>1. partial' /\ range'.min \in Nat
      BY <1>1, NextRangeReads DEF CInv, RangeInv, CountersTyped
    <3>2. n \in asked'
      BY <1>3 DEF Available
    <3>3. n \notin Asked'
      BY <1>3, <3>1 DEF Asked, InRange
    <3> QED
      BY <1>1, <3>2, <3>3
  <2>2. n \in Available
    BY <1>1, <2>1 DEF Available
  <2> QED
    BY <1>1, <1>2, <2>2, ReadIsDone DEF Done
<1> QED
  BY <1>1, <1>3 DEF EarlierDone, AllRead

LEMMA CInvNext ==
  ASSUME CInv, RecordsHaveSize, NoneLeft', [MessageNext]_messageVars
  PROVE  CInv'
<1>1. MInv /\ MInv'
  BY MInvNext DEF CInv
<1>2. UNCHANGED data
  BY DEF MessageNext, Observe, ReadOn, ReadNextRange, EndOfData, ReadHeader, SkipRecord, ReadRecord,
         Fail, Returned, messageVars, vars, file
<1>3. FullBlocks'
  BY <1>2 DEF CInv, FullBlocks, data
<1>4. CASE Observe \/ ReadOn
  <2>1. AllRead'
    BY <1>4, EndKeepsAllRead
  <2>2. UNCHANGED <<observed, nof, asked, partial, range>>
    BY <1>4 DEF Observe, ReadOn, EndOfData, ReadHeader, SkipRecord, ReadRecord, Fail, Returned,
                vars, file, settings
  <2>3. \A n : Done(n) => Done(n)'
    BY <1>1, <1>4, ObserveKeeps, ReadOnStays
  <2> QED
    BY <1>1, <1>3, <2>1, <2>2, <2>3, EarlierKept DEF CInv
<1>5. CASE ReadNextRange
  BY <1>1, <1>3, <1>5, NextRangeComplete DEF CInv
<1>6. CASE UNCHANGED messageVars
  <2>1. UNCHANGED <<observed, nof, asked, partial, range, messages, sample_buffer, reading, sample>>
    BY <1>6 DEF messageVars, vars, file, state, settings, observer
  <2>2. Given' = Given
    BY <2>1 DEF Given
  <2>3. EarlierDone'
    BY <2>1, <2>2, EarlierKept DEF Done
  <2>4. AllRead'
    BY <2>1 DEF CInv, AllRead, AllSeen, Seen, InRange
  <2> QED
    BY <1>1, <1>3, <2>3, <2>4 DEF CInv
<1> QED
  BY <1>4, <1>5, <1>6 DEF MessageNext

LEMMA CInvInit == ASSUME MessageInit, ~EmptyBlocks PROVE CInv
<1>1. MInv /\ FullBlocks
  BY MInvInit, FileInitFull DEF MessageInit, Init, ParseInit
<1>2. EarlierDone
  <2>1. range.min \in Nat
    BY <1>1 DEF MInv, RangeInv, CountersTyped
  <2> QED
    BY <2>1 DEF EarlierDone, Available, MessageInit, Asked, InRange
<1>3. AllRead
  BY DEF AllRead, MessageInit, Init
<1> QED
  BY <1>1, <1>2, <1>3 DEF CInv

\* Of a file without empty blocks whose records have bytes, no sample gets lost:
\* when a read has returned, at the end of the data, behind its range or with an
\* overrun, every sample asked for so far that has its record, and its VLSD record
\* if there is one, was made a message.
THEOREM MessagesAreComplete ==
  ASSUME ~EmptyBlocks, BytesInRecords
  PROVE  MessageSpec => []MessagesComplete
<1>1. MessageInit => CInv
  BY CInvInit
<1>2. MInv => NoneLeft
  BY ReadyReads DEF MInv
<1>3. CInv => RecordsHaveSize
  BY RecordsSized DEF CInv, MInv, SyncInv, FileTypes
<1>4. CInv /\ RecordsHaveSize /\ NoneLeft' /\ [MessageNext]_messageVars => CInv'
  BY CInvNext
<1>5. CInv => MessagesComplete
  BY ReadIsDone DEF MessagesComplete, Done
<1>6. MessageInit => MInv
  BY MInvInit
<1>7. MInv /\ [MessageNext]_messageVars => MInv'
  BY MInvNext
<1> QED
  BY <1>1, <1>2, <1>3, <1>4, <1>5, <1>6, <1>7, PTL DEF MessageSpec
=============================================================================

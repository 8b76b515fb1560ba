---------------------------- MODULE SampleReader ----------------------------
(***************************************************************************)
(* MdfReader::ReadData and ReadPartialData for an MDF 4 data group: the    *)
(* loops over ReadCache::ParseRecord and ParseRangeRecord.  The observers  *)
(* subscribe on channel groups.                                            *)
(***************************************************************************)
EXTENDS RecordStream

CONSTANTS
  MaxSample,   \* bound: sample numbers in a range
  MaxMissing   \* bound: records a group has more than its block says

VARIABLES
  observed,   \* record_id_list_, the groups with an observer
  nof,        \* NofSamples of the groups
  partial,    \* whether a range of samples is read
  range,      \* MinSample and MaxSample of the DgRange
  sample,     \* the sample counters of the groups
  used,       \* the groups whose CgRange is used
  delivered,  \* what the observers were given
  stopped,    \* whether an observer said stop
  reading     \* whether the loop goes on

file  == <<data, observed, nof, partial, range>>
state == <<cache, parsing, sample, used, delivered, stopped, reading>>
vars  == <<file, state>>

AllSamples == [min |-> 0, max |-> 0]

\* Fault: the subscriptions are not looked at
UsesEveryGroup ==
  {g \in Groups : g \in VlsdGroups \/ range.min <= nof[g]}

\* The constructor of DgRange
UsedGroups ==
  {g \in observed : g \in VlsdGroups \/ range.min <= nof[g]}

Init ==
  /\ ParseInit
  /\ observed \in SUBSET Groups
  /\ \E missing \in 0 .. MaxMissing :
       nof = [g \in Groups |->
                IF Count(g, Len(records)) < missing THEN 0
                ELSE Count(g, Len(records)) - missing]
  /\ partial \in BOOLEAN
  /\ range \in IF partial
               THEN {r \in [min : 0 .. MaxSample, max : 0 .. MaxSample] : r.min <= r.max}
               ELSE {AllSamples}
  /\ sample = [g \in Groups |-> 0]
  /\ used = UsedGroups
  /\ delivered = <<>>
  /\ stopped = FALSE
  /\ reading = TRUE

\* next_sample is in the range
InRange(n) == range.min <= n + 1 /\ n + 1 <= range.max

\* The data of the next record of group g is read
Reads(g) == g \in observed /\ (partial => g \in used /\ InRange(sample[g]))

IncrementSample(g) ==
  IF sample[g] < nof[g] THEN [sample EXCEPT ![g] = @ + 1] ELSE sample

\* Fault: a group stays in use behind the range
StaysUsed(g) == used

\* A group is not used any more once a record of it behind the range is met
StillUsed(g) ==
  IF partial /\ ~Reads(g) /\ sample[g] + 1 > range.max THEN used \ {g} ELSE used

\* Fault: ready when one group is
ReadyWithOne(groups) == partial /\ groups # UsedGroups

IsReady(groups) == partial /\ groups = {}

\* ParseRecord and ParseRangeRecord find no more data
EndOfData ==
  /\ reading
  /\ next = "id"
  /\ NoMoreData
  /\ reading' = FALSE
  /\ UNCHANGED <<file, cache, parsing, sample, used, delivered, stopped>>

ReadHeader ==
  /\ reading
  /\ ParseRecordId \/ ParseLength
  /\ UNCHANGED <<file, sample, used, delivered, stopped, reading>>

\* A record of an unobserved group, or outside the range
SkipRecord ==
  /\ reading
  /\ ~Reads(group)
  /\ SkipData
  /\ sample' = IncrementSample(group)
  /\ used' = StillUsed(group)
  /\ reading' = ~IsReady(used')
  /\ UNCHANGED <<file, delivered, stopped>>

\* A record that is read; the observers are given what the group has samples
\* for
ReadRecord ==
  /\ reading
  /\ Reads(group)
  /\ \E read \in {GetArray(cache, length)} :
       /\ ReadData(read)
       /\ IF sample[group] < nof[group]
          THEN /\ delivered' = Append(delivered,
                    [group |-> group, sample |-> sample[group], bytes |-> read.bytes])
               /\ stopped' \in BOOLEAN
          ELSE UNCHANGED <<delivered, stopped>>
  /\ sample' = IncrementSample(group)
  /\ reading' = (~stopped' /\ ~IsReady(used))
  /\ UNCHANGED <<file, used>>

\* An exception ends the loop
Fail ==
  /\ reading
  /\ next = "data" => Reads(group)
  /\ GetArrayThrows
  /\ reading' = FALSE
  /\ UNCHANGED <<file, cache, parsing, sample, used, delivered, stopped>>

\* The read has returned
Returned ==
  /\ ~reading
  /\ UNCHANGED vars

Next == EndOfData \/ ReadHeader \/ SkipRecord \/ ReadRecord \/ Fail \/ Returned

\* The loop runs as long as it reads.  This is weak fairness of Next, which is
\* always enabled: TLC finds no deadlock.
Fairness == <>[]reading => []<><<Next>>_vars

Spec == Init /\ [][Next]_vars /\ Fairness

-----------------------------------------------------------------------------
\* What the observers want: every sample the file has of their groups, in the
\* order of the file; of a range those from the min-th to the max-th.
Wants(i) ==
  LET n == Cardinality(Before(i)) IN
  /\ records[i].group \in observed
  /\ n < nof[records[i].group]
  /\ partial => InRange(n)

SampleOf(i) ==
  [group |-> records[i].group, sample |-> Cardinality(Before(i)), bytes |-> Payload(i)]

Chosen == {i \in DOMAIN records : Wants(i)}

Wanted ==
  LET is == Ascending(Chosen)
  IN  [k \in DOMAIN is |-> SampleOf(is[k])]

Flat == INSTANCE FlatReader WITH
          wanted <- Wanted, log <- delivered, returned <- ~reading

TypeOK ==
  /\ ParseTypeOK
  /\ observed \subseteq Groups
  /\ nof \in [Groups -> Nat]
  /\ partial \in BOOLEAN
  /\ range \in [min : Nat, max : Nat]
  /\ sample \in [Groups -> Nat]
  /\ used \subseteq observed
  /\ stopped \in BOOLEAN
  /\ reading \in BOOLEAN

(***************************************************************************)
(* While it parses the reader is at a record, and the sample counter of    *)
(* each group is the number of its records before that, so that the next   *)
(* sample gets its right bytes and its right number whatever blocks and    *)
(* groups were skipped.  A group without record ids may be skipped beyond  *)
(* its last record, because SkipBytes has counted too few bytes.           *)
(***************************************************************************)
CountsOf(i) ==
  [g \in Groups |-> IF Count(g, i) < nof[g] THEN Count(g, i) ELSE nof[g]]

InSync ==
  reading =>
    \/ \E i \in 0 .. Len(records) : AtRecord(i) /\ sample = CountsOf(i)
    \/ /\ IdSize = 0
       /\ Place(cache) >= DataSize
       /\ sample = CountsOf(Len(records))

\* A record of the group behind the range was met and counted.
MetBehindRange(g) == sample[g] > range.max

\* After a record ParseRangeRecord goes on only for an observed group with samples
\* up to the range that has met no record behind it.  The last record of the range
\* does not end the use of its group, only the first one behind it does: for a
\* group that ends with the range, the file is read to its end.
StopsBehindRange ==
  reading /\ partial /\ next = "id" /\ cache # NewReader =>
    \E g \in observed :
      /\ g \in VlsdGroups \/ range.min <= nof[g]
      /\ ~MetBehindRange(g)

\* ReadData and ReadPartialData give the observers exactly the samples they
\* want, with their bytes and numbers, and return.
ImplementsFlat == Flat!Spec

\* mdfreader.h: ReadData reads all samples.
ReadsAll == ~reading /\ ~stopped /\ ~partial => delivered = Wanted
=============================================================================

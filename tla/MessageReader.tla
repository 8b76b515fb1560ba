---------------------------- MODULE MessageReader ----------------------------
(***************************************************************************)
(* Observers that put a record and its VLSD record together: a             *)
(* CanBusObserver, which makes CAN messages for a callback or for its      *)
(* buffer, and a SampleRecordObserver, with which a task copies samples.   *)
(* One such observer reads a data group, once or range after range.        *)
(***************************************************************************)
EXTENDS SampleReader

CONSTANTS
  MainGroup,  \* the observed channel group, channel_group_
  VlsdGroup   \* the group of its VLSD records, if it has VLSD storage

ASSUME GroupAssumption == MainGroup # VlsdGroup

VARIABLES
  mode,                  \* what is done with a message
  storage,               \* StorageType of the group
  last_sample,           \* last_sample_, its two parts empty or a record
  current_sample_index,  \* current_sample_index_
  messages,              \* what the callback or the task was given
  sample_buffer,         \* sample_buffer_, entries empty or a message
  asked                  \* history: the samples that were asked for

observer    == <<last_sample, current_sample_index, messages, sample_buffer>>
settings    == <<mode, storage, asked>>
messageVars == <<vars, observer, settings>>

Modes    == {"callback", "buffer", "copy"}
Storages == {"VlsdStorage", "MlsdStorage", "FixedLengthStorage"}

\* record_id_list_
RecordIds == {MainGroup} \cup (IF storage = "VlsdStorage" THEN {VlsdGroup} ELSE {})

NoSample(s) == [sample |-> s, record |-> {}, vlsd_data |-> {}]

\* The logger's policy: a record and its VLSD record, in any order, are
\* followed by the next ones.  The last of them may be missing.
OneToOne ==
  \A n \in 0 .. Len(records) :
    LET main == Count(MainGroup, n)
        vlsd == Count(VlsdGroup, n)
    IN  (main + vlsd) % 2 = 0 => main = vlsd

\* A task copies all samples of a group.  The samples a range asks for
Asked == {n \in 0 .. MaxRecords : partial => InRange(n)}

MessageInit ==
  /\ storage \in Storages
  /\ mode \in Modes
  /\ Init
  /\ observed = RecordIds
  /\ mode = "copy" => ~partial
  /\ storage = "VlsdStorage" => OneToOne
  /\ last_sample = NoSample(0)
  /\ current_sample_index = -1
  /\ messages = <<>>
  /\ sample_buffer = <<>>
  /\ asked = Asked

\* The observer compares with its own nof_samples_; a task's does not
Interested == mode = "copy" \/ nof[MainGroup] # 0
Overrun(s) == mode # "copy" /\ s >= nof[MainGroup]

\* The sample is the first of its pair.
IsNew(s) == s > current_sample_index

\* last_sample_ with a record of group g for sample s
Updated(s, g, bytes) ==
  LET last == IF IsNew(s) THEN NoSample(s) ELSE last_sample
  IN  IF g = MainGroup THEN [last EXCEPT !.record = {bytes}]
                       ELSE [last EXCEPT !.vlsd_data = {bytes}]

\* Fault: only the VLSD record completes a message, whichever comes last
VlsdRecordCompletes(s, g, last) ==
  IF storage = "VlsdStorage" THEN ~IsNew(s) /\ g = VlsdGroup ELSE g = MainGroup

\* Fault: the first record of a pair makes a message
FirstRecordCompletes(s, g, last) == last.record # {}

\* A CanBusObserver waits for the second record with a number, a
\* SampleRecordObserver for both parts.
Completes(s, g, last) ==
  /\ mode = "copy" => last.record # {}
  /\ IF storage = "VlsdStorage"
     THEN IF mode = "copy" THEN last.vlsd_data # {} ELSE ~IsNew(s)
     ELSE mode = "copy" \/ g = MainGroup \/ ~IsNew(s)

\* ParseCanMessage: the data bytes of VLSD storage are the VLSD record, of
\* another storage they are found with the record.
MessageOf(last) ==
  [sample |-> last.sample, record |-> last.record,
   data |-> IF storage = "VlsdStorage" THEN last.vlsd_data ELSE last.record]

Buffer == IF sample_buffer = <<>> THEN [k \in 1 .. nof[MainGroup] |-> {}] ELSE sample_buffer

\* A completed message is handed on, or stored
HandOn(last) ==
  /\ messages' = IF mode = "buffer" THEN messages ELSE Append(messages, MessageOf(last))
  /\ sample_buffer' = IF mode = "buffer"
                      THEN [Buffer EXCEPT ![last.sample + 1] = {MessageOf(last)}]
                      ELSE sample_buffer
  /\ last_sample' = IF mode = "copy" THEN NoSample(last.sample) ELSE last

HoldBack(last) ==
  /\ last_sample' = last
  /\ sample_buffer' = IF mode = "buffer" THEN Buffer ELSE sample_buffer
  /\ UNCHANGED messages

\* OnSample of both observers.  The result of the callback is not looked at.
OnSample(s, g, bytes) ==
  \/ /\ ~Interested
     /\ ~stopped'
     /\ UNCHANGED observer
  \/ /\ Interested
     /\ Overrun(s)
     /\ stopped'
     /\ UNCHANGED observer
  \/ /\ Interested
     /\ ~Overrun(s)
     /\ ~stopped'
     /\ current_sample_index' = IF IsNew(s) THEN s ELSE current_sample_index
     /\ \E last \in {Updated(s, g, bytes)} :
          IF Completes(s, g, last) THEN HandOn(last) ELSE HoldBack(last)

\* A record is read and, if its group has a sample for it, observed.
Observe ==
  /\ ReadRecord
  /\ IF sample[group] < nof[group]
     THEN OnSample(sample[group], group, delivered'[Len(delivered')].bytes)
     ELSE UNCHANGED observer
  /\ UNCHANGED settings

ReadOn ==
  /\ EndOfData \/ ReadHeader \/ SkipRecord \/ Fail \/ Returned
  /\ UNCHANGED <<observer, settings>>

\* The next range is read, with the same observer.
ReadNextRange ==
  /\ ~reading
  /\ partial
  /\ UNCHANGED <<data, group, length, observed, nof, partial, observer, mode, storage>>
  /\ \E max \in range.max + 1 .. MaxSample, min \in range.max + 1 .. MaxSample :
       /\ min <= max
       /\ range' = [min |-> min, max |-> max]
  /\ cache' = NewReader
  /\ next' = "id"
  /\ sample' = [g \in Groups |-> 0]
  /\ used' = UsedGroups'
  /\ delivered' = <<>>
  /\ stopped' = FALSE
  /\ reading' = TRUE
  /\ asked' = asked \cup Asked'

MessageNext == Observe \/ ReadOn \/ ReadNextRange

MessageSpec == MessageInit /\ [][MessageNext]_messageVars

-----------------------------------------------------------------------------
\* The place in the file of sample n of group g
Nth(g, n) ==
  CHOOSE i \in DOMAIN records : records[i].group = g /\ Cardinality(Before(i)) = n

Message(n) ==
  LET record == {Payload(Nth(MainGroup, n))} IN
  [sample |-> n, record |-> record,
   data |-> IF storage = "VlsdStorage" THEN {Payload(Nth(VlsdGroup, n))} ELSE record]

\* The samples that have all their records
Available == {n \in asked : \A g \in observed : n < nof[g]}

Given == {messages[i] : i \in DOMAIN messages} \cup UNION {sample_buffer[i] : i \in DOMAIN sample_buffer}

(***************************************************************************)
(* canbusobserver.cpp:185 relies on the one-to-one saving of records and   *)
(* VLSD records.  With it every message has the bytes of its own record    *)
(* and of its own VLSD record, whichever of them is first in the file and  *)
(* whichever ranges are read; the callback is given ascending samples; an  *)
(* entry of the buffer is the message of its sample.                       *)
(***************************************************************************)
MessagesPaired ==
  /\ \A m \in Given : m.sample \in Available /\ m = Message(m.sample)
  /\ \A i, j \in DOMAIN messages : i < j => messages[i].sample < messages[j].sample
  /\ \A i \in DOMAIN sample_buffer : \A m \in sample_buffer[i] : m.sample = i - 1

\* When the read has returned, with or without an overrun, every sample that
\* was asked for and has all its records was made a message.
MessagesComplete ==
  ~reading => \A n \in Available : \E m \in Given : m.sample = n
=============================================================================

----------------------------- MODULE VlsdReader -----------------------------
(***************************************************************************)
(* MdfReader::ReadVlsdData: the data of one VLSD channel at given offsets. *)
(* The data is stored as the records of a VLSD channel group among the     *)
(* other records of the data group, or as signal data (SD) in blocks of    *)
(* the channel, which is a stream of such records without record ids.      *)
(*                                                                         *)
(* The offset of a data is the number of bytes of the channel's data in    *)
(* front of it, with their lengths, as the records of the channel refer to *)
(* it.                                                                     *)
(***************************************************************************)
EXTENDS RecordStream

CONSTANT
  Links  \* the types of the block the data link of the channel refers to

ASSUME LinksAssumption ==
  /\ Links \subseteq {"CG", "SD", "DZ", "DL", "HL"}
  /\ \A l \in Layouts : l.vlsd # {}

VARIABLES
  link,       \* the type of the block the data link refers to
  channel,    \* record_id_list_, the record id of the channel's VLSD group
  filter,     \* offset_filter_, empty if all data is read
  todo,       \* the offsets that the loop over the filter has still to come to
  offset,     \* offset_
  delivered,  \* what the callback was given
  reading     \* whether the loop goes on

file  == <<data, link, channel, filter>>
state == <<cache, parsing, todo, offset, delivered, reading>>
vars  == <<file, state>>

\* The bytes of the channel's data in front of record i
OffsetOf(i) ==
  LET sum[k \in 0 .. i - 1] ==
        IF k = 0 THEN 0
        ELSE sum[k - 1] + (IF records[k].group = channel THEN LengthSize + records[k].length
                           ELSE 0)
  IN  sum[i - 1]

Offsets == {OffsetOf(i) : i \in {j \in DOMAIN records : records[j].group = channel}}

\* ReadVlsdData reads nothing if the link refers to a block of another type
Readable == link \in {"CG", "SD", "DZ", "DL"}

SignalData == link # "CG"

Init ==
  /\ ParseInit
  /\ link \in Links
  /\ SignalData <=> IdSize = 0
  /\ link = "SD" => Len(blocks) = 1 /\ blocks[1].kind = "DT"
  /\ link = "DZ" => Len(blocks) = 1 /\ blocks[1].kind = "DZ"
  /\ channel \in VlsdGroups
  /\ filter \in SUBSET Offsets  \* the offsets come from records of the channel
  /\ todo = IF SignalData THEN filter ELSE {}
  /\ offset = 0
  /\ delivered = <<>>
  /\ reading = Readable

ByOffset == SignalData /\ filter # {}

\* Data of other channels, or that the filter does not ask for, is skipped
Reads == group = channel /\ (ByOffset \/ filter = {} \/ offset \in filter)

\* Fault: offset_ counts only what is read
OffsetOfRead(size) == IF Reads THEN offset + LengthSize + size ELSE offset

Passed(size) == IF group = channel THEN offset + LengthSize + size ELSE offset

\* The Parse functions find no more data
EndOfData ==
  /\ reading
  /\ next = "id"
  /\ NoMoreData
  /\ reading' = FALSE
  /\ UNCHANGED <<file, cache, parsing, todo, offset, delivered>>

\* The filter is an ordered set
NextOffset == CHOOSE o \in todo : \A p \in todo : o <= p

\* The loop over the filter is at its end
EndOfFilter ==
  /\ reading
  /\ ByOffset
  /\ next = "id"
  /\ todo = {}
  /\ reading' = FALSE
  /\ UNCHANGED <<file, cache, parsing, todo, offset, delivered>>

\* The record id and the length, with ParseVlsdCgData and ParseSignalData
ReadHeader ==
  /\ reading
  /\ next = "id" => ~ByOffset
  /\ ParseRecordId \/ ParseLength
  /\ UNCHANGED <<file, todo, offset, delivered, reading>>

\* Fault: SkipBytes is called with the offset itself
SeekFromStart ==
  /\ reading
  /\ ByOffset
  /\ next = "id"
  /\ todo # {}
  /\ ~NoMoreData
  /\ cache' = SkipBytes(cache, NextOffset)
  /\ offset' = NextOffset
  /\ todo' = todo \ {NextOffset}
  /\ next' = "length"
  /\ UNCHANGED <<file, group, length, delivered, reading>>

\* ParseSignalDataOffset skips the data up to the next offset of the filter
Seek ==
  /\ reading
  /\ ByOffset
  /\ next = "id"
  /\ todo # {}
  /\ ~NoMoreData
  /\ cache' = SkipBytes(cache, NextOffset - offset)
  /\ offset' = NextOffset
  /\ todo' = todo \ {NextOffset}
  /\ next' = "length"
  /\ UNCHANGED <<file, group, length, delivered, reading>>

SkipRecord ==
  /\ reading
  /\ ~Reads
  /\ SkipData
  /\ offset' = Passed(length)
  /\ UNCHANGED <<file, todo, delivered, reading>>

\* The callback is given the data
ReadRecord ==
  /\ reading
  /\ Reads
  /\ \E read \in {GetArray(cache, length)} :
       /\ ReadData(read)
       /\ delivered' = Append(delivered, [offset |-> offset, bytes |-> read.bytes])
  /\ offset' = Passed(length)
  /\ reading' = (SignalData => cache'.data_count < DataSize)
  /\ UNCHANGED <<file, todo>>

\* An exception ends the loop.  Where ParseSignalDataOffset tests that the length
\* and the data fit into the data that is left, GetArray would throw.
Fail ==
  /\ reading
  /\ next = "id" => ~ByOffset
  /\ next = "data" => Reads
  /\ GetArrayThrows
  /\ reading' = FALSE
  /\ UNCHANGED <<file, cache, parsing, todo, offset, delivered>>

\* ReadVlsdData has returned
Returned ==
  /\ ~reading
  /\ UNCHANGED vars

Next ==
  \/ EndOfData \/ EndOfFilter \/ Fail \/ Returned
  \/ ReadHeader \/ Seek \/ SkipRecord \/ ReadRecord

\* The loop runs as long as it reads.  This is weak fairness of Next, which is
\* always enabled: TLC finds no deadlock.
Fairness == <>[]reading => []<><<Next>>_vars

Spec == Init /\ [][Next]_vars /\ Fairness

-----------------------------------------------------------------------------
\* What the caller wants: the data of the channel at the offsets of the filter
Wants(i) == records[i].group = channel /\ (filter = {} \/ OffsetOf(i) \in filter)

Chosen == {i \in DOMAIN records : Wants(i)}

Wanted ==
  LET is == Ascending(Chosen)
  IN  [k \in DOMAIN is |-> [offset |-> OffsetOf(is[k]), bytes |-> Payload(is[k])]]

Flat == INSTANCE FlatReader WITH
          wanted <- Wanted, log <- delivered, stopped <- FALSE, returned <- ~reading

TypeOK ==
  /\ ParseTypeOK
  /\ cache.data_count <= DataSize
  /\ link \in Links
  /\ channel \in VlsdGroups
  /\ filter \subseteq Nat
  /\ todo \subseteq filter
  /\ offset \in Nat
  /\ reading \in BOOLEAN

(***************************************************************************)
(* While it parses the reader is at a record, and offset_ is the offset    *)
(* of the next data of the channel, whatever blocks, groups and offsets    *)
(* were skipped.                                                           *)
(***************************************************************************)
OffsetInSync ==
  reading => \E i \in 0 .. Len(records) : AtRecord(i) /\ offset = OffsetOf(i + 1)

\* ReadVlsdData gives the callback exactly the data at the offsets of the
\* filter, with their offsets, and returns.
ImplementsFlat == Flat!Spec
=============================================================================

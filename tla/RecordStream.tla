---------------------------- MODULE RecordStream ----------------------------
(***************************************************************************)
(* The records in the data blocks and how ReadCache recognises them: a     *)
(* record id if the data group has several channel groups, for a VLSD      *)
(* group the length of the data, and the data.  The data blocks cut the    *)
(* stream anywhere.                                                        *)
(***************************************************************************)
EXTENDS BlockStream

CONSTANTS
  Layouts,      \* the data groups considered, see Layout
  LengthSize,   \* bytes of the length of VLSD data, 4 in the code
  MaxRecords,   \* bound: records in the file
  MaxLength,    \* bound: bytes of VLSD data
  EmptyBlocks   \* whether a block of a list may be empty

(***************************************************************************)
(* The layout of a data group: the record ids of its channel groups with   *)
(* records of a fixed size and of those with VLSD data, the fixed size     *)
(* (NofDataBytes + NofInvalidBytes), the size of a record id, which is 0   *)
(* only if there is one group, and a bound on the number of data blocks.   *)
(***************************************************************************)
Layout == [fixed : SUBSET Nat, vlsd : SUBSET Nat, size : Nat, id : Nat, blocks : Nat]

ASSUME LayoutAssumption ==
  \A l \in Layouts :
    /\ l \in Layout
    /\ l.fixed \cap l.vlsd = {}
    /\ l.fixed \cup l.vlsd # {}
    /\ IsFiniteSet(l.fixed \cup l.vlsd)
    /\ l.id = 0 => Cardinality(l.fixed \cup l.vlsd) = 1

ASSUME LengthAssumption ==
  /\ LengthSize \in Nat \ {0}
  /\ MaxLength \in Nat

ASSUME RecordsAssumption == MaxRecords \in Nat

VARIABLES
  layout,   \* the data group that is read
  records,  \* the records in the file: their group and the size of their data
  cache,    \* the ReadCache
  next,     \* the part of a record it reads next
  group,    \* the channel group of the record, once its id is read
  length    \* the size of its data, once that is known

data    == <<blocks, layout, records>>
parsing == <<next, group, length>>

FixedGroups == layout.fixed
VlsdGroups  == layout.vlsd
Groups      == FixedGroups \cup VlsdGroups
RecordSize  == layout.size
IdSize      == layout.id

Records == [group : FixedGroups, length : {RecordSize}]
             \cup [group : VlsdGroups, length : 0 .. MaxLength]

HeaderSize(g) == IdSize + (IF g \in VlsdGroups THEN LengthSize ELSE 0)

\* Starts[i] is the number of bytes in front of record i + 1
Starts == Sums([i \in DOMAIN records |->
                  HeaderSize(records[i].group) + records[i].length])

\* The places of n bytes of record i, behind its first skip bytes
Field(i, skip, n) == [k \in 1 .. n |-> Starts[i - 1] + skip + k]

Payload(i) == Field(i, HeaderSize(records[i].group), records[i].length)

\* The earlier records of the group of record i
Before(i) == {j \in 1 .. i - 1 : records[j].group = records[i].group}

Count(g, n) == Cardinality({i \in 1 .. n : records[i].group = g})

\* The numbers of a set in ascending order
Ascending(s) ==
  [k \in 1 .. Cardinality(s) |-> CHOOSE i \in s : Cardinality({j \in s : j < i}) = k - 1]

\* ends is where the blocks end
BlocksOf(ends, kinds) ==
  [b \in DOMAIN ends |->
     [kind |-> kinds[b], size |-> ends[b] - (IF b = 1 THEN 0 ELSE ends[b - 1])]]

\* Every file within the bounds
FileInit ==
  /\ layout \in Layouts
  /\ records \in BoundedSeq(Records, MaxRecords) \ {<<>>}
  /\ \E n \in 1 .. layout.blocks :
       \E cuts \in [1 .. n - 1 -> 0 .. Starts[Len(records)]],
          kinds \in [1 .. n -> {"DT", "DZ"}] :
         /\ blocks = BlocksOf(Append(cuts, Starts[Len(records)]), kinds)
         /\ \A b \in 1 .. n : blocks[b].size >= (IF EmptyBlocks THEN 0 ELSE 1)

ParseInit ==
  /\ FileInit
  /\ cache = NewReader
  /\ next = "id"
  /\ group = CHOOSE g \in Groups : TRUE
  /\ length = RecordSize

\* The test at the start of the Parse functions
NoMoreData == cache.data_count >= DataSize \/ blocks = <<>>

\* Without record ids nothing is read, wherever the reader is.
ReadId ==
  IF IdSize = 0 THEN [cache |-> cache, bytes |-> <<>>, ok |-> TRUE]
                ELSE GetArray(cache, IdSize)

\* Bytes that are no record id are the id of any group
ParseRecordId ==
  /\ next = "id"
  /\ ~NoMoreData
  /\ \E read \in {ReadId}, g \in Groups :
       /\ read.ok
       /\ \A i \in DOMAIN records : read.bytes = Field(i, 0, IdSize) => g = records[i].group
       /\ cache' = read.cache
       /\ group' = g
  /\ next' = IF group' \in VlsdGroups THEN "length" ELSE "data"
  /\ length' = RecordSize

\* The length of VLSD data; bytes that are no length are any length
ParseLength ==
  /\ next = "length"
  /\ \E read \in {GetArray(cache, LengthSize)}, n \in 0 .. MaxLength :
       /\ read.ok
       /\ \A i \in DOMAIN records :
            records[i].group \in VlsdGroups /\ read.bytes = Field(i, IdSize, LengthSize)
              => n = records[i].length
       /\ cache' = read.cache
       /\ length' = n
  /\ next' = "data"
  /\ UNCHANGED group

\* The data is not read
SkipData ==
  /\ next = "data"
  /\ cache' = SkipBytes(cache, length)
  /\ next' = "id"
  /\ UNCHANGED <<group, length>>

\* The data is read
ReadData(bytes) ==
  /\ next = "data"
  /\ bytes.ok
  /\ cache' = bytes.cache
  /\ next' = "id"
  /\ UNCHANGED <<group, length>>

\* GetArray throws
GetArrayThrows ==
  \/ next = "id" /\ ~NoMoreData /\ ~ReadId.ok
  \/ next = "length" /\ ~GetArray(cache, LengthSize).ok
  \/ next = "data" /\ ~GetArray(cache, length).ok

(***************************************************************************)
(* The reader is at record i + 1, in front of the part it reads next.  If  *)
(* the current block has more bytes, the next one comes from where the     *)
(* block says, and no more bytes are counted than were passed.             *)
(***************************************************************************)
AtRecord(i) ==
  LET place == Starts[i] + CASE next = "id" -> 0
                             [] next = "length" -> IdSize
                             [] next = "data" -> HeaderSize(group)
  IN  /\ Place(cache) = place
      /\ cache.data_count <= place
      /\ cache.file_index < BlockSize(cache) => NextByte(cache, 1) = place + 1
      /\ next # "id" => i < Len(records) /\ group = records[i + 1].group
      /\ next = "data" => length = records[i + 1].length

ParseTypeOK ==
  /\ layout \in Layouts
  /\ blocks \in Seq(Blocks)
  /\ records \in Seq(Records)
  /\ cache.block_index \in 0 .. Len(blocks)
  /\ cache.data_count \in Nat
  /\ next \in {"id", "length", "data"}
  /\ group \in Groups
  /\ length \in Nat
=============================================================================

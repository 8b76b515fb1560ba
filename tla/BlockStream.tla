---------------------------- MODULE BlockStream ----------------------------
(***************************************************************************)
(* The bytes of a list of data blocks as ReadCache reads them.  A DT block *)
(* is read from the file at the position of the stream buffer, a DZ block  *)
(* is decompressed into a buffer first.                                    *)
(*                                                                         *)
(* The value of a byte is its place in the data of all blocks, counted     *)
(* from 1, and 0 for a byte that belongs to none of them.  The reader is a *)
(* record that the operations map to the next one:                         *)
(*   block_index   the blocks it has opened; the last of them is current   *)
(*   file_index    the bytes of the current block it has passed            *)
(*   file_buffer   the DZ block in the buffer, 0 when that is empty        *)
(*   position      of the stream buffer, as a block and a byte in it       *)
(*   data_count    the bytes it believes to have passed                    *)
(***************************************************************************)
EXTENDS Integers, Sequences, FiniteSets, SequencesExt

VARIABLE
  blocks  \* the data blocks: their kind, DT or DZ, and the size of their data

Blocks == [kind : {"DT", "DZ"}, size : Nat]

\* Sums(s)[i] is the sum of the first i numbers of s
Sums(s) ==
  LET sum[i \in 0 .. Len(s)] == IF i = 0 THEN 0 ELSE sum[i - 1] + s[i]
  IN  sum

Ends == Sums([b \in DOMAIN blocks |-> blocks[b].size])

\* max_data_count_
DataSize == Ends[Len(blocks)]

\* data_size_ is the size of the current block
BlockSize(c) == IF c.block_index = 0 THEN 0 ELSE blocks[c.block_index].size

Elsewhere == [block |-> 0, byte |-> 0]

NewReader == [block_index |-> 0, file_index |-> 0, file_buffer |-> 0,
              position |-> Elsewhere, data_count |-> 0]

\* Where the reader is in the data of all blocks
Place(c) == IF c.block_index = 0 THEN 0 ELSE Ends[c.block_index - 1] + c.file_index

\* The i-th of the next bytes
ByteAt(block, i) ==
  IF block # 0 /\ i <= blocks[block].size THEN Ends[block - 1] + i ELSE 0

NextByte(c, i) ==
  IF c.file_buffer # 0
  THEN ByteAt(c.file_buffer, c.file_index + i)
  ELSE ByteAt(c.position.block, c.position.byte + i)

\* Pass n bytes of the current block
Advance(c, n) ==
  [c EXCEPT !.file_index = @ + n,
            !.data_count = @ + n,
            !.position.byte = IF c.file_buffer = 0 THEN @ + n ELSE @]

\* Fault: the file position is set for the first block only
OpenWithoutSeek(c, b) ==
  LET zipped == blocks[b].kind = "DZ"
  IN  [c EXCEPT !.block_index = b,
                !.file_index = 0,
                !.file_buffer = IF zipped /\ blocks[b].size > 0 THEN b ELSE 0,
                !.position = IF zipped THEN Elsewhere
                             ELSE IF c.block_index = 0 THEN [block |-> b, byte |-> 0]
                             ELSE @]

\* Make b the current block
OpenBlock(c, b) ==
  LET zipped == blocks[b].kind = "DZ"
  IN  [c EXCEPT !.block_index = b,
                !.file_index = 0,
                !.file_buffer = IF zipped /\ blocks[b].size > 0 THEN b ELSE 0,
                !.position = IF zipped THEN Elsewhere ELSE [block |-> b, byte |-> 0]]

\* The block in which n bytes end that begin behind the current block, 0: none
Landing(c, n) ==
  LET lands == {b \in c.block_index + 1 .. Len(blocks) : n <= Ends[b] - Ends[c.block_index]}
  IN  IF lands = {} THEN 0 ELSE CHOOSE b \in lands : \A l \in lands : b <= l

\* The next n bytes of the current block
Bytes(c, n) == [i \in 1 .. n |-> NextByte(c, i)]

(***************************************************************************)
(* GetArray reads n bytes, across the blocks with GetNextByte, which opens *)
(* the next block when the current one is at its end.  It does so once per *)
(* byte: a block without data looks like the end of the data.  ok is FALSE *)
(* where GetArray throws; what it has read by then is of no use.           *)
(***************************************************************************)
GetArray(c, n) ==
  LET left   == BlockSize(c) - c.file_index
      b      == Landing(c, n - left)
      opened == c.block_index + 1 .. b
      last   == n - left - (Ends[b - 1] - Ends[c.block_index])
      middle == [k \in 1 .. b - 1 - c.block_index |->
                   LET m == c.block_index + k IN Bytes(OpenBlock(c, m), blocks[m].size)]
  IN  IF n <= left
      THEN [cache |-> Advance(c, n), bytes |-> Bytes(c, n), ok |-> TRUE]
      ELSE IF b = 0 \/ \E m \in opened : blocks[m].size = 0
      THEN [cache |-> c, bytes |-> <<>>, ok |-> FALSE]
      ELSE [cache |-> [Advance(OpenBlock(c, b), last) EXCEPT !.data_count = c.data_count + n],
            bytes |-> Bytes(c, left) \o FlattenSeq(middle) \o Bytes(OpenBlock(c, b), last),
            ok |-> TRUE]

\* Fault: bytes skipped in the current block are counted twice
SkipCountsTwice(c, n) ==
  LET rest == n - (BlockSize(c) - c.file_index)
      b    == Landing(c, rest)
  IN  IF rest <= 0 \/ b = 0 THEN [Advance(c, n) EXCEPT !.data_count = @ + n]
      ELSE Advance(OpenBlock(c, b), rest - (Ends[b - 1] - Ends[c.block_index]))

(***************************************************************************)
(* SkipBytes passes n bytes.  It steps over blocks without opening them and *)
(* counts the bytes of the last one only.  Past the last block it leaves    *)
(* the block but not its buffer and the file position.                      *)
(***************************************************************************)
SkipBytes(c, n) ==
  LET rest == n - (BlockSize(c) - c.file_index)
      b    == Landing(c, rest)
  IN  IF rest <= 0 THEN Advance(c, n)
      ELSE IF b # 0
      THEN Advance(OpenBlock(c, b), rest - (Ends[b - 1] - Ends[c.block_index]))
      ELSE IF c.block_index = Len(blocks) THEN Advance(c, rest)
      ELSE Advance([c EXCEPT !.block_index = Len(blocks), !.file_index = 0],
                   rest - (DataSize - Ends[c.block_index]))
=============================================================================

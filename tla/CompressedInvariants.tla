----------------------- MODULE CompressedInvariants -----------------------
(***************************************************************************)
(* The inductive invariants behind the safety properties of                *)
(* CompressedQueue.                                                        *)
(***************************************************************************)
EXTENDS CompressedQueue

\* The samples whose length is known
Sized == {s \in Samples : s.n \in 1 .. MaxSamples}

QueueTypes ==
  /\ now \in Times /\ argument \in Times /\ start_time \in Times
  /\ saved \in 0 .. MaxSamples
  /\ current \in DataGroups /\ cache \subseteq DataGroups
  /\ created \in Seq(DataGroups)
  /\ shape \in Shapes /\ hasDt \subseteq DataGroups
  /\ nof \in [DataGroups -> Nat]
  /\ queue \in [DataGroups -> Seq(Sized)]
  /\ hand \in Seq(Sized)
  /\ pc = "write" => Len(hand) = 1

InFlush == {"drain", "write", "close"}

\* The thread flushes a queue of the cache, and a measurement begins without it.
VisitInv ==
  /\ todo \subseteq cache
  /\ pc \in {"none", "wait", "clean"} => todo = {}
  /\ pc \in InFlush \union {"open", "lock"} => current \in todo
  /\ call = "initOpen" => pc = "none"

DataBlocks == [data : Seq(Sized), length : Nat, offset : Nat]

BlockTypes ==
  /\ offset \in [DataGroups -> Nat]
  /\ buffer \in [data : Seq(Sized), length : Nat]
  /\ dl \in Seq(DataBlocks)
  /\ stored \in [DataGroups -> Seq(DataBlocks)]
  /\ before \in [DataGroups -> Nat]

\* The offset of the next block, if n blocks are from before
EndOffset(blocks, n) ==
  IF Len(blocks) <= n THEN 0
  ELSE blocks[Len(blocks)].offset + blocks[Len(blocks)].length

\* offset_ is the end of the blocks a queue has made of its data group, in the
\* file and in the DL block being built.
BlockInv ==
  /\ pc \notin InFlush => dl = <<>> /\ buffer = EmptyBuffer
  /\ buffer.data = <<>> => buffer.length = 0
  /\ buffer.length < BufferMax \/ Len(buffer.data) = 1
  /\ \A d \in DataGroups : before[d] <= Len(stored[d])
  /\ OffsetsContiguous
  /\ BlocksBelowMax
  /\ \A d \in DataGroups : offset[d] = EndOffset(BlocksOf(d), before[d])

\* What the uncompressed writer would have in the file by now.  With WholeFile
\* for file, the invariants of MdfWriterInvariants hold of the compressed writer.
WholeFile == [d \in DataGroups |-> file[d] \o Collected(d)]

\* The last flush never decides to push a sample back
FinalizeInv ==
  /\ finalize \in BOOLEAN
  /\ file \in [DataGroups -> Seq(Samples)]
  /\ final /\ pc \in InFlush \union {"open", "lock"} => finalize
  /\ decision \in {"none", "purge", "pushBack"}
  /\ decision # "none" => pc = "write"
  /\ decision = "pushBack" => ~finalize

\* A data group has samples in its queue only while the queue is in the cache.
IdleInv == \A d \in DataGroups \ cache : queue[d] = <<>>
=============================================================================

-------------------------- MODULE DataBlockLayout --------------------------
(***************************************************************************)
(* Where the writer puts the records of an uncompressed MDF 4 file: a file *)
(* is a sequence of cells, each a block or a record, that only grows at    *)
(* its end.  A data group owns a DT block; its length, which the end of a  *)
(* flush sets to the distance to the end of the file, says which cells a   *)
(* reader takes for records of the group.                                  *)
(*                                                                         *)
(* The module adds the cells to every step of MdfWriter that writes.  The  *)
(* blocks of a data group, its channel groups included, are one cell.      *)
(***************************************************************************)
EXTENDS MdfWriter

ASSUME LayoutAssumption == WriterType = "Mdf4Basic" /\ ~CompressData

VARIABLES
  cells,     \* the file
  written,   \* the data groups whose blocks are in the file
  dt,        \* position of the DT block of each data group, 0 without one
  length,    \* the number of cells the DT block of a group spans on disk
  reused,    \* history: groups that got a queue in a second measurement
  finished   \* history: groups that began a measurement with samples in all
             \* their channel groups

layoutVars == <<cells, written, dt, length, reused, finished>>
lvars == <<vars, layoutVars>>

DtCell(d)        == [kind |-> "DT", owner |-> d, n |-> 0]
RecordCell(d, s) == [kind |-> "record", owner |-> d, n |-> s.n]
OtherCell        == [kind |-> "other", owner |-> "file", n |-> 0]

LayoutInit ==
  /\ Init
  /\ cells = <<>>
  /\ written = {}
  /\ dt = [d \in DataGroups |-> 0]
  /\ length = [d \in DataGroups |-> 0]
  /\ reused = {} /\ finished = {}

-----------------------------------------------------------------------------
(* A flush *)

\* CreateOrGetDt4: the first flush of a data group writes an empty DT block
LayoutOpenFile ==
  /\ OpenFile
  /\ IF dt[current] = 0
     THEN /\ cells' = Append(cells, DtCell(current))
          /\ dt' = [dt EXCEPT ![current] = Len(cells) + 1]
     ELSE UNCHANGED <<cells, dt>>
  /\ UNCHANGED <<written, length, reused, finished>>

\* SetLastPosition: a record goes to the end of the file
LayoutWriteSample ==
  /\ WriteSample
  /\ cells' = Append(cells, RecordCell(current, Head(hand)))
  /\ UNCHANGED <<written, dt, length, reused, finished>>

\* Fault: the block keeps the length it had before the flush
LengthBefore == length[current]

\* From the DT block to the end of the file
LengthToEnd == Len(cells) - dt[current]

\* UpdateBlockSize after the counters
LayoutUpdateAndClose ==
  /\ UpdateAndClose
  /\ length' = [length EXCEPT ![current] = LengthToEnd]
  /\ UNCHANGED <<cells, written, dt, reused, finished>>

LayoutWork ==
  /\ \/ LayoutOpenFile \/ LayoutWriteSample \/ LayoutUpdateAndClose
     \/ /\ \/ Wake \/ CleanAll \/ EndRound
           \/ \E d \in DataGroups :
                TrimStep(d) \/ SkipStep(d) \/ ResetStep(d) \/ SaveStep(d)
           \/ OpenFails \/ LockAndTrim \/ TakeSample \/ EndDrain
        /\ UNCHANGED layoutVars
  /\ UNCHANGED clientVars

-----------------------------------------------------------------------------
(* The configuration *)

\* The blocks of the data groups that are not in the file yet
LayoutInitWrites ==
  /\ InitWrites
  /\ cells' = cells \o [i \in 1 .. Cardinality(Configured \ written) |-> OtherCell]
  /\ written' = Configured
  /\ reused' = reused \union (Active \intersect written)
  /\ finished' = finished \union {d \in Configured : unused[d] = {}}
  /\ UNCHANGED <<dt, length>>

\* Events, attachments and signal data the client has added meanwhile
LayoutFinalizeWrites ==
  /\ FinalizeWrites
  /\ \E other \in {<<>>, <<OtherCell>>} : cells' = cells \o other
  /\ UNCHANGED <<written, dt, length, reused, finished>>

LayoutCallContinues ==
  \/ LayoutInitWrites \/ LayoutFinalizeWrites
  \/ /\ \/ InitExit \/ InitFails \/ StartSetsTime \/ StartReturns \/ StopExit
        \/ \E d \in DataGroups : StartRecalculates(d)
     /\ UNCHANGED layoutVars

LayoutClient ==
  \/ LayoutCallContinues
  \/ /\ \/ InitMeasurement \/ FinalizeMeasurement
        \/ \E t \in Clock : StartMeasurement(t)
        \/ \E t \in FirstTime .. MaxTime : StopMeasurement(t)
        \/ \E d \in DataGroups : CreateDataGroup(d)
        \/ \E d \in DataGroups, t \in Clock : SaveSample(d, t)
     /\ UNCHANGED layoutVars

LayoutNext == LayoutClient \/ LayoutWork

LayoutSpec == LayoutInit /\ [][LayoutNext]_lvars

-----------------------------------------------------------------------------
(* Safety *)

\* The cells a reader finds in the data block of a data group
Extent(d) == SubSeq(cells, dt[d] + 1, dt[d] + length[d])

OwnRecords(d) == [i \in DOMAIN file[d] |-> RecordCell(d, file[d][i])]

IsRecordOf(cell, d) == cell.kind = "record" /\ cell.owner = d

\* Outside a flush a reader finds every record of a data group, once and in the
\* order the samples were saved, whatever else lies between them: no flush
\* leaves a record behind the length of its DT block.
RecordsReachable ==
  users = {} =>
    \A d \in DataGroups :
      LET own == {i \in DOMAIN Extent(d) : IsRecordOf(Extent(d)[i], d)}
      IN  /\ {Extent(d)[i] : i \in own} = {RecordCell(d, file[d][k]) : k \in DOMAIN file[d]}
          /\ \A i, j \in own : i < j => Extent(d)[i].n < Extent(d)[j].n

\* Outside a flush a data block spans the records of its group and nothing
\* else, as long as no group got a queue a second time because a channel group of
\* it had stayed empty: the queues of one measurement do not interleave their
\* records in the file, and the blocks of later groups and of
\* FinalizeMeasurement stay out of it.
DataBlocksExact ==
  users = {} /\ reused = {} => \A d \in DataGroups : Extent(d) = OwnRecords(d)

\* A data group whose channel groups all have samples when a measurement begins
\* is final: no flush or measurement from then on, of whatever other groups,
\* changes what a reader finds in it.
FinishedGroupsStay == [][\A d \in finished : Extent(d)' = Extent(d)]_lvars

-----------------------------------------------------------------------------
(* What the comments say of the program *)

\* dg4block.cpp: the DT block that records are appended to is the last block of
\* the file, so that a data block spans no block of another owner.
OwnDataOnly ==
  \A d \in DataGroups : \A i \in DOMAIN Extent(d) : Extent(d)[i].owner = d
=============================================================================

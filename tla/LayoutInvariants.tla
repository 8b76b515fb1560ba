------------------------- MODULE LayoutInvariants -------------------------
(***************************************************************************)
(* The inductive invariants behind the properties of DataBlockLayout.      *)
(***************************************************************************)
EXTENDS DataBlockLayout, MdfWriterInvariants

Cells == [kind : {"DT", "record", "other"}, owner : DataGroups \union {"file"}, n : Nat]

-----------------------------------------------------------------------------
(* FinishedGroupsStay *)

\* Data blocks lie inside the file, and a data group that is finished has no
\* channel group without samples and therefore no queue.
StayInv ==
  /\ cells \in Seq(Cells)
  /\ dt \in [DataGroups -> Nat] /\ length \in [DataGroups -> Nat]
  /\ \A d \in DataGroups : dt[d] + length[d] <= Len(cells)
  /\ \A d \in DataGroups : dt[d] = 0 => length[d] = 0
  /\ pc \in InFile => dt[current] # 0
  /\ finished \subseteq DataGroups \ cache
  /\ \A d \in finished : unused[d] = {}

-----------------------------------------------------------------------------
(* RecordsReachable *)

RecordsAt(d) == {i \in 1 .. Len(cells) : IsRecordOf(cells[i], d)}

\* The cells of a data group hold its samples in their order, behind its DT
\* block and, but for the flush that is going on, within its length.
ReachInv ==
  \A d \in DataGroups :
    /\ \A k \in 1 .. Len(file[d]) :
         \E i \in RecordsAt(d) : cells[i] = RecordCell(d, file[d][k])
    /\ \A i \in RecordsAt(d) :
         \E k \in 1 .. Len(file[d]) : cells[i] = RecordCell(d, file[d][k])
    /\ \A i, j \in RecordsAt(d) : i < j => cells[i].n < cells[j].n
    /\ \A i \in RecordsAt(d) : 0 < dt[d] /\ dt[d] < i
    /\ \A i \in RecordsAt(d) : i <= dt[d] + length[d] \/ (d = current /\ pc \in InFile)

-----------------------------------------------------------------------------
(* DataBlocksExact, for a client that keeps to the documented order *)

\* The data groups in the file are the first ones, those with a queue are among
\* them, and only these get a DT block and records.
WrittenInv ==
  /\ \E w \in 0 .. Len(created) :
       /\ written = {created[i] : i \in 1 .. w}
       /\ \A i \in w + 1 .. Len(created) : created[i] \notin written
  /\ cache \subseteq written
  /\ \A d \in DataGroups : dt[d] # 0 => d \in written
  /\ \A d \in DataGroups : dt[d] = 0 => nof[d] = 0 /\ unused[d] = ChannelGroups
  /\ pc \in InFile \union {"open"} /\ ~final => SavePeriodic

\* The records of d follow its DT block
Follow(d) ==
  /\ dt[d] + Len(file[d]) <= Len(cells)
  /\ \A i \in 1 .. Len(file[d]) : cells[dt[d] + i] = RecordCell(d, file[d][i])

IsLast(d) == Len(cells) = dt[d] + Len(file[d])

\* A queue that this thread may visit again
MayBeVisited(d) == pc # "none" /\ (final => d \in todo)

\* With periodic saves there is no second queue
OneQueue == SavePeriodic => \A d, e \in cache : d = e

\* Only the flush that is going on leaves a length behind
Spanned ==
  \A d \in DataGroups : length[d] # Len(file[d]) => d = current /\ pc \in InFile

\* A queue has either no DT block yet or the last one of the file whenever the
\* thread visits it.
LastWhenVisited ==
  \A d \in cache :
    dt[d] # 0 /\ MayBeVisited(d) =>
      IsLast(d) /\ (SavePeriodic \/ (d = current /\ pc \in InFile))

\* As long as no group takes part in a second measurement: with periodic saves
\* there is one queue, without them each queue is visited once.
LastInv ==
  reused = {} =>
    /\ OneQueue
    /\ \A d \in DataGroups : Follow(d)
    /\ Spanned
    /\ pc \in InFile => IsLast(current)
    /\ LastWhenVisited
=============================================================================

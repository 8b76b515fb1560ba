------------------------ MODULE MdfWriterInvariants ------------------------
(***************************************************************************)
(* The inductive invariants behind the safety properties of MdfWriter:     *)
(* each implies the property it is named for, and every step keeps it.     *)
(***************************************************************************)
EXTENDS MdfWriter

InFile == {"lock", "drain", "write", "close"}

-----------------------------------------------------------------------------
(* FileExclusive, for a client that keeps to the documented order *)

\* The thread is in the file exactly between its Open and its Close, the client
\* exactly inside FinalizeMeasurement, which it calls when there is no thread.
FileInv ==
  /\ "worker" \in users <=> pc \in InFile
  /\ "client" \in users <=> call = "finalizeWrite"
  /\ call = "finalizeWrite" => write_state = "StopMeas"
  /\ call = "initOpen" => pc = "none"
  /\ write_state \in {"Create", "StopMeas", "Finalize"} => pc = "none"

-----------------------------------------------------------------------------
(* HeaderCounts *)

\* The counters in memory are exact; those on disk may lag only for the queue
\* the thread is storing.
CountInv ==
  /\ \A d \in DataGroups : nof[d] = Len(file[d])
  /\ \A d \in DataGroups : header[d] # nof[d] => d = current /\ pc \in InFile
  /\ "worker" \in users <=> pc \in InFile
  /\ pc = "write" => Len(hand) = 1
  /\ call = "initOpen" => pc = "none"

-----------------------------------------------------------------------------
(* Fifo *)

\* Every sample of a was saved before every sample of b
Before(a, b) == \A i \in 1 .. Len(a), j \in 1 .. Len(b) : a[i].n < b[j].n

UpTo(seq, n) == \A i \in 1 .. Len(seq) : seq[i].n <= n

Chain(f, h, q) ==
  /\ InOrder(f) /\ InOrder(h) /\ InOrder(q)
  /\ Before(f, h) /\ Before(h, q) /\ Before(f, q)

\* File, hand and queue are each in order and one before the other, and nothing
\* in them has a number that was not given out.
OrderInv ==
  /\ \A d \in DataGroups : Chain(file[d], Hand(d), queue[d])
  /\ \A d \in DataGroups :
       UpTo(file[d], saved) /\ UpTo(Hand(d), saved) /\ UpTo(queue[d], saved)
  /\ pc # "write" => hand = <<>>
  /\ call = "initOpen" => pc = "none"

-----------------------------------------------------------------------------
(* StopLosesNothing *)

Flushed(d) == Pending(d) = <<>> \/ d \in unflushed

\* In its last block the thread has flushed what it has visited and nothing is
\* saved any more; a thread that ended has flushed every queue.
FlushInv ==
  /\ stop_thread <=> call \in {"stopExit", "initExit"}
  /\ final => stop_thread /\ pc \notin {"none", "wait", "clean"}
  /\ pc = "clean" => stop_thread
  /\ todo \subseteq cache
  /\ pc \in {"none", "wait", "clean"} => todo = {}
  /\ pc \in InFile \union {"open"} => current \in todo
  /\ pc # "write" => hand = <<>>
  /\ pc # "none" => stop_time = 0
  /\ stopAt = 0
  /\ call = "initOpen" => pc = "none" /\ cache = {} /\ \A d \in DataGroups : queue[d] = <<>>
  /\ pc = "none" /\ cache # {} => stop_thread
  /\ final => \A d \in cache \ todo : Flushed(d)
  /\ pc = "none" => \A d \in cache : Flushed(d)
  /\ final /\ pc = "close" => queue[current] = <<>>

-----------------------------------------------------------------------------
(* QueueRelative, for a client that keeps to the documented order *)

\* No queue knows its master channels before the start time is stored
RelativeInv ==
  /\ QueueRelative
  /\ write_state # "StartMeas" => masters = {}
  /\ call \in {"initOpen", "startTime"} => masters = {}
  /\ call \in {"startTime", "startRecalculate", "stopExit"} => write_state = "StartMeas"
  /\ call \in {"initExit", "initOpen", "finalizeWrite"} => write_state # "StartMeas"

-----------------------------------------------------------------------------
(* PreTrigKept, for a client that keeps to the documented order and does not *)
(* save samples while StartMeasurement runs                                  *)

\* Times do not decrease and are not later than t
InTime(seq, t) ==
  /\ \A i, j \in 1 .. Len(seq) : i <= j => seq[i].ts <= seq[j].ts
  /\ \A i \in 1 .. Len(seq) : seq[i].ts <= t

\* The start time is 0 until StartMeasurement stores the present time in it.
StartInv ==
  /\ now >= FirstTime
  /\ \A d \in DataGroups : InTime(accepted[d], now)
  /\ write_state = "Init" => start_time = 0
  /\ write_state = "StartMeas" /\ call # "startTime" => start_time > PreTrig
  /\ call = "startTime" =>
       write_state = "StartMeas" /\ start_time = 0 /\ argument = now
  /\ call \in {"startRecalculate", "stopExit"} => write_state = "StartMeas"
  /\ call \in {"initExit", "initOpen", "finalizeWrite"} =>
       write_state \notin {"Init", "StartMeas"}

\* The start time, or the earliest it can become
Start ==
  IF write_state = "Init" THEN now
  ELSE IF call = "startTime" THEN argument ELSE start_time

\* A queue is what is left of the samples put into it
Follows(q, a) ==
  /\ Len(q) <= Len(a)
  /\ \A i \in 1 .. Len(q) :
       LET j == Len(a) - Len(q) + i IN q[i].n = a[j].n /\ q[i].ts = a[j].ts

NumbersOf(seq) == {seq[i].n : i \in 1 .. Len(seq)}

Held(d) == NumbersOf(file[d])

\* Of the first k samples of a, each is held or followed by one that lies
\* before the pre-trigger time
Accounted(a, k, held, start) ==
  \A j \in 1 .. k :
    a[j].n \in held \/ (j < Len(a) /\ a[j + 1].ts < start - PreTrig)

\* The samples that have left a queue and the thread's hand are stored, or were
\* not needed, and will not be needed for any start time still possible.
KeptInv ==
  write_state \in {"Init", "StartMeas"} =>
    \A d \in cache :
      /\ Follows(Pending(d), accepted[d])
      /\ Accounted(accepted[d], Len(accepted[d]) - Len(Pending(d)), Held(d), Start)
-----------------------------------------------------------------------------
(* ImplementsRecorder, for the same client                                   *)

\* The thread is in the file in a started measurement only.  Then a queue that
\* has records of it, and is not being stored, has nothing older than the start
\* time: what the pre-trigger time might make superfluous is in the file.
SettledInv ==
  /\ \A d \in DataGroups \ cache : queue[d] = <<>>
  /\ pc \in InFile \union {"open"} => write_state = "StartMeas"
  /\ write_state = "StartMeas" /\ call # "startTime" => start_time <= now
  /\ \A d \in cache :
       Begun(d) /\ ~(d = current /\ pc \in {"drain", "write"}) =>
         /\ write_state # "Init"
         /\ call = "startTime" => queue[d] = <<>>
         /\ \A i \in 1 .. Len(queue[d]) : queue[d][i].ts >= start_time
-----------------------------------------------------------------------------
(* ImplementsRecorder, for the writer with compression                       *)

StampsOf(seq) == {<<seq[i].n, seq[i].ts>> : i \in 1 .. Len(seq)}

\* The number and the time of every sample of a data group
Stamps(d) == StampsOf(file[d]) \union StampsOf(Hand(d)) \union StampsOf(queue[d])

\* Over all measurements, what was saved later has no earlier time.
TimeInv ==
  \A d \in DataGroups :
    /\ \A x \in Stamps(d) : x[1] <= saved /\ x[2] <= now
    /\ \A x, y \in Stamps(d) : x[1] <= y[1] => x[2] <= y[2]
=============================================================================

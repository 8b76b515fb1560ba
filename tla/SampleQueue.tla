---------------------------- MODULE SampleQueue ----------------------------
(***************************************************************************)
(* The queue of sample records of one data group, as a value: what the     *)
(* operations of mdf::detail::SampleQueue compute.  Threads, locks and the *)
(* file are in WriteCache.                                                 *)
(*                                                                         *)
(* A sample keeps of a SampleRecord what the recording guarantees speak    *)
(* of: n numbers the samples in the order they were saved, ts is its       *)
(* absolute time stamp, and base is the start time its master channel      *)
(* value was made relative to.  A base of 0 is a master channel that still *)
(* holds the absolute time.                                                *)
(***************************************************************************)
EXTENDS Integers, Sequences, FiniteSets

CONSTANTS
  Word,     \* number of values of a uint64_t, 2^64 in the code
  PreTrig   \* PreTrigTimeNs(), the pre-trigger time

ASSUME WordAssumption    == Word \in Nat \ {0}
ASSUME PreTrigAssumption == PreTrig \in 0 .. Word - 1

Times   == 0 .. Word - 1
Samples == [n : Nat, ts : Times, base : Times]

\* uint64_t subtraction wraps around
Minus(a, b) == (a - b) % Word

\* Fault: the sample is pushed in front
AddSampleInFront(q, s) == <<s>> \o q

AddSample(q, s) == Append(q, s)

\* Fault: the test looks at the first sample instead of the one after it
StopsTrimLate(q, i, start) ==
  \/ i = Len(q)
  \/ start > 0 /\ q[i].ts >= Minus(start, PreTrig)
  \/ start = 0 /\ Minus(q[Len(q)].ts, q[i].ts) <= PreTrig

(***************************************************************************)
(* TrimQueue pops the first sample while the second one is not needed: it  *)
(* lies before the pre-trigger time of a started measurement or, before    *)
(* the start, the queue still spans the pre-trigger time without the first *)
(* sample.  A queue of one sample is left alone.                           *)
(***************************************************************************)
StopsTrim(q, i, start) ==
  \/ i = Len(q)
  \/ start > 0 /\ q[i + 1].ts >= Minus(start, PreTrig)
  \/ start = 0 /\ Minus(q[Len(q)].ts, q[i + 1].ts) <= PreTrig

Popped(q, start) ==
  Cardinality({i \in 1 .. Len(q) : \A j \in 1 .. i : ~StopsTrim(q, j, start)})

TrimQueue(q, start) == SubSeq(q, Popped(q, start) + 1, Len(q))

\* Fault: the unsigned difference, taken the wrong way round
RelativeReversed(s, start) == [s EXCEPT !.base = start - s.ts]

\* The master channel value of one record, and of every record of a queue
Relative(s, start) == [s EXCEPT !.base = start]

RecalculateTimeMaster(q, start) == [i \in DOMAIN q |-> Relative(q[i], start)]

\* Fault: a new sample is left to the next RecalculateTimeMaster
RecalculateLater(s, knowsMaster, start) == s

\* A new sample is made relative only if the queue knows its master channel
RecalculateTime(s, knowsMaster, start) ==
  IF knowsMaster THEN Relative(s, start) ELSE s

\* The filter of CleanQueue: the sample was taken after the measurement ended
IsAfterStop(s, stop) == stop > 0 /\ s.ts > stop
=============================================================================

------------------------------ MODULE Recorder ------------------------------
(***************************************************************************)
(* What the writer promises of the samples it is given: a measurement with *)
(* pre-trigger buffering records, for each data group, an unbroken tail of *)
(* the samples saved, in the order they were saved.                        *)
(*                                                                         *)
(* The number of a sample stands for the sample.  A buffer may forget its  *)
(* oldest samples only as long as the record of its group has not begun:   *)
(* the sample it begins with may be any, after it none is missing.  When a *)
(* record begins is for the writer to say.  The buffers are dropped at the *)
(* end of a measurement, empty unless the medium failed.                   *)
(***************************************************************************)
EXTENDS Naturals, Sequences

CONSTANT Groups

VARIABLES
  log,     \* numbers of the recorded samples
  buffer,  \* numbers of the samples not recorded yet
  last,    \* number of the last sample saved
  begun,   \* groups whose record has begun, an input of this specification
  failed   \* groups whose buffer could not be recorded

recorderVars == <<log, buffer, last, failed>>

RecorderInit ==
  /\ log = [g \in Groups |-> <<>>]
  /\ buffer = [g \in Groups |-> <<>>]
  /\ last = 0
  /\ failed = {}

\* A sample is saved: it enters the buffers of the groups that are recorded
Save(gs) ==
  /\ last' = last + 1
  /\ buffer' = [g \in Groups |-> IF g \in gs THEN Append(buffer[g], last') ELSE buffer[g]]
  /\ UNCHANGED <<log, failed>>

\* Pre-trigger: only the newest samples are worth keeping
Forget(g) ==
  /\ g \notin begun
  /\ \E k \in 2 .. Len(buffer[g]) :
       buffer' = [buffer EXCEPT ![g] = SubSeq(@, k, Len(@))]
  /\ UNCHANGED <<log, last, failed>>

\* The oldest samples of a buffer are recorded, as many as the writer stores
\* in one step
Record(g) ==
  /\ \E k \in 1 .. Len(buffer[g]) :
       /\ log' = [log EXCEPT ![g] = @ \o SubSeq(buffer[g], 1, k)]
       /\ buffer' = [buffer EXCEPT ![g] = SubSeq(@, k + 1, Len(@))]
  /\ UNCHANGED <<last, failed>>

Fail(g) ==
  /\ failed' = failed \union {g}
  /\ UNCHANGED <<log, buffer, last>>

End ==
  /\ \A g \in Groups \ failed : buffer[g] = <<>>
  /\ buffer' = [g \in Groups |-> <<>>]
  /\ UNCHANGED <<log, last, failed>>

Begin ==
  /\ \A g \in Groups : buffer[g] = <<>>
  /\ failed' = {}
  /\ UNCHANGED <<log, buffer, last>>

RecorderNext ==
  \/ \E gs \in SUBSET Groups : Save(gs)
  \/ \E g \in Groups : Forget(g) \/ Record(g) \/ Fail(g)
  \/ End
  \/ Begin

RecorderSpec == RecorderInit /\ [][RecorderNext]_recorderVars
=============================================================================

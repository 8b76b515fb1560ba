----------------------------- MODULE FlatReader -----------------------------
(***************************************************************************)
(* What a read promises: the caller is given what it wants, in the order   *)
(* of the file and nothing else, until it says stop or has everything; and *)
(* the read returns.                                                       *)
(***************************************************************************)
EXTENDS Naturals, Sequences

VARIABLES
  wanted,    \* what the caller wants of the file
  log,       \* what it was given
  stopped,   \* whether the caller said stop
  returned   \* whether the read has returned

vars == <<wanted, log, stopped, returned>>

Init ==
  /\ log = <<>>
  /\ ~stopped
  /\ ~returned

Deliver ==
  /\ ~returned
  /\ Len(log) < Len(wanted)
  /\ log' = Append(log, wanted[Len(log) + 1])
  /\ stopped' \in BOOLEAN
  /\ returned' \in {stopped', stopped' \/ log' = wanted}
  /\ UNCHANGED wanted

Return ==
  /\ ~returned
  /\ log = wanted
  /\ returned' = TRUE
  /\ UNCHANGED <<wanted, log, stopped>>

Next == Deliver \/ Return

Spec == Init /\ [][Next]_vars /\ <>returned
=============================================================================

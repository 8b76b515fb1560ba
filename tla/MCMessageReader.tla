--------------------------- MODULE MCMessageReader ---------------------------
(***************************************************************************)
(* MessageReader for TLC: a group, the group of its VLSD records and a     *)
(* third group in between, in one data block.                              *)
(***************************************************************************)
EXTENDS MessageReader

Logged == [fixed |-> {1, 3}, vlsd |-> {2}, size |-> 1, id |-> 1, blocks |-> 1]

MCLayouts == {Logged}
=============================================================================

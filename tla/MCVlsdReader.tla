---------------------------- MODULE MCVlsdReader ----------------------------
(***************************************************************************)
(* VlsdReader for TLC: two VLSD channel groups among fixed records, and    *)
(* signal data of a channel in up to three blocks.                         *)
(***************************************************************************)
EXTENDS VlsdReader

VlsdGroup == [fixed |-> {1}, vlsd |-> {2, 3}, size |-> 2, id |-> 1, blocks |-> 2]
Signal    == [fixed |-> {}, vlsd |-> {1}, size |-> 0, id |-> 0, blocks |-> 3]

MCLayouts == {VlsdGroup, Signal}
=============================================================================

--------------------------- MODULE MCSampleReader ---------------------------
(***************************************************************************)
(* SampleReader for TLC: a data group with a fixed and a VLSD channel      *)
(* group, and one without record ids whose records are longer than a       *)
(* block.                                                                  *)
(***************************************************************************)
EXTENDS SampleReader

Unsorted == [fixed |-> {1}, vlsd |-> {2}, size |-> 2, id |-> 1, blocks |-> 2]
Sorted   == [fixed |-> {1}, vlsd |-> {}, size |-> 3, id |-> 0, blocks |-> 3]

MCLayouts == {Unsorted, Sorted}
=============================================================================

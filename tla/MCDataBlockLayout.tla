-------------------------- MODULE MCDataBlockLayout --------------------------
(***************************************************************************)
(* DataBlockLayout on small instances: two data groups of two channel      *)
(* groups, any of which may stay empty in the first of two measurements.   *)
(* No definition tells one data group or channel group from another.       *)
(***************************************************************************)
EXTENDS DataBlockLayout, TLC

Symmetry == Permutations(DataGroups) \union Permutations(ChannelGroups)
=============================================================================

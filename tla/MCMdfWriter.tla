---------------------------- MODULE MCMdfWriter ----------------------------
(***************************************************************************)
(* MdfWriter on small instances.  Time stamps go from 1 to MaxTime and the *)
(* clock words are wide enough that only a wrong subtraction wraps.        *)
(***************************************************************************)
EXTENDS MdfWriter

=============================================================================

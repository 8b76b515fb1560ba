-------------------------- MODULE MCCompressedQueue --------------------------
(***************************************************************************)
(* CompressedQueue on a small instance.  Records of one byte and ids of    *)
(* one byte: a block, below 6 bytes, has room for two samples without VLSD *)
(* data or for one with them, of which it then holds 5 bytes or 2.         *)
(***************************************************************************)
EXTENDS CompressedQueue

Fixed == [record |-> 1, vlsd |-> 0, storage |-> "fixed"]
InCg  == [record |-> 1, vlsd |-> 1, storage |-> "cg"]
InSd  == [record |-> 1, vlsd |-> 1, storage |-> "sd"]

MCShapes == {<<Fixed, Fixed, Fixed, Fixed>>, <<InSd, InCg, InCg, Fixed>>,
             <<Fixed, InCg, InSd, Fixed>>}

=============================================================================

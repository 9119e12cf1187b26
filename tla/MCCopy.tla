------------------------------- MODULE MCCopy -------------------------------
(***************************************************************************)
(* Every call on a ring of four blocks of four bytes: frames of every      *)
(* length from the shortest to the whole ring, at every block, with and    *)
(* without a time stamp, an HSR tag and the collision buffer.              *)
(***************************************************************************)
EXTENDS PruethFrameCopy
=============================================================================

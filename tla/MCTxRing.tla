------------------------------ MODULE MCTxRing ------------------------------
(***************************************************************************)
(* A ring of a few blocks and two payloads: frames that wrap around, end   *)
(* at the last block, fill the ring and do not fit all occur within a few  *)
(* steps.                                                                  *)
(***************************************************************************)
EXTENDS PruethTxRing

CONSTANTS a, b

MCPayload == {a, b}
=============================================================================

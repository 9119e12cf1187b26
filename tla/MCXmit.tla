------------------------------- MODULE MCXmit -------------------------------
(***************************************************************************)
(* Two rings of one frame, and frames of both priorities: a ring is full   *)
(* as soon as a frame is in it, and a frame of the other priority can be   *)
(* finished while the queue is stopped.                                    *)
(***************************************************************************)
EXTENDS EmacXmit, TLC

CONSTANTS s1, s2, s3, high, low

MCSkbs == {s1, s2, s3}
MCQueues == {high, low}
MCQueueOf == (s1 :> low) @@ (s2 :> low) @@ (s3 :> high)
=============================================================================

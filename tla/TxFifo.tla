------------------------------- MODULE TxFifo -------------------------------
(***************************************************************************)
(* What a transmit queue of the PRU ethernet driver promises its user: the *)
(* frames handed to it leave on the wire once each, whole, and in the      *)
(* order they were handed over.                                            *)
(*                                                                         *)
(* The promise of prueth_tx_enqueue() is conditional: a frame that fills   *)
(* the ring to the last block leaves it indistinguishable from an empty    *)
(* one, and from then on nothing is promised.  ok says that this has not   *)
(* happened yet.                                                           *)
(***************************************************************************)
EXTENDS Sequences

CONSTANTS Frames,   \* the frames a user may hand over
          Nothing   \* what the wire has carried before the first frame

VARIABLES queue,    \* the frames handed over and not yet on the wire
          wire,     \* the last frame put on the wire
          ok        \* the promise holds

vars == <<queue, wire, ok>>

Init == queue = <<>> /\ wire = Nothing /\ ok = TRUE

Put(f) ==
  /\ ok
  /\ queue' = Append(queue, f)
  /\ UNCHANGED <<wire, ok>>

Transmit ==
  /\ ok
  /\ queue # <<>>
  /\ wire' = Head(queue)
  /\ queue' = Tail(queue)
  /\ UNCHANGED ok

\* The promise ends, and is not made again.
Overrun == ok' = FALSE

Next == (\E f \in Frames : Put(f)) \/ Transmit \/ Overrun

Spec == Init /\ [][Next]_vars
=============================================================================

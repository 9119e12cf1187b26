-------------------------------- MODULE MCRx --------------------------------
(***************************************************************************)
(* Two ports and two host queues of three slots, of which two can be in    *)
(* use: one host queue for each port as dual EMAC, both of them for both   *)
(* ports as a switch.                                                      *)
(***************************************************************************)
EXTENDS PruethRx

MCQueue == [p \in Ports |-> p]
=============================================================================

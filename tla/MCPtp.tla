------------------------------- MODULE MCPtp --------------------------------
(***************************************************************************)
(* Two messages of the host and one that is cut through, all of one type,  *)
(* for which everything is shared; a second type gives the thread a second *)
(* round.                                                                  *)
(***************************************************************************)
EXTENDS PruethPtp, TLC

CONSTANTS sync1, sync2, ct1

MCTx == {sync1, sync2}
MCCt == {ct1}
MCEvent == [s \in MCTx \cup MCCt |-> 1]
=============================================================================

------------------------------- MODULE MCPort -------------------------------
(***************************************************************************)
(* Both ports and two bridges, on the SoC with firmware for the switch.    *)
(***************************************************************************)
EXTENDS PruethPort

CONSTANTS br0, br1

MCBridges == {br0, br1}
MCAm57 == Modes
MCAllIrqs == {"rx", "tx", "ptp"}
MCAllFails == Steps
\* Behaviours are followed until the mode changes under an open port: no
\* property promises anything from there on.
UntilStale == ~stale
=============================================================================

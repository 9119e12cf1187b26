------------------------------ MODULE MCFilter ------------------------------
(***************************************************************************)
(* Three addresses, two of them in one bin; a port without any group, with *)
(* one, with two, with all of them, and in promiscuous mode.               *)
(***************************************************************************)
EXTENDS PruethFilter, TLC

CONSTANTS a, b, c

MCAddrs == {a, b, c}
MCHash == a :> 0 @@ b :> 0 @@ c :> 1
MCWishes ==
  {[list |-> {}, promisc |-> FALSE, allmulti |-> FALSE],
   [list |-> {a}, promisc |-> FALSE, allmulti |-> FALSE],
   [list |-> {a, c}, promisc |-> TRUE, allmulti |-> FALSE],
   [list |-> {c}, promisc |-> FALSE, allmulti |-> TRUE]}
=============================================================================

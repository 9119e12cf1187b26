----------------------------- MODULE MCLogRing -----------------------------
(***************************************************************************)
(* A ring of 10 bytes, to be made 14 while the kernel boots; records of    *)
(* two to four bytes, so that two or more fit and the third or fourth      *)
(* wraps.  Two callers; whole lines, lines begun, continued until they are *)
(* too long, ended, and interrupted by the other caller.  A message of the *)
(* first caller has a newline in it: with a time stamp in front of each,   *)
(* its two lines do not fit into text[].                                   *)
(***************************************************************************)
EXTENDS LogRing

Msg(w, n, breaks, newline, c) ==
  [who |-> w, len |-> n, breaks |-> breaks, newline |-> newline, cont |-> c]

MCMessages == {Msg(1, 1, {}, FALSE, TRUE), Msg(1, 2, {1}, TRUE, TRUE), Msg(2, 2, {}, TRUE, TRUE)}
=============================================================================

----------------------------- MODULE MCConsole -----------------------------
(***************************************************************************)
(* Two tasks and the irq_work.  A console is registered that wants the old *)
(* messages while another is stopped, or while the system suspends; or a   *)
(* console takes over from a boot console; or the system prints more while *)
(* suspended than the log holds.                                           *)
(***************************************************************************)
EXTENDS Console

Tty == <<<<"register", "tty">>>>
SuspendResume == <<Say, <<"suspend", None>>, <<"resume", None>>>>
SuspendSayResume == <<<<"suspend", None>>, Say, Say, Say, <<"resume", None>>, Say>>
StopStart(c) == <<<<"stop", c>>, <<"start", c>>>>

MCScenarios ==
  {[start |-> {"serial"}, programs |-> {Tty, SuspendResume}],
   [start |-> {"serial"}, programs |-> {Tty, StopStart("serial")}],
   [start |-> {"early"}, programs |-> {Tty}],
   [start |-> {"serial"}, programs |-> {SuspendSayResume}]}
=============================================================================

------------------------------ MODULE PruethPtp ------------------------------
(***************************************************************************)
(* The transmit time stamps of PTP event messages on one port.  The driver *)
(* keeps a reference to a message until the firmware has sent it, written  *)
(* the time of its departure to shared RAM, one place for every type of    *)
(* message, set the notification of the type and raised the PTP interrupt; *)
(* the thread of the interrupt then hands the time to the sender.          *)
(*                                                                         *)
(* With HSR the firmware also forwards messages from the other port past   *)
(* the host (cut through) and stamps them in the same places; the receive  *)
(* path of the other port wants these stamps for its copy of the message.  *)
(*                                                                         *)
(* The transmit path, the receive path of the other port and the interrupt *)
(* thread interleave; emac->ptp_skb_lock guards the two tables of waiting  *)
(* messages and nothing else.  A time stamp is the message it belongs to.  *)
(***************************************************************************)
EXTENDS Integers, Sequences, FiniteSets, SequencesExt

CONSTANTS TxSkbs,    \* the event messages the host sends, once each
          CtSkbs,    \* the event messages received on the other port, once each
          NumEvents, \* PRUETH_PTP_TS_EVENTS
          Event,     \* the type of every message
          None       \* no message, no time stamp

Skbs == TxSkbs \cup CtSkbs
Events == 1 .. NumEvents

ASSUME PtpAssumption ==
  /\ NumEvents \in Nat \ {0}
  /\ \A s \in Skbs : Event[s] \in Events
  /\ TxSkbs \cap CtSkbs = {}
  /\ None \notin Skbs

VARIABLES hsr,        \* PRUETH_IS_HSR
          up,         \* the port is open
          enabled,    \* prueth_ptp_tx_ts_is_enabled()
          ptp_skb,    \* emac->ptp_skb: the message of every type that waits
          ptp_ct_skb, \* emac->ptp_ct_skb: the same for cut-through messages
          refs,       \* the references to every message
          ts,         \* the places of the time stamps
          notify,     \* the notifications
          raised,     \* the PTP interrupt is raised
          hw,         \* the messages in the rings of the port
          tx,         \* prueth_tx_enqueue() and its caller
          rx,         \* the receive path of the other port
          thread,     \* prueth_ptp_tx_irq_work()
          \* history
          used,       \* the messages that have been sent or received
          forwarded,  \* the cut-through messages the firmware has forwarded
          stamped,    \* message and time stamp of everything handed over
          dropped,    \* the messages that have been dropped waiting
          overlap,    \* a message was sent with another of its type under way
          missed      \* the types of which the driver has missed a notification

ram     == <<ts, notify, raised>>
tables  == <<ptp_skb, ptp_ct_skb>>
mode    == <<hsr, up, enabled>>
history == <<used, forwarded, stamped, dropped, overlap, missed>>
vars    == <<mode, tables, refs, ram, hw, tx, rx, thread, history>>

TxIdle == [pc |-> "idle", skb |-> None]
RxIdle == [pc |-> "idle", skb |-> None, ns |-> None]
ThreadIdle == [pc |-> "idle", i |-> 1, mask |-> FALSE, skb |-> None,
               ct |-> FALSE, ns |-> None]
Empty == [e \in Events |-> None]
Quiet == [e \in Events |-> FALSE]

Init ==
  /\ hsr \in BOOLEAN
  /\ up = TRUE
  /\ enabled = FALSE
  /\ ptp_skb = Empty /\ ptp_ct_skb = Empty
  /\ refs = [s \in Skbs |-> 0]
  /\ ts = Empty /\ notify = Quiet /\ raised = FALSE
  /\ hw = <<>>
  /\ tx = TxIdle /\ rx = RxIdle /\ thread = ThreadIdle
  /\ used = {} /\ forwarded = {} /\ stamped = {} /\ dropped = {}
  /\ overlap = FALSE /\ missed = {}

Get(s) == refs' = [refs EXCEPT ![s] = @ + 1]
Put(s) == refs' = [refs EXCEPT ![s] = @ - 1]

\* SIOCSHWTSTAMP: the user switches transmit time stamps on or off.
emac_hwtstamp_config_set(on) ==
  /\ up
  /\ enabled # on
  /\ enabled' = on
  /\ UNCHANGED <<hsr, up, tables, refs, ram, hw, tx, rx, thread, history>>

-----------------------------------------------------------------------------
(* The transmit path.                                                      *)

\* A message of the type waits, is in a ring, or has just been stamped.
UnderWay(e) ==
  \/ ptp_skb[e] # None
  \/ \E i \in DOMAIN hw : Event[hw[i]] = e
  \/ notify[e]
  \/ thread.i = e /\ thread.mask

\* The stack sends a message, with the first reference to it.
Send(s) ==
  /\ up
  /\ tx.pc = "idle"
  /\ s \notin used
  /\ used' = used \cup {s}
  /\ Get(s)
  /\ tx' = [pc |-> IF enabled THEN "store" ELSE "commit", skb |-> s]
  /\ overlap' = (overlap \/ UnderWay(Event[s]))
  /\ UNCHANGED <<mode, tables, ram, hw, rx, thread, forwarded, stamped, dropped,
                 missed>>

\* A slip: the message that is dropped keeps its reference.
StoreLeaks ==
  /\ tx.pc = "store"
  /\ LET e == Event[tx.skb]
     IN /\ Get(tx.skb)
        /\ ts' = [ts EXCEPT ![e] = IF ptp_skb[e] = None THEN @ ELSE None]
        /\ notify' = [notify EXCEPT ![e] = @ /\ ptp_skb[e] = None]
        /\ dropped' = dropped \cup ({ptp_skb[e]} \ {None})
        /\ ptp_skb' = [ptp_skb EXCEPT ![e] = tx.skb]
  /\ tx' = [tx EXCEPT !.pc = "commit"]
  /\ UNCHANGED <<mode, ptp_ct_skb, raised, hw, rx, thread, used, forwarded,
                 stamped, overlap, missed>>

\* prueth_ptp_tx_ts_enqueue(): all of it under the lock.  A message of the
\* same type that still waits is dropped, with what has come for it.
Store ==
  /\ tx.pc = "store"
  /\ LET s == tx.skb
         e == Event[s]
         old == ptp_skb[e]
     IN /\ refs' = [r \in Skbs |-> refs[r] + (IF r = s THEN 1 ELSE 0)
                                           - (IF r = old THEN 1 ELSE 0)]
        /\ IF old # None
           THEN /\ ts' = [ts EXCEPT ![e] = None]
                /\ notify' = [notify EXCEPT ![e] = FALSE]
                /\ dropped' = dropped \cup {old}
           ELSE UNCHANGED <<ts, notify, dropped>>
        /\ ptp_skb' = [ptp_skb EXCEPT ![e] = s]
  /\ tx' = [tx EXCEPT !.pc = "commit"]
  /\ UNCHANGED <<mode, ptp_ct_skb, raised, hw, rx, thread, used, forwarded,
                 stamped, overlap, missed>>

\* The rest of prueth_tx_enqueue() gives the message to the firmware ...
Commit ==
  /\ tx.pc = "commit"
  /\ hw' = Append(hw, tx.skb)
  /\ tx' = [tx EXCEPT !.pc = "free"]
  /\ UNCHANGED <<mode, tables, refs, ram, rx, thread, history>>

\* ... and start_xmit frees its reference.
Free ==
  /\ tx.pc = "free"
  /\ Put(tx.skb)
  /\ tx' = TxIdle
  /\ UNCHANGED <<mode, tables, ram, hw, rx, thread, history>>

-----------------------------------------------------------------------------
(* The firmware (external): with time stamps on, the departure of a        *)
(* message is stamped, noted and signalled.                                *)

Stamp(s) ==
  /\ ts' = [ts EXCEPT ![Event[s]] = s]
  /\ notify' = [notify EXCEPT ![Event[s]] = TRUE]
  /\ raised' = TRUE

FwTransmit ==
  /\ up
  /\ hw # <<>>
  /\ hw' = Tail(hw)
  /\ IF enabled THEN Stamp(Head(hw)) ELSE UNCHANGED <<ts, notify, raised>>
  /\ UNCHANGED <<mode, tables, refs, tx, rx, thread, history>>

FwForward(c) ==
  /\ up
  /\ hsr
  /\ c \notin forwarded
  /\ forwarded' = forwarded \cup {c}
  /\ IF enabled THEN Stamp(c) ELSE UNCHANGED <<ts, notify, raised>>
  /\ UNCHANGED <<mode, tables, refs, hw, tx, rx, thread, used, stamped, dropped,
                 overlap, missed>>

-----------------------------------------------------------------------------
(* prueth_ptp_tx_irq_handle() and prueth_ptp_tx_irq_work().                *)

TxIrq ==
  /\ raised
  /\ thread.pc = "idle"
  /\ raised' = FALSE
  /\ thread' = [ThreadIdle EXCEPT !.pc = IF enabled THEN "read" ELSE "idle"]
  /\ missed' = IF enabled THEN missed ELSE missed \cup {e \in Events : notify[e]}
  /\ UNCHANGED <<mode, tables, refs, ts, notify, hw, tx, rx, used, forwarded,
                 stamped, dropped, overlap>>

ThreadGoto(label) == thread' = [thread EXCEPT !.pc = label]

\* The next type of message, or the end.
NextEvent ==
  thread' = IF thread.i = NumEvents THEN ThreadIdle
            ELSE [ThreadIdle EXCEPT !.pc = "read", !.i = thread.i + 1]

ReadNotify ==
  /\ thread.pc = "read"
  /\ thread' = [thread EXCEPT !.pc = "clear", !.mask = notify[thread.i]]
  /\ UNCHANGED <<mode, tables, refs, ram, hw, tx, rx, history>>

\* A slip: the notifications of all types are reset at once.
ClearNotifyAll ==
  /\ thread.pc = "clear"
  /\ notify' = Quiet
  /\ IF thread.mask THEN ThreadGoto("take") ELSE NextEvent
  /\ missed' = IF notify[thread.i] /\ ~thread.mask THEN missed \cup {thread.i}
               ELSE missed
  /\ UNCHANGED <<mode, tables, refs, ts, raised, hw, tx, rx, used, forwarded,
                 stamped, dropped, overlap>>

\* A slip: prueth_ptp_tx_ts_reset() for the notification alone.
ClearNotifyAndStamp ==
  /\ thread.pc = "clear"
  /\ notify' = [notify EXCEPT ![thread.i] = FALSE]
  /\ ts' = [ts EXCEPT ![thread.i] = None]
  /\ IF thread.mask THEN ThreadGoto("take") ELSE NextEvent
  /\ missed' = IF notify[thread.i] /\ ~thread.mask THEN missed \cup {thread.i}
               ELSE missed
  /\ UNCHANGED <<mode, tables, refs, raised, hw, tx, rx, used, forwarded,
                 stamped, dropped, overlap>>

ClearNotify ==
  /\ thread.pc = "clear"
  /\ notify' = [notify EXCEPT ![thread.i] = FALSE]
  /\ IF thread.mask THEN ThreadGoto("take") ELSE NextEvent
  /\ missed' = IF notify[thread.i] /\ ~thread.mask THEN missed \cup {thread.i}
               ELSE missed
  /\ UNCHANGED <<mode, tables, refs, ts, raised, hw, tx, rx, used, forwarded,
                 stamped, dropped, overlap>>

\* A slip: the message stays in its table.
TakeKept ==
  /\ thread.pc = "take"
  /\ LET ct == ptp_skb[thread.i] = None
         skb == IF ct THEN ptp_ct_skb[thread.i] ELSE ptp_skb[thread.i]
     IN IF skb = None THEN NextEvent
        ELSE thread' = [thread EXCEPT !.pc = "stamp", !.skb = skb, !.ct = ct]
  /\ UNCHANGED <<mode, tables, refs, ram, hw, tx, rx, history>>

\* Under the lock: the message that waits, else the cut-through message.
Take ==
  /\ thread.pc = "take"
  /\ LET e == thread.i
         ct == ptp_skb[e] = None
         skb == IF ct THEN ptp_ct_skb[e] ELSE ptp_skb[e]
     IN /\ ptp_skb' = [ptp_skb EXCEPT ![e] = None]
        /\ ptp_ct_skb' = IF ct THEN [ptp_ct_skb EXCEPT ![e] = None] ELSE ptp_ct_skb
        /\ IF skb = None THEN NextEvent
           ELSE thread' = [thread EXCEPT !.pc = "stamp", !.skb = skb, !.ct = ct]
  /\ UNCHANGED <<mode, refs, ram, hw, tx, rx, history>>

\* prueth_ptp_ts_get() reads the time stamp, without the lock, ...
ReadStamp ==
  /\ thread.pc = "stamp"
  /\ thread' = [thread EXCEPT !.pc = "finish", !.ns = ts[thread.i]]
  /\ UNCHANGED <<mode, tables, refs, ram, hw, tx, rx, history>>

\* ... and wipes it.  The message goes to its sender, or up the stack, and
\* with it one reference.
Finish ==
  /\ thread.pc = "finish"
  /\ ts' = [ts EXCEPT ![thread.i] = None]
  /\ stamped' = stamped \cup {<<thread.skb, thread.ns>>}
  /\ Put(thread.skb)
  /\ NextEvent
  /\ UNCHANGED <<mode, tables, notify, raised, hw, tx, rx, used, forwarded,
                 dropped, overlap, missed>>

-----------------------------------------------------------------------------
(* prueth_hsr_ptp_ct_tx_ts_enqueue() for a message from the other port.    *)

Receive(c) ==
  /\ hsr
  /\ rx.pc = "idle"
  /\ c \notin used
  /\ used' = used \cup {c}
  /\ Get(c)
  /\ rx' = [pc |-> "look", skb |-> c, ns |-> None]
  /\ UNCHANGED <<mode, tables, ram, hw, tx, thread, forwarded, stamped, dropped,
                 overlap, missed>>

Look ==
  /\ rx.pc = "look"
  /\ rx' = [rx EXCEPT !.pc = "wipe", !.ns = ts[Event[rx.skb]]]
  /\ UNCHANGED <<mode, tables, refs, ram, hw, tx, thread, history>>

\* With a stamp, or without a link to forward to, the message goes up the
\* stack at once.
Wipe ==
  /\ rx.pc = "wipe"
  /\ ts' = [ts EXCEPT ![Event[rx.skb]] = None]
  /\ \/ /\ rx.ns = None   \* and the port has a link
        /\ rx' = [rx EXCEPT !.pc = "store"]
        /\ UNCHANGED <<refs, stamped>>
     \/ \* a stamp, or no link
        /\ Put(rx.skb)
        /\ stamped' = stamped \cup {<<rx.skb, rx.ns>>}
        /\ rx' = RxIdle
  /\ UNCHANGED <<mode, tables, notify, raised, hw, tx, thread, used, forwarded,
                 dropped, overlap, missed>>

\* Otherwise it waits for the stamp, under the lock.  If another one waits,
\* the host's own message of that type is freed, and its place kept.
CtStore ==
  /\ rx.pc = "store"
  /\ LET e == Event[rx.skb]
         old == ptp_ct_skb[e]
         freed == IF old = None THEN None ELSE ptp_skb[e]
     IN /\ refs' = [r \in Skbs |-> refs[r] + (IF r = rx.skb THEN 1 ELSE 0)
                                           - (IF r = freed THEN 1 ELSE 0)]
        /\ IF old # None
           THEN /\ ts' = [ts EXCEPT ![e] = None]
                /\ notify' = [notify EXCEPT ![e] = FALSE]
                /\ dropped' = dropped \cup {old}
           ELSE UNCHANGED <<ts, notify, dropped>>
        /\ ptp_ct_skb' = [ptp_ct_skb EXCEPT ![e] = rx.skb]
  /\ rx' = RxIdle
  /\ UNCHANGED <<mode, ptp_skb, raised, hw, tx, thread, used, forwarded, stamped,
                 overlap, missed>>

-----------------------------------------------------------------------------
(* The PTP part of emac_ndo_stop(), and the next emac_ndo_open().  On one  *)
(* CPU the transmit path is not in the middle of a message, and the thread *)
(* of the interrupt, which outranks ndo_stop, is done.                     *)

Stop ==
  /\ up
  /\ tx.pc = "idle"
  /\ ~raised /\ thread.pc = "idle"
  /\ up' = FALSE
  /\ enabled' = FALSE
  /\ hw' = <<>>
  /\ LET waiting == {e \in Events : ptp_skb[e] # None \/ ptp_ct_skb[e] # None}
         gone(s) == Cardinality({e \in Events : ptp_skb[e] = s})
                      + Cardinality({e \in Events : ptp_ct_skb[e] = s})
     IN /\ ts' = [e \in Events |-> IF e \in waiting THEN None ELSE ts[e]]
        /\ notify' = [e \in Events |-> e \notin waiting /\ notify[e]]
        /\ refs' = [s \in Skbs |-> refs[s] - gone(s)]
        /\ dropped' = dropped \cup {s \in Skbs : gone(s) > 0}
  /\ ptp_skb' = Empty /\ ptp_ct_skb' = Empty
  /\ UNCHANGED <<hsr, raised, tx, rx, thread, used, forwarded, stamped, overlap, missed>>

\* The shared RAM is cleared only if no other port is open.
Open(cleared) ==
  /\ ~up
  /\ up' = TRUE
  /\ ts' = IF cleared THEN Empty ELSE ts
  /\ notify' = IF cleared THEN Quiet ELSE notify
  /\ UNCHANGED <<hsr, enabled, tables, refs, raised, hw, tx, rx, thread, history>>

-----------------------------------------------------------------------------
Next ==
  \/ \E on \in BOOLEAN : emac_hwtstamp_config_set(on)
  \/ \E s \in TxSkbs : Send(s)
  \/ Store \/ Commit \/ Free
  \/ FwTransmit
  \/ \E c \in CtSkbs : FwForward(c)
  \/ TxIrq \/ ReadNotify \/ ClearNotify \/ Take \/ ReadStamp \/ Finish
  \/ \E c \in CtSkbs : Receive(c)
  \/ Look \/ Wipe \/ CtStore
  \/ Stop
  \/ \E cleared \in BOOLEAN : Open(cleared)

Spec == Init /\ [][Next]_vars

-----------------------------------------------------------------------------
\* Every variable has its type.
TypeOK ==
  /\ {hsr, up, enabled, raised, overlap} \subseteq BOOLEAN
  /\ {ptp_skb, ptp_ct_skb, ts} \subseteq [Events -> Skbs \cup {None}]
  /\ notify \in [Events -> BOOLEAN]
  /\ ~hsr => refs \in [Skbs -> 0 .. 2]
  /\ hw \in Seq(TxSkbs)
  /\ tx.pc \in {"idle", "store", "commit", "free"}
  /\ rx.pc \in {"idle", "look", "wipe", "store"}
  /\ thread.pc \in {"idle", "read", "clear", "take", "stamp", "finish"}
  /\ stamped \subseteq Skbs \X (Skbs \cup {None})

\* The references to a message are those of the places that still use it:
\* nothing is leaked, freed while it waits, or freed twice, however sending,
\* dropping, stamping and closing interleave.  (Not with HSR, see below.)
Holders(s) ==
  {<<"tx">> : x \in {tx} \cap [pc : {"store", "commit", "free"}, skb : {s}]}
    \cup {<<"waits", e>> : e \in {e \in Events : ptp_skb[e] = s}}
    \cup {<<"thread">> : x \in {thread.skb} \cap {s}}
RefsRight == ~hsr => \A s \in TxSkbs : refs[s] = Cardinality(Holders(s))

\* A time stamp is handed over with the message it belongs to, if messages
\* of a type are sent one at a time (prueth_ptp_tx_ts_get reads the stamp
\* after it has given the lock back, and Store wipes what is there).
StampOwn == ~hsr /\ ~overlap => \A p \in stamped : p[1] = p[2]

\* Whatever is handed over is handed over once: the receive path, the two
\* tables and the thread never hold a message that is already gone.
HandedOverOnce ==
  \A s \in Skbs :
    (\E e \in Events : s \in {ptp_skb[e], ptp_ct_skb[e]}) \/ s \in {rx.skb, thread.skb}
      => \A p \in stamped : p[1] # s

\* A message that waits with its time stamp in place is going to be handed
\* over, unless the notification came between the thread's read and its
\* reset, or the interrupt came while time stamps were switched off.
Reads(e) == \/ raised
            \/ thread.pc = "read" /\ thread.i <= e
            \/ thread.pc # "idle" /\ thread.i < e
            \/ thread.i = e /\ thread.mask
StampToCome ==
  \A e \in Events :
    ~hsr /\ ptp_skb[e] # None /\ ts[e] = ptp_skb[e] => Reads(e) \/ e \in missed

=============================================================================

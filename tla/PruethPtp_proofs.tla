-------------------------- MODULE PruethPtp_proofs ---------------------------
(***************************************************************************)
(* Transmit time stamps: a message is handed over once, its references are *)
(* those of the places that use it, the stamp is its own, and one that     *)
(* waits with its stamp in place gets it, for any messages and types.      *)
(***************************************************************************)
EXTENDS PruethPtp, FiniteSetTheorems, SequenceTheorems, TLAPS

TxState == [pc : {"idle", "store", "commit", "free"}, skb : TxSkbs \cup {None}]
RxState == [pc : {"idle", "look", "wipe", "store"}, skb : CtSkbs \cup {None},
            ns : Skbs \cup {None}]
ThreadState ==
  [pc : {"idle", "read", "clear", "take", "stamp", "finish"}, i : Events,
   mask : BOOLEAN, skb : Skbs \cup {None}, ct : BOOLEAN, ns : Skbs \cup {None}]

Typed ==
  /\ {hsr, up, enabled, raised, overlap} \subseteq BOOLEAN
  /\ ptp_skb \in [Events -> TxSkbs \cup {None}]
  /\ ptp_ct_skb \in [Events -> CtSkbs \cup {None}]
  /\ refs \in [Skbs -> Int]
  /\ ts \in [Events -> Skbs \cup {None}]
  /\ notify \in [Events -> BOOLEAN]
  /\ hw \in Seq(TxSkbs)
  /\ tx \in TxState /\ rx \in RxState /\ thread \in ThreadState
  /\ used \subseteq Skbs /\ missed \subseteq Events

\* A message waits at the place of its type, and an actor has a message in its
\* hands just while it is at work on one.  Without HSR nothing is cut through.
Sorted ==
  /\ \A e \in Events : ptp_skb[e] # None => Event[ptp_skb[e]] = e
  /\ \A e \in Events : ptp_ct_skb[e] # None => Event[ptp_ct_skb[e]] = e
InHands ==
  /\ tx.pc # "idle" => tx.skb \in TxSkbs \cap used
  /\ IF rx.pc = "idle" THEN rx.skb = None ELSE rx.skb \in CtSkbs \cap used
  /\ thread.pc \in {"stamp", "finish"} <=> thread.skb # None
  /\ thread.pc \in {"take", "stamp", "finish"} => thread.mask
HostOnly == ~hsr => rx = RxIdle /\ ptp_ct_skb = Empty

\* A message is on its way to its table, waits there, is in the hands of the
\* thread, or has been handed over: one of these at a time, in this order.
Waits(s) == \E e \in Events : s \in {ptp_skb[e], ptp_ct_skb[e]}
Handed(s) == \E p \in stamped : p[1] = s
ToCome(s) == s \notin used \/ (tx.pc = "store" /\ tx.skb = s) \/ rx.skb = s
OnePlace ==
  \A s \in Skbs :
    /\ ToCome(s) => ~Waits(s) /\ thread.skb # s
    /\ Waits(s) => thread.skb # s
    /\ ToCome(s) \/ Waits(s) \/ thread.skb = s => ~Handed(s)

Inv == Typed /\ Sorted /\ InHands /\ HostOnly /\ OnePlace

\* Every place that uses a message holds one reference to it.
One(b) == IF b THEN 1 ELSE 0
RefsCounted ==
  ~hsr => \A s \in TxSkbs :
    refs[s] = One(tx.pc # "idle" /\ tx.skb = s) + One(ptp_skb[Event[s]] = s)
                + One(thread.skb = s)

\* With one message of a type at a time it is on its way to the ring, in the
\* ring, or noted as sent and not yet handed over; a stamp that is noted is
\* that of the message that waits.
Leaving(e) == tx.pc \in {"store", "commit"} /\ Event[tx.skb] = e
InRing(e) == \E n \in 1 .. Len(hw) : Event[hw[n]] = e
Noted(e) == notify[e] \/ (thread.i = e /\ thread.mask)
OneOfEach ==
  /\ \A e \in Events : /\ Leaving(e) => ~InRing(e) /\ ~Noted(e)
                       /\ InRing(e) => ~Noted(e)
  /\ \A m, n \in 1 .. Len(hw) : Event[hw[m]] = Event[hw[n]] => m = n
StampsFit ==
  /\ \A e \in Events :
       ptp_skb[e] # None =>
         /\ tx.pc = "store" => Event[tx.skb] # e
         /\ tx.pc = "commit" /\ Event[tx.skb] = e => ptp_skb[e] = tx.skb
         /\ \A n \in 1 .. Len(hw) : Event[hw[n]] = e => ptp_skb[e] = hw[n]
         /\ Noted(e) => ts[e] = ptp_skb[e]
  /\ thread.pc \in {"stamp", "finish"} => ptp_skb[thread.i] = None
  /\ thread.pc = "stamp" => ts[thread.i] = thread.skb
  /\ thread.pc = "finish" => thread.ns = thread.skb
  /\ \A p \in stamped : p[1] = p[2]
StampInv == ~hsr /\ ~overlap => OneOfEach /\ StampsFit

\* A message that is not in a ring yet has no stamp, and a stamp for one that
\* waits is noted where the thread still looks, or the thread has seen it.
Unsent(s) == s \notin used \/ (tx.pc \in {"store", "commit"} /\ tx.skb = s)
StampsSent ==
  ~hsr => \A s \in Skbs : Unsent(s) => /\ \A e \in Events : ts[e] # s
                                       /\ \A n \in 1 .. Len(hw) : hw[n] # s
WillRead(e) ==
  \/ e \in missed
  \/ notify[e] /\ \/ raised
                  \/ thread.pc = "read" /\ thread.i <= e
                  \/ thread.pc # "idle" /\ thread.i < e
  \/ thread.pc \in {"clear", "take"} /\ thread.i = e /\ thread.mask
StampsRead ==
  ~hsr => \A e \in Events : ptp_skb[e] # None /\ ts[e] = ptp_skb[e] => WillRead(e)

(* ------------------------------- types --------------------------------- *)

LEMMA NoneIsNoMessage ==
  /\ None \notin TxSkbs /\ None \notin CtSkbs /\ TxSkbs \cap CtSkbs = {}
  /\ \A s \in Skbs : Event[s] \in Events
  /\ NumEvents \in Nat \ {0} /\ 1 \in Events
  BY PtpAssumption DEF Skbs, Events

\* The thread goes on to the next type of message, or to the end.
LEMMA NextEventIs ==
  ASSUME thread \in ThreadState, NextEvent
  PROVE  /\ thread' \in ThreadState
         /\ thread'.mask = FALSE /\ thread'.skb = None
         /\ \/ thread.i = NumEvents /\ thread'.pc = "idle" /\ thread'.i = 1
            \/ thread.i < NumEvents /\ thread'.pc = "read" /\ thread'.i = thread.i + 1
<1>1. thread.i \in Events /\ 1 \in Events /\ NumEvents \in Nat
  BY NoneIsNoMessage DEF ThreadState
<1>2. CASE thread.i = NumEvents
  <2>1. thread' = ThreadIdle
    BY <1>2 DEF NextEvent
  <2> QED BY <1>1, <1>2, <2>1 DEF ThreadIdle, ThreadState
<1>3. CASE thread.i # NumEvents
  <2>1. thread' = [ThreadIdle EXCEPT !.pc = "read", !.i = thread.i + 1]
    BY <1>3 DEF NextEvent
  <2>2. thread.i < NumEvents /\ thread.i + 1 \in Events
    BY <1>1, <1>3 DEF Events
  <2> QED BY <2>1, <2>2 DEF ThreadIdle, ThreadState
<1> QED BY <1>2, <1>3

\* A reference more, and one less.
LEMMA RefsUpdate ==
  ASSUME refs \in [Skbs -> Int], NEW s
  PROVE  /\ Get(s) => refs' \in [Skbs -> Int]
         /\ Put(s) => refs' \in [Skbs -> Int]
<1>1. \A r \in Skbs : refs[r] + 1 \in Int /\ refs[r] - 1 \in Int
  OBVIOUS
<1>2. CASE s \in Skbs
  BY <1>1, <1>2 DEF Get, Put
<1>3. CASE s \notin Skbs
  BY <1>3 DEF Get, Put
<1> QED BY <1>2, <1>3

LEMMA TypedInit == ASSUME Init PROVE Typed
<1>1. ptp_skb \in [Events -> TxSkbs \cup {None}] /\ ptp_ct_skb \in [Events -> CtSkbs \cup {None}]
      /\ ts \in [Events -> Skbs \cup {None}] /\ notify \in [Events -> BOOLEAN]
      /\ refs \in [Skbs -> Int]
  BY DEF Init, Empty, Quiet
<1>2. tx \in TxState /\ rx \in RxState /\ thread \in ThreadState
  BY NoneIsNoMessage DEF Init, TxIdle, RxIdle, ThreadIdle, TxState, RxState, ThreadState
<1>3. hw \in Seq(TxSkbs)
  BY DEF Init
<1> QED BY <1>1, <1>2, <1>3 DEF Init, Typed

LEMMA TypedStep ==
  ASSUME Typed, InHands, [Next]_vars
  PROVE  Typed'
<1>0. /\ {hsr, up, enabled, raised, overlap} \subseteq BOOLEAN
      /\ ptp_skb \in [Events -> TxSkbs \cup {None}]
      /\ ptp_ct_skb \in [Events -> CtSkbs \cup {None}]
      /\ refs \in [Skbs -> Int]
      /\ ts \in [Events -> Skbs \cup {None}]
      /\ notify \in [Events -> BOOLEAN]
      /\ hw \in Seq(TxSkbs)
      /\ tx \in TxState /\ rx \in RxState /\ thread \in ThreadState
      /\ used \subseteq Skbs /\ missed \subseteq Events
      /\ TxSkbs \subseteq Skbs /\ CtSkbs \subseteq Skbs
  BY DEF Typed, Skbs
<1>00. /\ tx.pc # "idle" => tx.skb \in TxSkbs
       /\ rx.pc # "idle" => rx.skb \in CtSkbs
       /\ thread.pc = "finish" => thread.skb \in Skbs
       /\ thread.i \in Events
  BY <1>0 DEF InHands, ThreadState
<1> USE DEF mode, tables, ram, history
<1>1. ASSUME NEW on \in BOOLEAN, emac_hwtstamp_config_set(on) PROVE Typed'
  BY <1>0, <1>1 DEF emac_hwtstamp_config_set, Typed
<1>2. ASSUME NEW s \in TxSkbs, Send(s) PROVE Typed'
  <2>1. tx' \in TxState
    BY <1>2 DEF Send, TxState
  <2>2. refs' \in [Skbs -> Int]
    BY <1>0, <1>2 DEF Send, Get
  <2>3. used' \subseteq Skbs /\ overlap' \in BOOLEAN
    BY <1>0, <1>2 DEF Send, UnderWay
  <2> QED BY <1>0, <1>2, <2>1, <2>2, <2>3 DEF Send, Typed
<1>3. CASE Store
  <2>1. tx' \in TxState
    BY <1>0, <1>3 DEF Store, TxState
  <2>2. refs' \in [Skbs -> Int]
    BY <1>0, <1>3 DEF Store
  <2>3. ptp_skb' \in [Events -> TxSkbs \cup {None}]
    BY <1>0, <1>00, <1>3 DEF Store
  <2>4. ts' \in [Events -> Skbs \cup {None}] /\ notify' \in [Events -> BOOLEAN]
    BY <1>0, <1>3 DEF Store
  <2> QED BY <1>0, <1>3, <2>1, <2>2, <2>3, <2>4 DEF Store, Typed
<1>4. CASE Commit
  <2>1. tx' \in TxState
    BY <1>0, <1>4 DEF Commit, TxState
  <2>2. hw' \in Seq(TxSkbs)
    BY <1>0, <1>00, <1>4 DEF Commit
  <2> QED BY <1>0, <1>4, <2>1, <2>2 DEF Commit, Typed
<1>5. CASE Free
  <2>1. tx' \in TxState
    BY <1>5 DEF Free, TxState, TxIdle
  <2>2. refs' \in [Skbs -> Int]
    BY <1>0, <1>5, RefsUpdate DEF Free
  <2> QED BY <1>0, <1>5, <2>1, <2>2 DEF Free, Typed
<1>6. ASSUME NEW s \in Skbs, IF enabled THEN Stamp(s) ELSE UNCHANGED <<ts, notify, raised>>
      PROVE  /\ ts' \in [Events -> Skbs \cup {None}] /\ notify' \in [Events -> BOOLEAN]
             /\ raised' \in BOOLEAN
  BY <1>0, <1>6 DEF Stamp
<1>7. CASE FwTransmit
  <2>1. Head(hw) \in Skbs /\ hw' \in Seq(TxSkbs)
    BY <1>0, <1>7, HeadTailProperties DEF FwTransmit
  <2> QED BY <1>0, <1>6, <1>7, <2>1 DEF FwTransmit, Typed
<1>8. ASSUME NEW c \in CtSkbs, FwForward(c) PROVE Typed'
  <2>1. c \in Skbs
    BY <1>0
  <2> QED BY <1>0, <1>6, <1>8, <2>1 DEF FwForward, Typed
<1>9. CASE TxIrq
  <2>1. thread' \in ThreadState
    BY <1>9, NoneIsNoMessage DEF TxIrq, ThreadIdle, ThreadState
  <2> QED BY <1>0, <1>9, <2>1 DEF TxIrq, Typed
<1>10. CASE ReadNotify
  <2>1. thread' \in ThreadState
    BY <1>0, <1>00, <1>10 DEF ReadNotify, ThreadState
  <2> QED BY <1>0, <1>10, <2>1 DEF ReadNotify, Typed
<1>11. CASE ClearNotify
  <2>1. thread' \in ThreadState
    BY <1>0, <1>11, NextEventIs DEF ClearNotify, ThreadState, ThreadGoto
  <2>2. notify' \in [Events -> BOOLEAN] /\ missed' \subseteq Events
    BY <1>0, <1>00, <1>11 DEF ClearNotify
  <2> QED BY <1>0, <1>11, <2>1, <2>2 DEF ClearNotify, Typed
<1>12. CASE Take
  <2> DEFINE ct == ptp_skb[thread.i] = None
             skb == IF ct THEN ptp_ct_skb[thread.i] ELSE ptp_skb[thread.i]
  <2>1. skb \in Skbs \cup {None} /\ ct \in BOOLEAN
    BY <1>0, <1>00
  <2>2. IF skb = None THEN NextEvent
        ELSE thread' = [thread EXCEPT !.pc = "stamp", !.skb = skb, !.ct = ct]
    BY <1>12 DEF Take
  <2>3. thread' \in ThreadState
    <3> HIDE DEF skb, ct
    <3>1. thread \in ThreadState BY <1>0
    <3>2. CASE skb = None BY <2>2, <3>1, <3>2, NextEventIs
    <3>3. CASE skb # None BY <2>1, <2>2, <3>1, <3>3 DEF ThreadState
    <3> QED BY <3>2, <3>3
  <2>4. /\ ptp_skb' \in [Events -> TxSkbs \cup {None}]
        /\ ptp_ct_skb' \in [Events -> CtSkbs \cup {None}]
    BY <1>0, <1>12 DEF Take
  <2> QED BY <1>0, <1>12, <2>3, <2>4 DEF Take, Typed
<1>13. CASE ReadStamp
  <2>1. thread' \in ThreadState
    BY <1>0, <1>00, <1>13 DEF ReadStamp, ThreadState
  <2> QED BY <1>0, <1>13, <2>1 DEF ReadStamp, Typed
<1>14. CASE Finish
  <2>1. ts' \in [Events -> Skbs \cup {None}] /\ refs' \in [Skbs -> Int]
    BY <1>0, <1>14, RefsUpdate DEF Finish
  <2> QED BY <1>0, <1>14, <2>1, NextEventIs DEF Finish, Typed
<1>15. ASSUME NEW c \in CtSkbs, Receive(c) PROVE Typed'
  <2>1. rx' \in RxState
    BY <1>15 DEF Receive, RxState
  <2>2. refs' \in [Skbs -> Int] /\ used' \subseteq Skbs
    BY <1>0, <1>15 DEF Receive, Get
  <2> QED BY <1>0, <1>15, <2>1, <2>2 DEF Receive, Typed
<1>16. CASE Look
  <2>1. Event[rx.skb] \in Events
    BY <1>0, <1>00, <1>16, NoneIsNoMessage DEF Look
  <2>2. rx' \in RxState
    BY <1>0, <1>16, <2>1 DEF Look, RxState
  <2> QED BY <1>0, <1>16, <2>2 DEF Look, Typed
<1>17. CASE Wipe
  <2>1. rx' \in RxState
    <3>1. RxIdle \in RxState /\ [rx EXCEPT !.pc = "store"] \in RxState
      BY <1>0 DEF RxState, RxIdle
    <3> QED BY <1>17, <3>1 DEF Wipe
  <2>2. ts' \in [Events -> Skbs \cup {None}] /\ refs' \in [Skbs -> Int]
    BY <1>0, <1>17, RefsUpdate DEF Wipe
  <2> QED BY <1>0, <1>17, <2>1, <2>2 DEF Wipe, Typed
<1>18. CASE CtStore
  <2>1. rx' \in RxState
    BY <1>18 DEF CtStore, RxState, RxIdle
  <2>2. refs' \in [Skbs -> Int]
    BY <1>0, <1>18 DEF CtStore
  <2>3. ptp_ct_skb' \in [Events -> CtSkbs \cup {None}]
    BY <1>0, <1>00, <1>18 DEF CtStore
  <2>4. ts' \in [Events -> Skbs \cup {None}] /\ notify' \in [Events -> BOOLEAN]
    BY <1>0, <1>18 DEF CtStore
  <2> QED BY <1>0, <1>18, <2>1, <2>2, <2>3, <2>4 DEF CtStore, Typed
<1>19. CASE Stop
  <2>1. refs' \in [Skbs -> Int]
    <3> DEFINE gone(s) == Cardinality({e \in Events : ptp_skb[e] = s})
                            + Cardinality({e \in Events : ptp_ct_skb[e] = s})
    <3>1. ASSUME NEW s \in Skbs PROVE gone(s) \in Int
      <4>1. IsFiniteSet(Events)
        BY NoneIsNoMessage, FS_Interval DEF Events
      <4>2. /\ IsFiniteSet({e \in Events : ptp_skb[e] = s})
            /\ IsFiniteSet({e \in Events : ptp_ct_skb[e] = s})
        BY <4>1, FS_Subset
      <4> QED BY <4>2, FS_CardinalityType
    <3>2. refs' = [s \in Skbs |-> refs[s] - gone(s)]
      BY <1>19 DEF Stop
    <3> HIDE DEF gone
    <3> QED BY <1>0, <3>1, <3>2
  <2>2. /\ ptp_skb' \in [Events -> TxSkbs \cup {None}]
        /\ ptp_ct_skb' \in [Events -> CtSkbs \cup {None}]
    BY <1>19 DEF Stop, Empty
  <2>3. ts' \in [Events -> Skbs \cup {None}] /\ notify' \in [Events -> BOOLEAN]
    BY <1>0, <1>19 DEF Stop
  <2>4. hw' \in Seq(TxSkbs) /\ up' = FALSE /\ enabled' = FALSE
    BY <1>19 DEF Stop
  <2> QED BY <1>0, <1>19, <2>1, <2>2, <2>3, <2>4 DEF Stop, Typed
<1>20. ASSUME NEW cleared \in BOOLEAN, Open(cleared) PROVE Typed'
  <2>1. ts' \in [Events -> Skbs \cup {None}] /\ notify' \in [Events -> BOOLEAN]
    BY <1>0, <1>20 DEF Open, Empty, Quiet
  <2> QED BY <1>0, <1>20, <2>1 DEF Open, Typed
<1>21. CASE UNCHANGED vars
  BY <1>0, <1>21 DEF vars, Typed
<1> QED BY <1>1, <1>2, <1>3, <1>4, <1>5, <1>7, <1>8, <1>9, <1>10, <1>11, <1>12, <1>13,
           <1>14, <1>15, <1>16, <1>17, <1>18, <1>19, <1>20, <1>21 DEF Next

(* --------------------- where a message is, and whose -------------------- *)

\* The types of the parts, for the steps below.
LEMMA Parts ==
  ASSUME Typed
  PROVE  /\ ptp_skb \in [Events -> TxSkbs \cup {None}]
         /\ ptp_ct_skb \in [Events -> CtSkbs \cup {None}]
         /\ refs \in [Skbs -> Int]
         /\ ts \in [Events -> Skbs \cup {None}] /\ notify \in [Events -> BOOLEAN]
         /\ hw \in Seq(TxSkbs)
         /\ tx \in TxState /\ rx \in RxState /\ thread \in ThreadState
         /\ thread.i \in Events /\ thread.skb \in Skbs \cup {None}
         /\ TxSkbs \subseteq Skbs /\ CtSkbs \subseteq Skbs /\ None \notin Skbs
         /\ TxSkbs \cap CtSkbs = {}
  BY PtpAssumption DEF Typed, ThreadState, Skbs

LEMMA SortedStep ==
  ASSUME Typed, Sorted, InHands, [Next]_vars
  PROVE  Sorted'
<1> USE DEF mode, tables, ram, history
<1>0. /\ ptp_skb \in [Events -> TxSkbs \cup {None}]
      /\ ptp_ct_skb \in [Events -> CtSkbs \cup {None}]
      /\ thread.i \in Events
  BY Parts
<1>1. CASE UNCHANGED tables
  BY <1>1 DEF Sorted
<1>2. CASE Store
  <2>1. ptp_skb' = [ptp_skb EXCEPT ![Event[tx.skb]] = tx.skb] /\ ptp_ct_skb' = ptp_ct_skb
    BY <1>2 DEF Store
  <2> QED BY <1>0, <2>1 DEF Sorted
<1>3. CASE Take
  <2>1. /\ ptp_skb' = [ptp_skb EXCEPT ![thread.i] = None]
        /\ \/ ptp_ct_skb' = [ptp_ct_skb EXCEPT ![thread.i] = None]
           \/ ptp_ct_skb' = ptp_ct_skb
    BY <1>3 DEF Take
  <2> QED BY <1>0, <2>1 DEF Sorted
<1>4. CASE CtStore
  <2>1. ptp_ct_skb' = [ptp_ct_skb EXCEPT ![Event[rx.skb]] = rx.skb] /\ ptp_skb' = ptp_skb
    BY <1>4 DEF CtStore
  <2> QED BY <1>0, <2>1 DEF Sorted
<1>5. CASE Stop
  BY <1>5 DEF Stop, Sorted, Empty
<1> USE DEF Next, emac_hwtstamp_config_set, Send, Commit, Free, FwTransmit, FwForward, TxIrq,
            ReadNotify, ClearNotify, ReadStamp, Finish, Receive, Look, Wipe, Open, vars
<1> QED BY <1>1, <1>2, <1>3, <1>4, <1>5

LEMMA InHandsStep ==
  ASSUME Typed, InHands, [Next]_vars
  PROVE  InHands'
<1> USE DEF mode, tables, ram, history
<1>0. /\ tx \in TxState /\ rx \in RxState /\ thread \in ThreadState
      /\ ptp_skb \in [Events -> TxSkbs \cup {None}]
      /\ ptp_ct_skb \in [Events -> CtSkbs \cup {None}]
      /\ thread.i \in Events /\ None \notin Skbs
      /\ TxSkbs \subseteq Skbs /\ CtSkbs \subseteq Skbs
  BY Parts
<1>1. CASE UNCHANGED <<tx, rx, thread, used>>
  BY <1>1 DEF InHands
<1>2. ASSUME NEW s \in TxSkbs, Send(s) PROVE InHands'
  <2>1. tx'.skb = s
    BY <1>2 DEF Send
  <2> QED BY <1>2, <2>1 DEF Send, InHands
<1>3. CASE Store \/ Commit
  <2>1. tx.pc # "idle" /\ tx'.skb = tx.skb /\ UNCHANGED <<rx, thread, used>>
    BY <1>0, <1>3 DEF Store, Commit, TxState
  <2> QED BY <2>1 DEF InHands
<1>4. CASE Free
  <2>1. tx'.pc = "idle" /\ UNCHANGED <<rx, thread, used>>
    BY <1>4 DEF Free, TxIdle
  <2> QED BY <2>1 DEF InHands
<1>5. CASE TxIrq
  <2>1. thread'.pc \in {"idle", "read"} /\ thread'.skb = None /\ UNCHANGED <<tx, rx, used>>
    BY <1>5 DEF TxIrq, ThreadIdle
  <2> QED BY <2>1 DEF InHands
<1>6. CASE ReadNotify
  <2>1. /\ thread.pc = "read" /\ thread'.pc = "clear" /\ thread'.skb = thread.skb
        /\ UNCHANGED <<tx, rx, used>>
    BY <1>0, <1>6 DEF ReadNotify, ThreadState
  <2> QED BY <2>1 DEF InHands
<1>7. ASSUME NextEvent, UNCHANGED <<tx, rx, used>> PROVE InHands'
  <2>1. thread'.pc \in {"idle", "read"} /\ thread'.skb = None
    BY <1>0, <1>7, NextEventIs
  <2> QED BY <1>7, <2>1 DEF InHands
<1>8. CASE ClearNotify
  <2>1. CASE thread.mask
    <3>1. /\ thread.pc = "clear" /\ thread'.pc = "take" /\ thread'.skb = thread.skb
          /\ thread'.mask /\ UNCHANGED <<tx, rx, used>>
      BY <1>0, <1>8, <2>1 DEF ClearNotify, ThreadGoto, ThreadState
    <3> QED BY <3>1 DEF InHands
  <2>2. CASE ~thread.mask
    BY <1>7, <1>8, <2>2 DEF ClearNotify
  <2> QED BY <2>1, <2>2
<1>9. CASE Take
  <2> DEFINE ct == ptp_skb[thread.i] = None
             skb == IF ct THEN ptp_ct_skb[thread.i] ELSE ptp_skb[thread.i]
  <2>1. /\ IF skb = None THEN NextEvent
           ELSE thread' = [thread EXCEPT !.pc = "stamp", !.skb = skb, !.ct = ct]
        /\ thread.pc = "take" /\ UNCHANGED <<tx, rx, used>>
    BY <1>9 DEF Take
  <2>2. CASE skb # None
    <3>1. thread'.pc = "stamp" /\ thread'.skb # None /\ thread'.mask = thread.mask
      <4> HIDE DEF skb, ct
      <4> QED BY <1>0, <2>1, <2>2 DEF ThreadState
    <3> QED BY <2>1, <3>1 DEF InHands
  <2> HIDE DEF skb, ct
  <2> QED BY <1>7, <2>1, <2>2
<1>10. CASE ReadStamp
  <2>1. /\ thread.pc = "stamp" /\ thread'.pc = "finish" /\ thread'.skb = thread.skb
        /\ thread'.mask = thread.mask /\ UNCHANGED <<tx, rx, used>>
    BY <1>0, <1>10 DEF ReadStamp, ThreadState
  <2> QED BY <2>1 DEF InHands
<1>11. CASE Finish
  BY <1>7, <1>11 DEF Finish
<1>12. ASSUME NEW c \in CtSkbs, Receive(c) PROVE InHands'
  BY <1>12 DEF Receive, InHands
<1>13. CASE Look
  <2>1. /\ rx.pc = "look" /\ rx'.pc = "wipe" /\ rx'.skb = rx.skb
        /\ UNCHANGED <<tx, thread, used>>
    BY <1>0, <1>13 DEF Look, RxState
  <2> QED BY <2>1 DEF InHands
<1>14. CASE Wipe
  <2>1. rx.pc = "wipe" /\ UNCHANGED <<tx, thread, used>>
    BY <1>14 DEF Wipe
  <2>2. (rx'.pc = "store" /\ rx'.skb = rx.skb) \/ (rx'.pc = "idle" /\ rx'.skb = None)
    <3>1. rx' = [rx EXCEPT !.pc = "store"] \/ rx' = RxIdle
      BY <1>14 DEF Wipe
    <3> QED BY <1>0, <3>1 DEF RxIdle, RxState
  <2> QED BY <2>1, <2>2 DEF InHands
<1>15. CASE CtStore
  BY <1>15 DEF CtStore, RxIdle, InHands
<1> USE DEF Next, emac_hwtstamp_config_set, FwTransmit, FwForward, Stop, Open, vars
<1> QED BY <1>1, <1>2, <1>3, <1>4, <1>5, <1>6, <1>8, <1>9, <1>10, <1>11, <1>12, <1>13,
           <1>14, <1>15

LEMMA HostOnlyStep ==
  ASSUME Typed, InHands, HostOnly, [Next]_vars
  PROVE  HostOnly'
<1> USE DEF mode, tables, ram, history
<1>0. /\ rx.pc = "idle" => rx.skb = None
      /\ ptp_ct_skb \in [Events -> CtSkbs \cup {None}] /\ thread.i \in Events
  BY Parts DEF InHands
<1>1. hsr' = hsr
  BY DEF Next, emac_hwtstamp_config_set, Send, Store, Commit, Free, FwTransmit, FwForward, TxIrq,
         ReadNotify, ClearNotify, Take, ReadStamp, Finish, Receive, Look, Wipe, CtStore, Stop,
         Open, vars
<1>2. SUFFICES ASSUME ~hsr PROVE rx' = RxIdle /\ ptp_ct_skb' = Empty
  BY <1>1 DEF HostOnly
<1>3. rx = RxIdle /\ ptp_ct_skb = Empty /\ rx.pc = "idle"
  BY <1>2 DEF HostOnly, RxIdle
<1>4. CASE Take
  <2>1. [ptp_ct_skb EXCEPT ![thread.i] = None] = ptp_ct_skb
    BY <1>0, <1>3 DEF Empty
  <2> QED BY <1>3, <1>4, <2>1 DEF Take
<1>5. CASE Stop
  BY <1>3, <1>5 DEF Stop
<1> QED BY <1>2, <1>3, <1>4, <1>5
        DEF Next, emac_hwtstamp_config_set, Send, Store, Commit, Free, FwTransmit, FwForward,
            TxIrq, ReadNotify, ClearNotify, ReadStamp, Finish, Receive, Look, Wipe, CtStore,
            Open, vars

\* Nothing is anywhere where it was not before.
LEMMA OnePlaceKept ==
  ASSUME OnePlace,
         \A s \in Skbs : /\ ToCome(s)' => ToCome(s)
                         /\ Waits(s)' => Waits(s)
                         /\ thread'.skb = s => thread.skb = s
                         /\ Handed(s)' => Handed(s)
  PROVE  OnePlace'
  BY DEF OnePlace
LEMMA OnePlaceStep ==
  ASSUME Inv, [Next]_vars
  PROVE  OnePlace'
<1> USE DEF mode, tables, ram, history
<1>0. Typed /\ Sorted /\ InHands /\ OnePlace
  BY DEF Inv
<1>00. /\ tx \in TxState /\ rx \in RxState /\ thread \in ThreadState
       /\ ptp_skb \in [Events -> TxSkbs \cup {None}]
       /\ ptp_ct_skb \in [Events -> CtSkbs \cup {None}]
       /\ thread.i \in Events /\ thread.skb \in Skbs \cup {None} /\ None \notin Skbs
       /\ TxSkbs \subseteq Skbs /\ CtSkbs \subseteq Skbs /\ TxSkbs \cap CtSkbs = {}
  BY <1>0, Parts
<1>1. ASSUME UNCHANGED <<used, tables, stamped>>,
             tx' = tx \/ (tx'.pc # "store"), rx'.skb \in {rx.skb, None},
             thread'.skb \in {thread.skb, None}
      PROVE  OnePlace'
  <2>1. ASSUME NEW s \in Skbs
        PROVE  /\ ToCome(s)' => ToCome(s)
               /\ Waits(s)' => Waits(s)
               /\ thread'.skb = s => thread.skb = s
               /\ Handed(s)' => Handed(s)
    BY <1>00, <1>1 DEF ToCome, Waits, Handed
  <2> QED BY <1>0, <2>1, OnePlaceKept
<1>2. CASE UNCHANGED <<used, tables, stamped, tx, rx, thread>>
  BY <1>1, <1>2
<1>3. ASSUME NEW s \in TxSkbs, Send(s) PROVE OnePlace'
  <2>1. ASSUME NEW r \in Skbs
        PROVE  /\ ToCome(r)' => ToCome(r)
               /\ Waits(r)' => Waits(r)
               /\ thread'.skb = r => thread.skb = r
               /\ Handed(r)' => Handed(r)
    BY <1>3 DEF Send, ToCome, Waits, Handed
  <2> QED BY <1>0, <2>1, OnePlaceKept
<1>4. CASE Store
  <2>1. /\ tx.pc = "store" /\ tx.skb \in TxSkbs /\ tx'.pc = "commit"
        /\ ptp_skb' = [ptp_skb EXCEPT ![Event[tx.skb]] = tx.skb]
        /\ UNCHANGED <<ptp_ct_skb, rx, thread, used, stamped>>
    BY <1>0, <1>00, <1>4 DEF Store, InHands, TxState
  <2>a. PICK m \in TxSkbs : m = tx.skb
    BY <2>1
  <2>2. ~ToCome(m)'
    <3>1. m \in used /\ rx.skb # m
      BY <1>0, <1>00, <2>1, <2>a DEF InHands
    <3> QED BY <2>1, <3>1 DEF ToCome
  <2>3. ToCome(m) /\ m \in Skbs
    BY <1>00, <2>1, <2>a DEF ToCome
  <2>4. thread.skb # m /\ ~Handed(m)
    BY <1>0, <2>3 DEF OnePlace
  <2>5. ASSUME NEW s \in Skbs, s # m
        PROVE  /\ ToCome(s)' => ToCome(s)
               /\ Waits(s)' => Waits(s)
    BY <1>00, <2>1, <2>a, <2>5 DEF ToCome, Waits
  <2>6. \A s \in Skbs : Handed(s)' <=> Handed(s)
    BY <2>1 DEF Handed
  <2> QED BY <1>0, <2>1, <2>2, <2>4, <2>5, <2>6 DEF OnePlace
<1>5. CASE Commit \/ Free
  <2>1. tx'.pc # "store"
    BY <1>00, <1>5 DEF Commit, Free, TxIdle, TxState
  <2> QED BY <1>1, <1>5, <2>1 DEF Commit, Free
<1>6. CASE TxIrq \/ ReadNotify \/ ReadStamp
  <2>1. thread'.skb \in {thread.skb, None}
    BY <1>00, <1>6 DEF TxIrq, ReadNotify, ReadStamp, ThreadIdle, ThreadState
  <2> QED BY <1>1, <1>6, <2>1 DEF TxIrq, ReadNotify, ReadStamp
<1>7. CASE ClearNotify
  <2>1. thread'.skb \in {thread.skb, None}
    BY <1>00, <1>7, NextEventIs DEF ClearNotify, ThreadGoto, ThreadState
  <2> QED BY <1>1, <1>7, <2>1 DEF ClearNotify
<1>8. CASE Take
  <2> DEFINE ct == ptp_skb[thread.i] = None
             skb == IF ct THEN ptp_ct_skb[thread.i] ELSE ptp_skb[thread.i]
  <2>1. /\ thread.pc = "take" /\ UNCHANGED <<tx, rx, used, stamped>>
        /\ ptp_skb' = [ptp_skb EXCEPT ![thread.i] = None]
        /\ ptp_ct_skb' = IF ct THEN [ptp_ct_skb EXCEPT ![thread.i] = None] ELSE ptp_ct_skb
        /\ IF skb = None THEN NextEvent
           ELSE thread' = [thread EXCEPT !.pc = "stamp", !.skb = skb, !.ct = ct]
    BY <1>8 DEF Take
  <2>2. thread.skb = None
    BY <1>0, <2>1 DEF InHands
  <2>3. thread'.skb = skb
    <3>1. CASE skb = None
      <4> HIDE DEF skb, ct
      <4> QED BY <1>00, <2>1, <3>1, NextEventIs
    <3>2. CASE skb # None
      <4> HIDE DEF skb, ct
      <4> QED BY <1>00, <2>1, <3>2 DEF ThreadState
    <3> QED BY <3>1, <3>2
  <2>4. ASSUME NEW s \in Skbs
        PROVE  /\ ToCome(s)' <=> ToCome(s)
               /\ Handed(s)' <=> Handed(s)
               /\ Waits(s)' => Waits(s)
               /\ s = skb => Waits(s) /\ ~Waits(s)'
    <3>1. /\ ToCome(s)' <=> ToCome(s)
          /\ Handed(s)' <=> Handed(s)
      BY <2>1 DEF ToCome, Handed
    <3>2. Waits(s)' => Waits(s)
      BY <1>00, <2>1 DEF Waits
    <3>3. s = skb => Waits(s)
      BY <1>00 DEF Waits
    <3>4. ASSUME s = skb PROVE ~Waits(s)'
      <4>1. Event[s] = thread.i
        BY <1>0, <1>00, <3>4 DEF Sorted
      <4>2. ASSUME NEW e \in Events, ptp_skb'[e] = s PROVE FALSE
        <5>1. e # thread.i /\ ptp_skb[e] = s
          BY <1>00, <2>1, <4>2
        <5> QED BY <1>0, <1>00, <4>1, <5>1 DEF Sorted
      <4>3. ASSUME NEW e \in Events, ptp_ct_skb'[e] = s PROVE FALSE
        <5>1. ptp_ct_skb[e] = s
          BY <1>00, <2>1, <4>3
        <5>2. e = thread.i
          BY <1>0, <1>00, <4>1, <5>1 DEF Sorted
        <5>3. CASE ct
          BY <1>00, <2>1, <4>3, <5>2, <5>3
        <5>4. CASE ~ct
          <6>1. s \in TxSkbs /\ s \in CtSkbs
            BY <1>00, <3>4, <5>1, <5>2, <5>4
          <6> QED BY <1>00, <6>1
        <5> QED BY <5>3, <5>4
      <4> QED BY <4>2, <4>3 DEF Waits
    <3> QED BY <3>1, <3>2, <3>3, <3>4
  <2> HIDE DEF skb, ct
  <2> QED BY <1>0, <1>00, <2>2, <2>3, <2>4 DEF OnePlace
<1>9. CASE Finish
  <2>1. /\ thread.skb \in Skbs /\ thread'.skb = None
        /\ stamped' = stamped \cup {<<thread.skb, thread.ns>>}
        /\ UNCHANGED <<tables, tx, rx, used>>
    BY <1>0, <1>00, <1>9, NextEventIs DEF Finish, InHands
  <2>2. \A s \in Skbs : Handed(s)' => Handed(s) \/ s = thread.skb
    BY <2>1 DEF Handed
  <2>3. \A s \in Skbs : (ToCome(s)' <=> ToCome(s)) /\ (Waits(s)' <=> Waits(s))
    BY <2>1 DEF ToCome, Waits
  <2> QED BY <1>0, <1>00, <2>1, <2>2, <2>3 DEF OnePlace
<1>10. ASSUME NEW c \in CtSkbs, Receive(c) PROVE OnePlace'
  <2>1. ASSUME NEW r \in Skbs
        PROVE  /\ ToCome(r)' => ToCome(r)
               /\ Waits(r)' => Waits(r)
               /\ thread'.skb = r => thread.skb = r
               /\ Handed(r)' => Handed(r)
    BY <1>10 DEF Receive, ToCome, Waits, Handed
  <2> QED BY <1>0, <2>1, OnePlaceKept
<1>11. CASE Look
  <2>1. rx'.skb = rx.skb
    BY <1>00, <1>11 DEF Look, RxState
  <2> QED BY <1>1, <1>11, <2>1 DEF Look
<1>12. CASE Wipe
  <2>1. /\ UNCHANGED <<tables, tx, thread, used>> /\ rx.skb \in CtSkbs \cap used
        /\ \/ stamped' = stamped /\ rx' = [rx EXCEPT !.pc = "store"]
           \/ rx' = RxIdle /\ stamped' = stamped \cup {<<rx.skb, rx.ns>>}
    BY <1>0, <1>12 DEF Wipe, InHands
  <2>2. CASE stamped' = stamped /\ rx' = [rx EXCEPT !.pc = "store"]
    <3>1. rx'.skb = rx.skb
      BY <1>00, <2>2 DEF RxState
    <3> QED BY <1>1, <2>1, <2>2, <3>1
  <2>3. CASE rx' = RxIdle /\ stamped' = stamped \cup {<<rx.skb, rx.ns>>}
    <3>a. PICK m \in CtSkbs \cap used : m = rx.skb
      BY <2>1
    <3>1. m \in Skbs /\ ToCome(m) /\ rx'.skb = None
      BY <1>00, <2>1, <2>3, <3>a DEF ToCome, RxIdle
    <3>2. ~ToCome(m)'
      <4>1. tx.pc = "store" => tx.skb # m
        BY <1>0, <1>00 DEF InHands
      <4> QED BY <1>00, <2>1, <3>1, <4>1 DEF ToCome
    <3>3. \A s \in Skbs : Handed(s)' => Handed(s) \/ s = m
      BY <2>3, <3>a DEF Handed
    <3>4. \A s \in Skbs : (ToCome(s)' => ToCome(s)) /\ (Waits(s)' <=> Waits(s))
      BY <1>00, <2>1, <3>1 DEF ToCome, Waits
    <3> QED BY <1>0, <1>00, <2>1, <3>1, <3>2, <3>3, <3>4 DEF OnePlace
  <2> QED BY <2>1, <2>2, <2>3
<1>13. CASE CtStore
  <2>1. /\ rx.skb \in CtSkbs \cap used /\ rx'.skb = None
        /\ ptp_ct_skb' = [ptp_ct_skb EXCEPT ![Event[rx.skb]] = rx.skb]
        /\ UNCHANGED <<ptp_skb, tx, thread, used, stamped>>
    BY <1>0, <1>13 DEF CtStore, InHands, RxIdle
  <2>a. PICK m \in CtSkbs \cap used : m = rx.skb
    BY <2>1
  <2>2. ~ToCome(m)'
    <3>1. tx.pc = "store" => tx.skb # m
      BY <1>0, <1>00 DEF InHands
    <3> QED BY <1>00, <2>1, <3>1 DEF ToCome
  <2>3. ToCome(m) /\ m \in Skbs
    BY <1>00, <2>1, <2>a DEF ToCome
  <2>4. thread.skb # m /\ ~Handed(m)
    BY <1>0, <2>3 DEF OnePlace
  <2>5. ASSUME NEW s \in Skbs, s # m
        PROVE  /\ ToCome(s)' => ToCome(s)
               /\ Waits(s)' => Waits(s)
    BY <1>00, <2>1, <2>a, <2>5 DEF ToCome, Waits
  <2>6. \A s \in Skbs : Handed(s)' <=> Handed(s)
    BY <2>1 DEF Handed
  <2> QED BY <1>0, <2>1, <2>2, <2>4, <2>5, <2>6 DEF OnePlace
<1>14. CASE Stop
  <2>1. /\ ptp_skb' = Empty /\ ptp_ct_skb' = Empty
        /\ UNCHANGED <<tx, rx, thread, used, stamped>>
    BY <1>14 DEF Stop
  <2>2. ASSUME NEW s \in Skbs
        PROVE  /\ ToCome(s)' => ToCome(s)
               /\ Waits(s)' => Waits(s)
               /\ thread'.skb = s => thread.skb = s
               /\ Handed(s)' => Handed(s)
    BY <1>00, <2>1 DEF ToCome, Waits, Handed, Empty
  <2> QED BY <1>0, <2>2, OnePlaceKept
<1> USE DEF Next, emac_hwtstamp_config_set, FwTransmit, FwForward, Open, vars
<1> QED BY <1>2, <1>3, <1>4, <1>5, <1>6, <1>7, <1>8, <1>9, <1>10, <1>11, <1>12, <1>13, <1>14

LEMMA InvInit == ASSUME Init PROVE Inv
<1>1. Sorted /\ InHands /\ HostOnly
  BY DEF Init, Sorted, InHands, HostOnly, Empty, TxIdle, RxIdle, ThreadIdle
<1>2. OnePlace
  BY NoneIsNoMessage DEF Init, OnePlace, Waits, Handed, Empty, ThreadIdle, Skbs
<1> QED BY <1>1, <1>2, TypedInit DEF Inv
LEMMA InvStep == ASSUME Inv, [Next]_vars PROVE Inv'
  BY TypedStep, SortedStep, InHandsStep, HostOnlyStep, OnePlaceStep DEF Inv

\* A message with its time stamp goes to its sender, or up the stack, at most
\* once (prueth_ptp_tx_irq_work and prueth_hsr_ptp_ct_tx_ts_enqueue): what
\* waits or is at hand has not been handed over.
THEOREM HandedOverOnceAlways == Spec => []HandedOverOnce
<1>1. Inv => HandedOverOnce
  <2> SUFFICES ASSUME Inv, NEW s \in Skbs,
                      Waits(s) \/ s \in {rx.skb, thread.skb}
               PROVE  ~Handed(s)
    BY DEF HandedOverOnce, Waits, Handed
  <2> QED BY DEF Inv, OnePlace, ToCome
<1> QED BY <1>1, InvInit, InvStep, PTL DEF Spec

(* ------------------------------ references ------------------------------ *)

LEMMA HsrKept ==
  ASSUME [Next]_vars
  PROVE  hsr' = hsr
  BY DEF Next, emac_hwtstamp_config_set, Send, Store, Commit, Free, FwTransmit, FwForward, TxIrq,
         ReadNotify, ClearNotify, Take, ReadStamp, Finish, Receive, Look, Wipe, CtStore, Stop,
         Open, vars, mode, tables, ram, history

\* The places that use a message, counted.
LEMMA HoldersCounted ==
  ASSUME Inv, NEW s \in TxSkbs
  PROVE  Cardinality(Holders(s)) =
           One(tx.pc # "idle" /\ tx.skb = s) + One(ptp_skb[Event[s]] = s) + One(thread.skb = s)
<1> DEFINE A == {<<"tx">> : x \in {tx} \cap [pc : {"store", "commit", "free"}, skb : {s}]}
           B == {<<"waits", e>> : e \in {e \in Events : ptp_skb[e] = s}}
           C == {<<"thread">> : x \in {thread.skb} \cap {s}}
<1>0. /\ tx \in TxState /\ ptp_skb \in [Events -> TxSkbs \cup {None}]
      /\ Event[s] \in Events /\ s # None
      /\ \A e \in Events : ptp_skb[e] # None => Event[ptp_skb[e]] = e
  BY Parts, NoneIsNoMessage DEF Inv, Sorted, Skbs
<1>1. A = IF tx.pc # "idle" /\ tx.skb = s THEN {<<"tx">>} ELSE {}
  <2>1. tx \in [pc : {"store", "commit", "free"}, skb : {s}] <=> tx.pc # "idle" /\ tx.skb = s
    BY <1>0 DEF TxState
  <2> QED BY <2>1
<1>2. B = IF ptp_skb[Event[s]] = s THEN {<<"waits", Event[s]>>} ELSE {}
  <2>1. {e \in Events : ptp_skb[e] = s} = IF ptp_skb[Event[s]] = s THEN {Event[s]} ELSE {}
    BY <1>0
  <2> QED BY <2>1
<1>3. C = IF thread.skb = s THEN {<<"thread">>} ELSE {}
  OBVIOUS
<1>4. Holders(s) = (A \cup B) \cup C
  BY DEF Holders
<1>5. ASSUME NEW b \in BOOLEAN, NEW x, NEW S, S = IF b THEN {x} ELSE {}
      PROVE  IsFiniteSet(S) /\ Cardinality(S) = One(b)
  BY <1>5, FS_Singleton, FS_EmptySet DEF One
<1>6. /\ IsFiniteSet(A) /\ Cardinality(A) = One(tx.pc # "idle" /\ tx.skb = s)
      /\ IsFiniteSet(B) /\ Cardinality(B) = One(ptp_skb[Event[s]] = s)
      /\ IsFiniteSet(C) /\ Cardinality(C) = One(thread.skb = s)
  <2> HIDE DEF A, B, C
  <2> QED BY <1>1, <1>2, <1>3, <1>5
<1>7. A \cap B = {} /\ (A \cup B) \cap C = {}
  <2>1. \A e : <<"tx">> # <<"waits", e>> /\ <<"thread">> # <<"waits", e>>
    OBVIOUS
  <2>2. <<"tx">> # <<"thread">>
    OBVIOUS
  <2> QED BY <2>1, <2>2
<1> HIDE DEF A, B, C
<1>8. ASSUME NEW X, NEW Y, IsFiniteSet(X), IsFiniteSet(Y), X \cap Y = {}
      PROVE  IsFiniteSet(X \cup Y) /\ Cardinality(X \cup Y) = Cardinality(X) + Cardinality(Y)
  <2>1. /\ IsFiniteSet(X \cup Y)
        /\ Cardinality(X \cup Y) = Cardinality(X) + Cardinality(Y) - Cardinality(X \cap Y)
    BY <1>8, FS_Union
  <2>2. Cardinality(X \cap Y) = 0
    BY <1>8, FS_EmptySet
  <2>3. Cardinality(X) \in Nat /\ Cardinality(Y) \in Nat
    BY <1>8, FS_CardinalityType
  <2> QED BY <2>1, <2>2, <2>3
<1>9. IsFiniteSet(A \cup B) /\ Cardinality(A \cup B) = Cardinality(A) + Cardinality(B)
  BY <1>6, <1>7, <1>8
<1>10. Cardinality(Holders(s)) = Cardinality(A \cup B) + Cardinality(C)
  BY <1>4, <1>6, <1>7, <1>8, <1>9
<1> QED BY <1>6, <1>9, <1>10

LEMMA RefsCountedStep ==
  ASSUME Inv, RefsCounted, [Next]_vars
  PROVE  RefsCounted'
<1> USE DEF mode, tables, ram, history
<1>0. Typed /\ Sorted /\ InHands /\ HostOnly
  BY DEF Inv
<1>00. /\ tx \in TxState /\ thread \in ThreadState /\ refs \in [Skbs -> Int]
       /\ ptp_skb \in [Events -> TxSkbs \cup {None}]
       /\ thread.i \in Events /\ thread.skb \in Skbs \cup {None} /\ None \notin Skbs
       /\ TxSkbs \subseteq Skbs /\ \A s \in TxSkbs : Event[s] \in Events
  BY <1>0, Parts, NoneIsNoMessage DEF Skbs
<1>h. hsr' = hsr
  BY HsrKept
<1> DEFINE T(s) == One(tx.pc # "idle" /\ tx.skb = s)
           W(s) == One(ptp_skb[Event[s]] = s)
           H(s) == One(thread.skb = s)
<1>a. SUFFICES ASSUME ~hsr, NEW s \in TxSkbs PROVE refs'[s] = T(s)' + W(s)' + H(s)'
  BY <1>h DEF RefsCounted
<1>b. /\ refs[s] = T(s) + W(s) + H(s) /\ refs[s] \in Int /\ s \in Skbs /\ s # None
      /\ Event[s] \in Events
  BY <1>a, <1>00 DEF RefsCounted
<1>r. /\ rx = RxIdle /\ rx.pc = "idle" /\ ptp_ct_skb = Empty
  BY <1>0, <1>a DEF HostOnly, RxIdle
<1>1. CASE UNCHANGED <<refs, tx, thread, ptp_skb>>
  BY <1>b, <1>1
<1>2. ASSUME NEW m \in TxSkbs, Send(m) PROVE refs'[s] = T(s)' + W(s)' + H(s)'
  <2>1. /\ tx.pc = "idle" /\ tx'.pc # "idle" /\ tx'.skb = m
        /\ refs' = [refs EXCEPT ![m] = @ + 1] /\ UNCHANGED <<ptp_skb, thread>>
    BY <1>2 DEF Send, Get
  <2>2. refs'[s] = refs[s] + One(s = m)
    BY <1>00, <1>b, <2>1 DEF One
  <2> QED BY <1>b, <2>1, <2>2 DEF One
<1>3. CASE Store
  <2>1. /\ tx.pc = "store" /\ tx'.pc = "commit" /\ tx'.skb = tx.skb
        /\ tx.skb \in TxSkbs /\ UNCHANGED thread
        /\ ptp_skb' = [ptp_skb EXCEPT ![Event[tx.skb]] = tx.skb]
        /\ refs' = [r \in Skbs |-> refs[r] + (IF r = tx.skb THEN 1 ELSE 0)
                                     - (IF r = ptp_skb[Event[tx.skb]] THEN 1 ELSE 0)]
    BY <1>0, <1>00, <1>3 DEF Store, InHands, TxState
  <2>2. refs'[s] = refs[s] + One(s = tx.skb) - One(s = ptp_skb[Event[tx.skb]])
    BY <1>b, <2>1 DEF One
  <2>3. W(s)' = W(s) + One(s = tx.skb) - One(s = ptp_skb[Event[tx.skb]])
    <3>1. CASE Event[s] = Event[tx.skb]
      <4>1. ptp_skb'[Event[s]] = tx.skb
        BY <1>00, <1>b, <2>1, <3>1
      <4> QED BY <1>b, <3>1, <4>1 DEF One
    <3>2. CASE Event[s] # Event[tx.skb]
      <4>1. ptp_skb'[Event[s]] = ptp_skb[Event[s]] /\ s # tx.skb
        BY <1>00, <1>b, <2>1, <3>2
      <4>2. s # ptp_skb[Event[tx.skb]]
        BY <1>0, <1>00, <1>b, <2>1, <3>2 DEF Sorted
      <4> QED BY <4>1, <4>2 DEF One
    <3> QED BY <3>1, <3>2
  <2>4. T(s)' = T(s) /\ H(s)' = H(s)
    BY <2>1
  <2> QED BY <1>b, <2>2, <2>3, <2>4 DEF One
<1>4. CASE Commit
  <2>1. tx.pc # "idle" /\ tx'.pc # "idle" /\ tx'.skb = tx.skb /\ UNCHANGED <<refs, thread, ptp_skb>>
    BY <1>00, <1>4 DEF Commit, TxState
  <2> QED BY <1>b, <2>1
<1>5. CASE Free
  <2>1. /\ tx.pc # "idle" /\ tx'.pc = "idle" /\ UNCHANGED <<thread, ptp_skb>>
        /\ refs' = [refs EXCEPT ![tx.skb] = @ - 1]
    BY <1>5 DEF Free, TxIdle, Put
  <2>2. refs'[s] = refs[s] - One(s = tx.skb)
    BY <1>00, <1>b, <2>1 DEF One
  <2> QED BY <1>b, <2>1, <2>2 DEF One
<1>6. ASSUME UNCHANGED <<refs, tx, ptp_skb>>, thread'.skb = thread.skb
      PROVE  refs'[s] = T(s)' + W(s)' + H(s)'
  BY <1>b, <1>6
<1>7. CASE TxIrq \/ ReadNotify \/ ReadStamp
  <2>1. CASE TxIrq
    <3>1. thread'.skb = None /\ thread.skb = None
      BY <1>0, <2>1 DEF TxIrq, ThreadIdle, InHands
    <3> QED BY <1>6, <2>1, <3>1 DEF TxIrq
  <2>2. CASE ReadNotify \/ ReadStamp
    <3>1. thread'.skb = thread.skb
      BY <1>00, <2>2 DEF ReadNotify, ReadStamp, ThreadState
    <3> QED BY <1>6, <2>2, <3>1 DEF ReadNotify, ReadStamp
  <2> QED BY <1>7, <2>1, <2>2
<1>8. CASE ClearNotify
  <2>1. thread'.skb = thread.skb
    BY <1>0, <1>00, <1>8, NextEventIs DEF ClearNotify, ThreadGoto, ThreadState, InHands
  <2> QED BY <1>6, <1>8, <2>1 DEF ClearNotify
<1>9. CASE Take
  <2> DEFINE ct == ptp_skb[thread.i] = None
             skb == IF ct THEN ptp_ct_skb[thread.i] ELSE ptp_skb[thread.i]
  <2>1. /\ thread.pc = "take" /\ UNCHANGED <<tx, refs>>
        /\ ptp_skb' = [ptp_skb EXCEPT ![thread.i] = None]
        /\ IF skb = None THEN NextEvent
           ELSE thread' = [thread EXCEPT !.pc = "stamp", !.skb = skb, !.ct = ct]
    BY <1>9 DEF Take
  <2>2. thread.skb = None
    BY <1>0, <2>1 DEF InHands
  <2>3. thread'.skb = skb
    <3>1. CASE skb = None
      <4> HIDE DEF skb, ct
      <4> QED BY <1>00, <2>1, <3>1, NextEventIs
    <3>2. CASE skb # None
      <4> HIDE DEF skb, ct
      <4> QED BY <1>00, <2>1, <3>2 DEF ThreadState
    <3> QED BY <3>1, <3>2
  <2>4. skb = ptp_skb[thread.i]
    BY <1>00, <1>r DEF Empty
  <2>5. W(s)' = W(s) - One(skb = s)
    <3>1. CASE Event[s] = thread.i
      <4>1. ptp_skb'[Event[s]] = None
        BY <1>00, <1>b, <2>1, <3>1
      <4> HIDE DEF skb
      <4> QED BY <1>b, <2>4, <3>1, <4>1 DEF One
    <3>2. CASE Event[s] # thread.i
      <4>1. ptp_skb'[Event[s]] = ptp_skb[Event[s]]
        BY <1>00, <1>b, <2>1, <3>2
      <4> HIDE DEF skb
      <4>2. s # skb
        BY <1>0, <1>00, <1>b, <2>4, <3>2 DEF Sorted
      <4> QED BY <4>1, <4>2 DEF One
    <3> QED BY <3>1, <3>2
  <2> HIDE DEF skb, ct
  <2>6. H(s) = 0 /\ H(s)' = One(skb = s) /\ T(s)' = T(s)
    BY <1>b, <2>1, <2>2, <2>3 DEF One
  <2> QED BY <1>b, <2>1, <2>5, <2>6 DEF One
<1>10. CASE Finish
  <2>1. /\ thread.skb # None /\ thread'.skb = None /\ UNCHANGED <<tx, ptp_skb>>
        /\ refs' = [refs EXCEPT ![thread.skb] = @ - 1]
    BY <1>0, <1>00, <1>10, NextEventIs DEF Finish, InHands, Put
  <2>2. refs'[s] = refs[s] - One(s = thread.skb)
    BY <1>00, <1>b, <2>1 DEF One
  <2> QED BY <1>b, <2>1, <2>2 DEF One
<1>11. ASSUME NEW c \in CtSkbs, Receive(c) PROVE refs'[s] = T(s)' + W(s)' + H(s)'
  BY <1>a, <1>11 DEF Receive
<1>12. CASE Look \/ Wipe \/ CtStore
  BY <1>r, <1>12 DEF Look, Wipe, CtStore
<1>13. CASE Stop
  <2> DEFINE G == {e \in Events : ptp_skb[e] = s}
             D == {e \in Events : ptp_ct_skb[e] = s}
  <2>1. /\ refs'[s] = refs[s] - (Cardinality(G) + Cardinality(D))
        /\ ptp_skb' = Empty /\ UNCHANGED <<tx, thread>>
    BY <1>b, <1>13 DEF Stop
  <2>2. D = {}
    BY <1>b, <1>r DEF Empty
  <2>3. G = IF ptp_skb[Event[s]] = s THEN {Event[s]} ELSE {}
    BY <1>0, <1>00, <1>b DEF Sorted
  <2>4. Cardinality(D) = 0 /\ Cardinality(G) = W(s)
    <3> HIDE DEF D, G
    <3> QED BY <2>2, <2>3, FS_EmptySet, FS_Singleton DEF One
  <2>5. W(s)' = 0 /\ T(s)' = T(s) /\ H(s)' = H(s)
    BY <1>b, <2>1 DEF Empty, One
  <2> HIDE DEF D, G
  <2> QED BY <1>b, <2>1, <2>4, <2>5 DEF One
<1> USE DEF Next, emac_hwtstamp_config_set, FwTransmit, FwForward, Open, vars
<1> QED BY <1>1, <1>2, <1>3, <1>4, <1>5, <1>7, <1>8, <1>9, <1>10, <1>11, <1>12, <1>13

\* Without HSR the references to a message are those of the places that use
\* it, so that it is neither leaked nor freed while it waits nor freed twice
\* (the skb_get() and dev_consume_skb_any() of prueth_ptp_tx_ts_enqueue,
\* prueth_ptp_tx_irq_work, start_xmit and ndo_stop).
THEOREM RefsAlwaysRight == Spec => []RefsRight
<1>1. Inv /\ RefsCounted => RefsRight
  BY HoldersCounted DEF RefsCounted, RefsRight
<1>2. Init => RefsCounted
  BY NoneIsNoMessage DEF Init, RefsCounted, TxIdle, ThreadIdle, Empty, One, Skbs
<1>3. Inv /\ RefsCounted /\ [Next]_vars => (Inv /\ RefsCounted)'
  BY InvStep, RefsCountedStep
<1> QED BY <1>1, <1>2, <1>3, InvInit, PTL DEF Spec

(* --------------------------- its own time stamp ------------------------- *)

\* What no step changes while the port is closed.
Closed ==
  ~up => tx.pc = "idle" /\ ptp_skb = Empty /\ hw = <<>> /\ thread.pc = "idle" /\ ~raised
LEMMA ClosedStep ==
  ASSUME Inv, Closed, [Next]_vars
  PROVE  Closed'
<1> USE DEF mode, tables, ram, history
<1>1. SUFFICES ASSUME ~up' PROVE tx'.pc = "idle" /\ ptp_skb' = Empty /\ hw' = <<>>
                                 /\ thread'.pc = "idle" /\ ~raised'
  BY DEF Closed
<1>2. CASE Stop
  BY <1>2 DEF Stop
<1>3. CASE ~up
  <2>1. tx.pc = "idle" /\ ptp_skb = Empty /\ hw = <<>> /\ thread.pc = "idle" /\ ~raised
    BY <1>3 DEF Closed
  <2>2. CASE UNCHANGED <<tx, ptp_skb, hw, thread, raised>>
    BY <2>1, <2>2
  <2> QED BY <1>1, <1>2, <1>3, <2>1, <2>2
          DEF Next, emac_hwtstamp_config_set, Send, Store, Commit, Free, FwTransmit, FwForward,
              TxIrq, ReadNotify, ClearNotify, Take, ReadStamp, Finish, Receive, Look, Wipe,
              CtStore, Open, vars
<1>4. CASE up /\ ~Stop
  BY <1>1, <1>4
     DEF Next, emac_hwtstamp_config_set, Send, Store, Commit, Free, FwTransmit, FwForward,
         TxIrq, ReadNotify, ClearNotify, Take, ReadStamp, Finish, Receive, Look, Wipe,
         CtStore, Open, vars
<1> QED BY <1>2, <1>3, <1>4

\* The ring after a message has been added, or taken.
LEMMA RingGrows ==
  ASSUME hw \in Seq(TxSkbs), NEW s \in TxSkbs, hw' = Append(hw, s)
  PROVE  /\ Len(hw)' = Len(hw) + 1 /\ Len(hw) \in Nat
         /\ \A n \in 1 .. Len(hw)' : hw'[n] = IF n = Len(hw) + 1 THEN s ELSE hw[n]
         /\ \A n \in 1 .. Len(hw)' : n # Len(hw) + 1 => n \in 1 .. Len(hw)
  OBVIOUS
LEMMA RingShrinks ==
  ASSUME hw \in Seq(TxSkbs), hw # <<>>, hw' = Tail(hw)
  PROVE  /\ 1 \in 1 .. Len(hw) /\ Head(hw) = hw[1] /\ hw[1] \in TxSkbs
         /\ \A n \in 1 .. Len(hw)' : n \in Nat /\ n + 1 \in 1 .. Len(hw) /\ hw'[n] = hw[n + 1]
<1>1. /\ Len(hw) \in Nat \ {0} /\ Head(hw) = hw[1] /\ hw[1] \in TxSkbs
      /\ Len(hw') = Len(hw) - 1
      /\ \A n \in 1 .. Len(hw) - 1 : hw'[n] = hw[n + 1]
  BY HeadTailProperties, EmptySeq
<1> QED BY <1>1

\* Less under way than before, and the same waiting.
LEMMA OneOfEachKept ==
  ASSUME OneOfEach, UNCHANGED hw,
         \A e \in Events : (Leaving(e)' => Leaving(e)) /\ (Noted(e)' => Noted(e))
  PROVE  OneOfEach'
  BY DEF OneOfEach, InRing

LEMMA StampStep ==
  ASSUME Inv, Closed, StampInv, [Next]_vars
  PROVE  StampInv'
<1> USE DEF mode, tables, ram, history
<1>0. Typed /\ Sorted /\ InHands /\ HostOnly
  BY DEF Inv
<1>00. /\ tx \in TxState /\ thread \in ThreadState /\ hw \in Seq(TxSkbs)
       /\ ptp_skb \in [Events -> TxSkbs \cup {None}]
       /\ ts \in [Events -> Skbs \cup {None}] /\ notify \in [Events -> BOOLEAN]
       /\ thread.i \in Events /\ thread.skb \in Skbs \cup {None} /\ None \notin Skbs
       /\ TxSkbs \subseteq Skbs /\ \A s \in TxSkbs : Event[s] \in Events
  BY <1>0, Parts, NoneIsNoMessage DEF Skbs
<1>h. hsr' = hsr
  BY HsrKept
<1>v. overlap => overlap'
  BY DEF Next, emac_hwtstamp_config_set, Send, Store, Commit, Free, FwTransmit, FwForward, TxIrq,
         ReadNotify, ClearNotify, Take, ReadStamp, Finish, Receive, Look, Wipe, CtStore, Stop,
         Open, vars
<1>a. SUFFICES ASSUME ~hsr, ~overlap, ~overlap' PROVE OneOfEach' /\ StampsFit'
  BY <1>h, <1>v DEF StampInv
<1>b. OneOfEach /\ StampsFit
  BY <1>a DEF StampInv
<1>r. /\ rx = RxIdle /\ rx.pc = "idle" /\ ptp_ct_skb = Empty
  BY <1>0, <1>a DEF HostOnly, RxIdle
<1>t. \A e \in Events :
        ptp_skb[e] # None =>
          /\ tx.pc = "store" => Event[tx.skb] # e
          /\ tx.pc = "commit" /\ Event[tx.skb] = e => ptp_skb[e] = tx.skb
          /\ \A n \in 1 .. Len(hw) : Event[hw[n]] = e => ptp_skb[e] = hw[n]
          /\ Noted(e) => ts[e] = ptp_skb[e]
  BY <1>b DEF StampsFit
<1>p. /\ thread.pc \in {"stamp", "finish"} => ptp_skb[thread.i] = None
      /\ thread.pc = "stamp" => ts[thread.i] = thread.skb
      /\ thread.pc = "finish" => thread.ns = thread.skb
      /\ \A p \in stamped : p[1] = p[2]
  BY <1>b DEF StampsFit
<1>m. thread.pc \in {"take", "stamp", "finish"} => Noted(thread.i)
  BY <1>0 DEF InHands, Noted
<1>1. CASE UNCHANGED <<tx, hw, notify, ts, ptp_skb, thread, stamped>>
  BY <1>b, <1>1 DEF OneOfEach, StampsFit, Leaving, InRing, Noted
<1>2. ASSUME NEW m \in TxSkbs, Send(m) PROVE OneOfEach' /\ StampsFit'
  <2>1. /\ tx'.pc \in {"store", "commit"} /\ tx'.skb = m /\ ~UnderWay(Event[m])
        /\ UNCHANGED <<hw, notify, ts, ptp_skb, thread, stamped>>
    BY <1>a, <1>2 DEF Send
  <2>2. ptp_skb[Event[m]] = None /\ ~InRing(Event[m]) /\ ~Noted(Event[m])
    <3>1. DOMAIN hw = 1 .. Len(hw)
      BY <1>00
    <3> QED BY <2>1, <3>1 DEF UnderWay, InRing, Noted
  <2>3. \A e \in Events : /\ Leaving(e)' => e = Event[m]
                          /\ InRing(e)' = InRing(e) /\ Noted(e)' = Noted(e)
    BY <2>1 DEF Leaving, InRing, Noted
  <2>4. OneOfEach'
    BY <1>b, <2>1, <2>2, <2>3 DEF OneOfEach
  <2>5. StampsFit'
    BY <1>b, <2>1, <2>2, <2>3 DEF StampsFit
  <2> QED BY <2>4, <2>5
<1>3. CASE Store
  <2>1. /\ tx.pc = "store" /\ tx'.pc = "commit" /\ tx'.skb = tx.skb
        /\ tx.skb \in TxSkbs /\ UNCHANGED <<thread, hw, stamped>>
        /\ ptp_skb' = [ptp_skb EXCEPT ![Event[tx.skb]] = tx.skb]
        /\ ptp_skb[Event[tx.skb]] = None => UNCHANGED <<ts, notify>>
    BY <1>0, <1>00, <1>3 DEF Store, InHands, TxState
  <2>2. PICK e0 \in Events : e0 = Event[tx.skb]
    BY <1>00, <2>1
  <2>3. ptp_skb[e0] = None /\ UNCHANGED <<ts, notify>>
    BY <1>t, <2>1, <2>2
  <2>4. Leaving(e0) /\ ~InRing(e0) /\ ~Noted(e0)
    BY <1>b, <2>1, <2>2 DEF OneOfEach, Leaving
  <2>5. \A e \in Events : /\ Leaving(e)' = Leaving(e)
                          /\ InRing(e)' = InRing(e) /\ Noted(e)' = Noted(e)
    BY <2>1, <2>3 DEF Leaving, InRing, Noted
  <2>6. OneOfEach'
    BY <1>b, <2>1, <2>5 DEF OneOfEach
  <2>7. ptp_skb'[e0] = tx.skb /\ \A e \in Events : e # e0 => ptp_skb'[e] = ptp_skb[e]
    BY <1>00, <2>1, <2>2
  <2>8. ASSUME NEW e \in Events, ptp_skb'[e] # None
        PROVE  /\ tx'.pc = "commit" /\ Event[tx'.skb] = e => ptp_skb'[e] = tx'.skb
               /\ \A n \in 1 .. Len(hw) : Event[hw[n]] = e => ptp_skb'[e] = hw[n]
               /\ Noted(e) => ts[e] = ptp_skb'[e]
    <3>1. CASE e = e0
      BY <2>1, <2>4, <2>7, <3>1 DEF InRing
    <3>2. CASE e # e0
      BY <1>t, <2>1, <2>2, <2>7, <2>8, <3>2
    <3> QED BY <3>1, <3>2
  <2>9. thread.pc \in {"stamp", "finish"} => ptp_skb'[thread.i] = None
    BY <1>00, <1>p, <1>m, <2>4, <2>7
  <2>10. StampsFit'
    BY <1>p, <2>1, <2>3, <2>5, <2>8, <2>9 DEF StampsFit
  <2> QED BY <2>6, <2>10
<1>4. CASE Commit
  <2>1. /\ tx.pc = "commit" /\ tx'.pc = "free" /\ tx.skb \in TxSkbs
        /\ hw' = Append(hw, tx.skb) /\ UNCHANGED <<notify, ts, ptp_skb, thread, stamped>>
    BY <1>0, <1>00, <1>4 DEF Commit, InHands, TxState
  <2>2. PICK e0 \in Events : e0 = Event[tx.skb]
    BY <1>00, <2>1
  <2>3. Leaving(e0) /\ ~InRing(e0) /\ ~Noted(e0)
    BY <1>b, <2>1, <2>2 DEF OneOfEach, Leaving
  <2>4. /\ Len(hw)' = Len(hw) + 1 /\ Len(hw) \in Nat
        /\ \A n \in 1 .. Len(hw)' : hw'[n] = IF n = Len(hw) + 1 THEN tx.skb ELSE hw[n]
        /\ \A n \in 1 .. Len(hw)' : n # Len(hw) + 1 => n \in 1 .. Len(hw)
    BY <1>00, <2>1, RingGrows
  <2>5. \A e \in Events : /\ ~Leaving(e)' /\ Noted(e)' = Noted(e)
                          /\ InRing(e)' => InRing(e) \/ e = e0
    <3>1. \A e \in Events : InRing(e)' => InRing(e) \/ e = e0
      BY <2>2, <2>4 DEF InRing
    <3> QED BY <2>1, <3>1 DEF Leaving, Noted
  <2>6. ASSUME NEW m \in 1 .. Len(hw)', NEW n \in 1 .. Len(hw)', Event[hw'[m]] = Event[hw'[n]]
        PROVE  m = n
    <3>1. \A k \in 1 .. Len(hw)' : k # Len(hw) + 1 => Event[hw'[k]] # e0
      BY <2>3, <2>4 DEF InRing
    <3>2. CASE m = Len(hw) + 1 \/ n = Len(hw) + 1
      BY <2>2, <2>4, <2>6, <3>1, <3>2
    <3>3. CASE m # Len(hw) + 1 /\ n # Len(hw) + 1
      BY <1>b, <2>4, <2>6, <3>3 DEF OneOfEach
    <3> QED BY <3>2, <3>3
  <2>7. OneOfEach'
    BY <1>b, <2>3, <2>5, <2>6 DEF OneOfEach
  <2>8. ASSUME NEW e \in Events, ptp_skb[e] # None, NEW n \in 1 .. Len(hw)', Event[hw'[n]] = e
        PROVE  ptp_skb[e] = hw'[n]
    <3>1. CASE n = Len(hw) + 1
      BY <1>t, <2>1, <2>2, <2>4, <2>8, <3>1
    <3>2. CASE n # Len(hw) + 1
      BY <1>t, <2>4, <2>8, <3>2
    <3> QED BY <3>1, <3>2
  <2>9. StampsFit'
    BY <1>p, <1>t, <2>1, <2>5, <2>8 DEF StampsFit
  <2> QED BY <2>7, <2>9
<1>5. CASE Free
  <2>1. tx'.pc = "idle" /\ UNCHANGED <<hw, notify, ts, ptp_skb, thread, stamped>>
    BY <1>5 DEF Free, TxIdle
  <2>2. \A e \in Events : ~Leaving(e)' /\ Noted(e)' = Noted(e)
    BY <2>1 DEF Leaving, Noted
  <2>3. OneOfEach'
    BY <1>b, <2>1, <2>2, OneOfEachKept
  <2>4. StampsFit'
    BY <1>p, <1>t, <2>1, <2>2 DEF StampsFit
  <2> QED BY <2>3, <2>4
<1>6. CASE FwTransmit
  <2>1. /\ hw # <<>> /\ hw' = Tail(hw) /\ UNCHANGED <<tx, ptp_skb, thread, stamped>>
        /\ IF enabled THEN Stamp(Head(hw)) ELSE UNCHANGED <<ts, notify, raised>>
    BY <1>6 DEF FwTransmit
  <2>2. /\ 1 \in 1 .. Len(hw) /\ Head(hw) = hw[1] /\ hw[1] \in TxSkbs
        /\ \A n \in 1 .. Len(hw)' : n \in Nat /\ n + 1 \in 1 .. Len(hw) /\ hw'[n] = hw[n + 1]
    BY <1>00, <2>1, RingShrinks
  <2>3. PICK s \in TxSkbs : s = hw[1]
    BY <2>2
  <2>4. PICK e0 \in Events : e0 = Event[s]
    BY <1>00
  <2>5. InRing(e0) /\ ~Noted(e0) /\ ~Leaving(e0)
    <3>1. InRing(e0)
      BY <2>2, <2>3, <2>4 DEF InRing
    <3> QED BY <1>b, <3>1 DEF OneOfEach
  <2>6. \A e \in Events : InRing(e)' => InRing(e)
    BY <2>2 DEF InRing
  <2>7. ~InRing(e0)'
    <3>1. ASSUME NEW n \in 1 .. Len(hw)' PROVE Event[hw'[n]] # e0
      <4>1. n + 1 \in 1 .. Len(hw) /\ n + 1 # 1 /\ hw'[n] = hw[n + 1]
        BY <2>2
      <4>2. \A m, k \in 1 .. Len(hw) : Event[hw[m]] = Event[hw[k]] => m = k
        BY <1>b DEF OneOfEach
      <4> QED BY <2>2, <2>3, <2>4, <4>1, <4>2
    <3> QED BY <3>1 DEF InRing
  <2>8. ASSUME NEW m \in 1 .. Len(hw)', NEW n \in 1 .. Len(hw)', Event[hw'[m]] = Event[hw'[n]]
        PROVE  m = n
    <3>1. m + 1 = n + 1
      BY <1>b, <2>2, <2>8 DEF OneOfEach
    <3> QED BY <2>2, <3>1
  <2>9. /\ \A e \in Events : e # e0 => ts'[e] = ts[e] /\ Noted(e)' = Noted(e)
        /\ Noted(e0)' => ts'[e0] = s
    <3>1. CASE enabled
      <4>1. ts' = [ts EXCEPT ![e0] = s] /\ notify' = [notify EXCEPT ![e0] = TRUE]
        BY <2>1, <2>2, <2>3, <2>4, <3>1 DEF Stamp
      <4> QED BY <1>00, <2>1, <4>1 DEF Noted
    <3>2. CASE ~enabled
      BY <2>1, <2>5, <3>2 DEF Noted
    <3> QED BY <3>1, <3>2
  <2>10. \A e \in Events : Leaving(e)' = Leaving(e)
    BY <2>1 DEF Leaving
  <2>11. OneOfEach'
    BY <1>b, <2>5, <2>6, <2>7, <2>8, <2>9, <2>10 DEF OneOfEach
  <2>12. ASSUME NEW e \in Events, ptp_skb[e] # None
         PROVE  /\ \A n \in 1 .. Len(hw)' : Event[hw'[n]] = e => ptp_skb[e] = hw'[n]
                /\ Noted(e)' => ts'[e] = ptp_skb[e]
    <3>1. \A n \in 1 .. Len(hw)' : Event[hw'[n]] = e => ptp_skb[e] = hw'[n]
      BY <1>t, <2>2, <2>12
    <3>2. CASE e = e0
      BY <1>t, <2>2, <2>3, <2>4, <2>9, <2>12, <3>1, <3>2
    <3>3. CASE e # e0
      BY <1>t, <2>9, <2>12, <3>1, <3>3
    <3> QED BY <3>2, <3>3
  <2>13. thread.pc = "stamp" => ts'[thread.i] = thread.skb
    BY <1>00, <1>p, <1>m, <2>5, <2>9
  <2>14. StampsFit'
    BY <1>p, <1>t, <2>1, <2>12, <2>13 DEF StampsFit
  <2> QED BY <2>11, <2>14
<1>7. ASSUME UNCHANGED <<tx, hw, ts, ptp_skb, stamped>>, thread'.pc \notin {"stamp", "finish"},
             \A e \in Events : Noted(e)' => Noted(e)
      PROVE  OneOfEach' /\ StampsFit'
  <2>1. \A e \in Events : Leaving(e)' = Leaving(e)
    BY <1>7 DEF Leaving
  <2>2. OneOfEach'
    BY <1>b, <1>7, <2>1, OneOfEachKept
  <2>3. StampsFit'
    BY <1>p, <1>t, <1>7 DEF StampsFit
  <2> QED BY <2>2, <2>3
<1>8. CASE TxIrq
  <2>1. thread'.pc \in {"idle", "read"} /\ thread'.mask = FALSE /\ UNCHANGED notify
    BY <1>8 DEF TxIrq, ThreadIdle
  <2>2. \A e \in Events : Noted(e)' => Noted(e)
    BY <2>1 DEF Noted
  <2> QED BY <1>7, <1>8, <2>1, <2>2 DEF TxIrq
<1>9. CASE ReadNotify
  <2>1. thread'.pc = "clear" /\ thread'.mask = notify[thread.i] /\ thread'.i = thread.i
    BY <1>00, <1>9 DEF ReadNotify, ThreadState
  <2>2. \A e \in Events : Noted(e)' => Noted(e)
    BY <1>9, <2>1 DEF Noted, ReadNotify
  <2> QED BY <1>7, <1>9, <2>1, <2>2 DEF ReadNotify
<1>10. CASE ClearNotify
  <2>1. /\ notify' = [notify EXCEPT ![thread.i] = FALSE]
        /\ IF thread.mask THEN ThreadGoto("take") ELSE NextEvent
    BY <1>10 DEF ClearNotify
  <2>2. /\ thread'.pc \notin {"stamp", "finish"}
        /\ thread'.mask => thread.mask /\ thread'.i = thread.i
    <3>1. CASE thread.mask
      BY <1>00, <2>1, <3>1 DEF ThreadGoto, ThreadState
    <3>2. CASE ~thread.mask
      BY <1>00, <2>1, <3>2, NextEventIs
    <3> QED BY <3>1, <3>2
  <2>3. \A e \in Events : Noted(e)' => Noted(e)
    BY <1>00, <2>1, <2>2 DEF Noted
  <2> QED BY <1>7, <1>10, <2>2, <2>3 DEF ClearNotify
<1>11. CASE Take
  <2> DEFINE ct == ptp_skb[thread.i] = None
             skb == IF ct THEN ptp_ct_skb[thread.i] ELSE ptp_skb[thread.i]
  <2>1. /\ thread.pc = "take" /\ UNCHANGED <<tx, hw, ts, notify, stamped>>
        /\ ptp_skb' = [ptp_skb EXCEPT ![thread.i] = None]
        /\ IF skb = None THEN NextEvent
           ELSE thread' = [thread EXCEPT !.pc = "stamp", !.skb = skb, !.ct = ct]
    BY <1>11 DEF Take
  <2>2. skb = ptp_skb[thread.i]
    BY <1>00, <1>r DEF Empty
  <2>3. /\ thread'.mask => thread.mask /\ thread'.i = thread.i
        /\ thread'.pc # "finish"
        /\ thread'.pc = "stamp" => skb # None /\ thread'.i = thread.i /\ thread'.skb = skb
    <3> HIDE DEF skb, ct
    <3>1. CASE skb = None
      BY <1>00, <2>1, <3>1, NextEventIs
    <3>2. CASE skb # None
      BY <1>00, <2>1, <3>2 DEF ThreadState
    <3> QED BY <3>1, <3>2
  <2>4. \A e \in Events : Leaving(e)' = Leaving(e) /\ (Noted(e)' => Noted(e))
    BY <2>1, <2>3 DEF Noted, Leaving
  <2>5. OneOfEach'
    BY <1>b, <2>1, <2>4, OneOfEachKept
  <2>6. \A e \in Events : ptp_skb'[e] # None => ptp_skb'[e] = ptp_skb[e]
    BY <1>00, <2>1
  <2>7. thread'.pc = "stamp" => ptp_skb'[thread'.i] = None /\ ts[thread'.i] = thread'.skb
    <3>1. skb # None => ts[thread.i] = skb
      BY <1>00, <1>t, <1>m, <2>1, <2>2
    <3> HIDE DEF skb, ct
    <3> QED BY <1>00, <2>1, <2>3, <3>1
  <2>8. StampsFit'
    <3> HIDE DEF skb, ct
    <3> QED BY <1>p, <1>t, <2>1, <2>3, <2>4, <2>6, <2>7 DEF StampsFit
  <2> QED BY <2>5, <2>8
<1>12. CASE ReadStamp
  <2>1. /\ thread.pc = "stamp" /\ thread'.pc = "finish" /\ thread'.i = thread.i
        /\ thread'.mask = thread.mask /\ thread'.skb = thread.skb /\ thread'.ns = ts[thread.i]
        /\ UNCHANGED <<tx, hw, ts, notify, ptp_skb, stamped>>
    BY <1>00, <1>12 DEF ReadStamp, ThreadState
  <2>2. \A e \in Events : Leaving(e)' = Leaving(e) /\ Noted(e)' = Noted(e)
    BY <2>1 DEF Noted, Leaving
  <2>3. OneOfEach'
    BY <1>b, <2>1, <2>2, OneOfEachKept
  <2>4. StampsFit'
    BY <1>p, <1>t, <2>1, <2>2 DEF StampsFit
  <2> QED BY <2>3, <2>4
<1>13. CASE Finish
  <2>1. /\ thread.pc = "finish" /\ ts' = [ts EXCEPT ![thread.i] = None]
        /\ stamped' = stamped \cup {<<thread.skb, thread.ns>>}
        /\ thread'.mask = FALSE /\ thread'.pc \in {"idle", "read"}
        /\ UNCHANGED <<tx, hw, notify, ptp_skb>>
    BY <1>00, <1>13, NextEventIs DEF Finish
  <2>2. \A e \in Events : Leaving(e)' = Leaving(e) /\ (Noted(e)' => Noted(e))
    BY <2>1 DEF Noted, Leaving
  <2>3. OneOfEach'
    BY <1>b, <2>1, <2>2, OneOfEachKept
  <2>4. \A e \in Events : ptp_skb[e] # None => ts'[e] = ts[e]
    BY <1>00, <1>p, <2>1
  <2>5. \A p \in stamped' : p[1] = p[2]
    BY <1>p, <2>1
  <2>6. StampsFit'
    BY <1>t, <2>1, <2>2, <2>4, <2>5 DEF StampsFit
  <2> QED BY <2>3, <2>6
<1>14. ASSUME NEW c \in CtSkbs, Receive(c) \/ FwForward(c) PROVE OneOfEach' /\ StampsFit'
  BY <1>a, <1>14 DEF Receive, FwForward
<1>15. CASE Look \/ Wipe \/ CtStore
  BY <1>r, <1>15 DEF Look, Wipe, CtStore
<1>16. CASE Stop
  <2>1. /\ tx.pc = "idle" /\ thread.pc = "idle" /\ hw' = <<>> /\ ptp_skb' = Empty
        /\ UNCHANGED <<tx, thread, stamped>>
        /\ \A e \in Events : notify'[e] => notify[e]
    BY <1>00, <1>16 DEF Stop
  <2>2. \A e \in Events : ~Leaving(e)' /\ ~InRing(e)' /\ ptp_skb'[e] = None
    BY <2>1 DEF Leaving, InRing, Empty
  <2> QED BY <1>p, <2>1, <2>2 DEF OneOfEach, StampsFit
<1>17. ASSUME NEW cleared \in BOOLEAN, Open(cleared) PROVE OneOfEach' /\ StampsFit'
  <2>1. /\ tx.pc = "idle" /\ ptp_skb = Empty /\ hw = <<>> /\ thread.pc = "idle"
        /\ UNCHANGED <<tx, ptp_skb, hw, thread, stamped>>
    BY <1>17 DEF Open, Closed
  <2>2. \A e \in Events : ~Leaving(e)' /\ ~InRing(e)' /\ ptp_skb'[e] = None
    BY <2>1 DEF Leaving, InRing, Empty
  <2> QED BY <1>p, <2>1, <2>2 DEF OneOfEach, StampsFit
<1>18. ASSUME NEW on \in BOOLEAN, emac_hwtstamp_config_set(on) PROVE OneOfEach' /\ StampsFit'
  BY <1>1, <1>18 DEF emac_hwtstamp_config_set
<1>19. CASE UNCHANGED vars
  BY <1>1, <1>19 DEF vars
<1> QED BY <1>2, <1>3, <1>4, <1>5, <1>6, <1>8, <1>9, <1>10, <1>11, <1>12, <1>13, <1>14,
           <1>15, <1>16, <1>17, <1>18, <1>19 DEF Next

\* Without HSR, and with the messages of a type sent one at a time, a time
\* stamp goes to the message it belongs to, although it is read and wiped
\* outside of the lock (prueth_ptp_tx_ts_get, prueth_ptp_ts_get).
THEOREM StampAlwaysOwn == Spec => []StampOwn
<1> DEFINE I == Inv /\ Closed /\ StampInv
<1>1. I => StampOwn
  BY DEF StampInv, StampsFit, StampOwn
<1>2. Init => I
  <2> SUFFICES ASSUME Init PROVE I
    OBVIOUS
  <2>1. Closed
    BY DEF Init, Closed
  <2>2. Len(hw) = 0 /\ thread.mask = FALSE /\ tx.pc = "idle" /\ stamped = {}
    BY DEF Init, ThreadIdle, TxIdle
  <2>3. thread.pc = "idle" /\ \A e \in Events : ~notify[e] /\ ptp_skb[e] = None
    BY DEF Init, ThreadIdle, Quiet, Empty
  <2>4. StampInv
    BY <2>2, <2>3 DEF StampInv, OneOfEach, StampsFit, Leaving, InRing, Noted
  <2> QED BY <2>1, <2>4, InvInit
<1>3. I /\ [Next]_vars => I'
  BY InvStep, ClosedStep, StampStep
<1> QED BY <1>1, <1>2, <1>3, PTL DEF Spec

(* -------------------------- a time stamp to come ------------------------ *)

LEMMA StampsSentStep ==
  ASSUME Inv, StampsSent, [Next]_vars
  PROVE  StampsSent'
<1> USE DEF mode, tables, ram, history
<1>0. Typed /\ InHands /\ HostOnly
  BY DEF Inv
<1>00. /\ tx \in TxState /\ hw \in Seq(TxSkbs) /\ ts \in [Events -> Skbs \cup {None}]
       /\ None \notin Skbs /\ TxSkbs \subseteq Skbs
  BY <1>0, Parts
<1>h. hsr' = hsr
  BY HsrKept
<1>a. SUFFICES ASSUME ~hsr, NEW s \in Skbs, Unsent(s)'
               PROVE  /\ \A e \in Events : ts'[e] # s
                      /\ \A n \in 1 .. Len(hw)' : hw'[n] # s
  BY <1>h DEF StampsSent
<1>r. rx.pc = "idle"
  BY <1>0, <1>a DEF HostOnly, RxIdle
<1>1. ASSUME Unsent(s), UNCHANGED hw, \A e \in Events : ts'[e] \in {ts[e], None}
      PROVE  /\ \A e \in Events : ts'[e] # s
             /\ \A n \in 1 .. Len(hw)' : hw'[n] # s
  BY <1>a, <1>00, <1>1 DEF StampsSent
<1>2. CASE UNCHANGED <<used, tx, hw, ts>>
  <2>1. Unsent(s)
    BY <1>a, <1>2 DEF Unsent
  <2> QED BY <1>1, <1>2, <2>1
<1>3. ASSUME NEW m \in TxSkbs, Send(m)
      PROVE  /\ \A e \in Events : ts'[e] # s
             /\ \A n \in 1 .. Len(hw)' : hw'[n] # s
  <2>1. Unsent(s)
    BY <1>a, <1>3 DEF Unsent, Send
  <2> QED BY <1>1, <1>3, <2>1 DEF Send
<1>4. CASE Store
  <2>1. tx.pc = "store" /\ tx'.skb = tx.skb /\ UNCHANGED <<used, hw>>
    BY <1>00, <1>4 DEF Store, TxState
  <2>2. Unsent(s)
    BY <1>a, <2>1 DEF Unsent
  <2>3. \A e \in Events : ts'[e] \in {ts[e], None}
    BY <1>00, <1>4 DEF Store
  <2> QED BY <1>1, <2>1, <2>2, <2>3
<1>5. CASE Commit
  <2>1. /\ tx.pc = "commit" /\ tx'.pc = "free" /\ tx.skb \in TxSkbs \cap used
        /\ hw' = Append(hw, tx.skb) /\ UNCHANGED <<used, ts>>
    BY <1>0, <1>00, <1>5 DEF Commit, InHands, TxState
  <2>2. s \notin used /\ s # tx.skb
    BY <1>a, <2>1 DEF Unsent
  <2>3. /\ \A e \in Events : ts[e] # s
        /\ \A n \in 1 .. Len(hw) : hw[n] # s
    BY <1>a, <2>2 DEF StampsSent, Unsent
  <2>4. \A n \in 1 .. Len(hw)' : hw'[n] # s
    BY <1>00, <2>1, <2>2, <2>3, RingGrows
  <2> QED BY <2>1, <2>3, <2>4
<1>6. CASE Free
  <2>1. Unsent(s) /\ UNCHANGED <<hw, ts>>
    BY <1>a, <1>6 DEF Unsent, Free, TxIdle
  <2> QED BY <1>1, <2>1
<1>7. CASE FwTransmit
  <2>1. Unsent(s)
    BY <1>a, <1>7 DEF Unsent, FwTransmit
  <2>2. /\ \A e \in Events : ts[e] # s
        /\ \A n \in 1 .. Len(hw) : hw[n] # s
    BY <1>a, <2>1 DEF StampsSent
  <2>3. /\ 1 \in 1 .. Len(hw) /\ Head(hw) = hw[1] /\ hw[1] \in TxSkbs
        /\ \A n \in 1 .. Len(hw)' : n \in Nat /\ n + 1 \in 1 .. Len(hw) /\ hw'[n] = hw[n + 1]
    BY <1>00, <1>7, RingShrinks DEF FwTransmit
  <2>4. \A e \in Events : ts'[e] \in {ts[e], Head(hw)}
    BY <1>00, <1>7 DEF FwTransmit, Stamp
  <2> QED BY <2>2, <2>3, <2>4
<1>8. ASSUME NEW c \in CtSkbs, Receive(c) \/ FwForward(c) PROVE FALSE
  BY <1>a, <1>8 DEF Receive, FwForward
<1>9. CASE Finish
  <2>1. Unsent(s) /\ UNCHANGED hw
    BY <1>a, <1>9 DEF Unsent, Finish
  <2>2. \A e \in Events : ts'[e] \in {ts[e], None}
    BY <1>00, <1>9 DEF Finish
  <2> QED BY <1>1, <2>1, <2>2
<1>10. CASE Stop
  <2>1. Unsent(s) /\ hw' = <<>>
    BY <1>a, <1>10 DEF Unsent, Stop
  <2>2. \A e \in Events : ts'[e] \in {ts[e], None}
    BY <1>10 DEF Stop
  <2>3. \A e \in Events : ts'[e] # s
    BY <1>a, <1>00, <2>1, <2>2 DEF StampsSent
  <2>4. Len(hw') = 0
    BY <2>1
  <2> QED BY <2>3, <2>4
<1>11. ASSUME NEW cleared \in BOOLEAN, Open(cleared)
       PROVE  /\ \A e \in Events : ts'[e] # s
              /\ \A n \in 1 .. Len(hw)' : hw'[n] # s
  <2>1. Unsent(s) /\ UNCHANGED hw
    BY <1>a, <1>11 DEF Unsent, Open
  <2>2. \A e \in Events : ts'[e] \in {ts[e], None}
    BY <1>11 DEF Open, Empty
  <2> QED BY <1>1, <2>1, <2>2
<1> USE DEF Next, emac_hwtstamp_config_set, TxIrq, ReadNotify, ClearNotify, Take, ReadStamp,
            Look, Wipe, CtStore, vars
<1> QED BY <1>r, <1>2, <1>3, <1>4, <1>5, <1>6, <1>7, <1>8, <1>9, <1>10, <1>11

LEMMA StampsReadStep ==
  ASSUME Inv, StampsSent, StampsRead, [Next]_vars
  PROVE  StampsRead'
<1> USE DEF mode, tables, ram, history
<1>0. Typed /\ InHands /\ HostOnly /\ Sorted
  BY DEF Inv
<1>00. /\ tx \in TxState /\ thread \in ThreadState /\ hw \in Seq(TxSkbs)
       /\ ptp_skb \in [Events -> TxSkbs \cup {None}]
       /\ ts \in [Events -> Skbs \cup {None}] /\ notify \in [Events -> BOOLEAN]
       /\ thread.i \in Events /\ None \notin Skbs
       /\ TxSkbs \subseteq Skbs /\ \A s \in TxSkbs : Event[s] \in Events
       /\ Events \subseteq Nat /\ \A e \in Events : e >= 1 /\ e <= NumEvents
       /\ NumEvents \in Nat
  BY <1>0, Parts, NoneIsNoMessage DEF Skbs, Events
<1>h. hsr' = hsr
  BY HsrKept
<1>a. SUFFICES ASSUME ~hsr, NEW e \in Events, ptp_skb'[e] # None, ts'[e] = ptp_skb'[e]
               PROVE  WillRead(e)'
  BY <1>h DEF StampsRead
<1>r. rx.pc = "idle"
  BY <1>0, <1>a DEF HostOnly, RxIdle
<1>1. ASSUME ptp_skb[e] # None, ts[e] = ptp_skb[e] PROVE WillRead(e)
  BY <1>a, <1>1 DEF StampsRead
<1>2. ASSUME ptp_skb'[e] = ptp_skb[e], ts'[e] = ts[e], notify'[e] = notify[e],
             UNCHANGED <<raised, thread, missed>>
      PROVE  WillRead(e)'
  BY <1>a, <1>1, <1>2 DEF WillRead
<1>3. CASE Store
  <2>1. /\ tx.pc = "store" /\ tx.skb \in TxSkbs
        /\ ptp_skb' = [ptp_skb EXCEPT ![Event[tx.skb]] = tx.skb]
        /\ UNCHANGED <<raised, thread, missed>>
    BY <1>0, <1>3 DEF Store, InHands
  <2>2. \A x \in Events : x # Event[tx.skb] => ts'[x] = ts[x] /\ notify'[x] = notify[x]
    BY <1>00, <1>3 DEF Store
  <2>3. CASE e = Event[tx.skb]
    <3>1. ptp_skb'[e] = tx.skb /\ ts'[e] \in {ts[e], None}
      BY <1>00, <1>3, <2>1, <2>3 DEF Store
    <3>2. ts[e] # tx.skb
      BY <1>00, <1>a, <2>1 DEF StampsSent, Unsent
    <3> QED BY <1>00, <1>a, <2>1, <3>1, <3>2
  <2>4. CASE e # Event[tx.skb]
    BY <1>00, <1>2, <2>1, <2>2, <2>4
  <2> QED BY <2>3, <2>4
<1>4. CASE FwTransmit
  <2>1. /\ hw # <<>> /\ hw' = Tail(hw) /\ UNCHANGED <<ptp_skb, thread, missed>>
        /\ IF enabled THEN Stamp(Head(hw)) ELSE UNCHANGED <<ts, notify, raised>>
    BY <1>4 DEF FwTransmit
  <2>2. CASE ~enabled
    BY <1>2, <2>1, <2>2
  <2>3. CASE enabled
    <3>1. /\ ts' = [ts EXCEPT ![Event[Head(hw)]] = Head(hw)]
          /\ notify' = [notify EXCEPT ![Event[Head(hw)]] = TRUE]
          /\ raised' = TRUE
      BY <2>1, <2>3 DEF Stamp
    <3>2. CASE e = Event[Head(hw)]
      <4>1. notify'[e]
        BY <1>00, <3>1, <3>2
      <4> QED BY <3>1, <4>1 DEF WillRead
    <3>3. CASE e # Event[Head(hw)]
      <4>1. notify'[e] = notify[e] /\ ts'[e] = ts[e]
        BY <1>00, <3>1, <3>3
      <4>2. WillRead(e)
        BY <1>1, <1>a, <2>1, <4>1
      <4> QED BY <2>1, <3>1, <4>1, <4>2 DEF WillRead
    <3> QED BY <3>2, <3>3
  <2> QED BY <2>2, <2>3
<1>5. ASSUME ptp_skb'[e] = ptp_skb[e], ts'[e] = ts[e] PROVE WillRead(e)
  BY <1>a, <1>1, <1>5
<1>6. CASE TxIrq
  <2>1. WillRead(e) /\ UNCHANGED notify /\ thread.pc = "idle"
    BY <1>5, <1>6 DEF TxIrq
  <2>2. /\ enabled => thread'.pc = "read" /\ thread'.i = 1 /\ missed' = missed
        /\ ~enabled => missed' = missed \cup {x \in Events : notify[x]}
    BY <1>6 DEF TxIrq, ThreadIdle
  <2>3. 1 <= e
    BY <1>00
  <2> QED BY <2>1, <2>2, <2>3 DEF WillRead
<1>7. CASE ReadNotify
  <2>1. WillRead(e) /\ UNCHANGED <<notify, raised, missed>>
    BY <1>5, <1>7 DEF ReadNotify
  <2>2. /\ thread.pc = "read" /\ thread'.pc = "clear" /\ thread'.i = thread.i
        /\ thread'.mask = notify[thread.i]
    BY <1>00, <1>7 DEF ReadNotify, ThreadState
  <2>3. thread.i <= e => thread.i < e \/ thread.i = e
    <3>1. thread.i \in Nat /\ e \in Nat
      BY <1>00
    <3> QED BY <3>1
  <2> QED BY <2>1, <2>2, <2>3 DEF WillRead
<1>8. ASSUME NextEvent, thread.i < e PROVE thread'.pc = "read" /\ thread'.i <= e
  <2>1. thread.i # NumEvents /\ thread.i + 1 <= e
    BY <1>00, <1>8
  <2> QED BY <1>00, <1>8, <2>1, NextEventIs
<1>9. CASE ClearNotify
  <2>1. /\ WillRead(e) /\ UNCHANGED raised /\ thread.pc = "clear"
        /\ notify' = [notify EXCEPT ![thread.i] = FALSE]
        /\ missed' = IF notify[thread.i] /\ ~thread.mask THEN missed \cup {thread.i} ELSE missed
    BY <1>5, <1>9 DEF ClearNotify
  <2>2. CASE thread.mask
    <3>1. thread'.pc = "take" /\ thread'.i = thread.i /\ thread'.mask
      BY <1>00, <1>9, <2>2 DEF ClearNotify, ThreadGoto, ThreadState
    <3>2. thread.i # e => notify'[e] = notify[e]
      BY <1>00, <2>1
    <3> QED BY <2>1, <2>2, <3>1, <3>2 DEF WillRead
  <2>3. CASE ~thread.mask
    <3>1. NextEvent
      BY <1>9, <2>3 DEF ClearNotify
    <3>2. CASE thread.i = e
      BY <1>00, <2>1, <2>3, <3>2 DEF WillRead
    <3>3. CASE thread.i # e
      <4>1. notify'[e] = notify[e]
        BY <1>00, <2>1, <3>3
      <4>2. thread.i < e => thread'.pc = "read" /\ thread'.i <= e
        BY <1>8, <3>1
      <4> QED BY <2>1, <2>3, <3>3, <4>1, <4>2 DEF WillRead
    <3> QED BY <3>2, <3>3
  <2> QED BY <2>2, <2>3
<1>10. CASE Take
  <2> DEFINE ct == ptp_skb[thread.i] = None
             skb == IF ct THEN ptp_ct_skb[thread.i] ELSE ptp_skb[thread.i]
  <2>1. /\ thread.pc = "take" /\ UNCHANGED <<notify, raised, missed, ts>>
        /\ ptp_skb' = [ptp_skb EXCEPT ![thread.i] = None]
        /\ IF skb = None THEN NextEvent
           ELSE thread' = [thread EXCEPT !.pc = "stamp", !.skb = skb, !.ct = ct]
    BY <1>10 DEF Take
  <2>2. e # thread.i /\ ptp_skb'[e] = ptp_skb[e]
    BY <1>00, <1>a, <2>1
  <2>3. WillRead(e)
    BY <1>5, <2>1, <2>2
  <2> HIDE DEF skb, ct
  <2>4. CASE skb = None
    <3>1. thread.i < e => thread'.pc = "read" /\ thread'.i <= e
      BY <1>8, <2>1, <2>4
    <3> QED BY <2>1, <2>2, <2>3, <3>1 DEF WillRead
  <2>5. CASE skb # None
    <3>1. thread'.pc = "stamp" /\ thread'.i = thread.i
      BY <1>00, <2>1, <2>5 DEF ThreadState
    <3> QED BY <2>1, <2>2, <2>3, <3>1 DEF WillRead
  <2> QED BY <2>4, <2>5
<1>11. CASE ReadStamp
  <2>1. WillRead(e) /\ UNCHANGED <<notify, raised, missed>>
    BY <1>5, <1>11 DEF ReadStamp
  <2>2. thread.pc = "stamp" /\ thread'.pc = "finish" /\ thread'.i = thread.i
    BY <1>00, <1>11 DEF ReadStamp, ThreadState
  <2> QED BY <2>1, <2>2 DEF WillRead
<1>12. CASE Finish
  <2>1. /\ thread.pc = "finish" /\ ts' = [ts EXCEPT ![thread.i] = None] /\ NextEvent
        /\ UNCHANGED <<ptp_skb, notify, raised, missed>>
    BY <1>12 DEF Finish
  <2>2. e # thread.i /\ ts'[e] = ts[e]
    BY <1>00, <1>a, <2>1
  <2>3. WillRead(e)
    BY <1>5, <2>1, <2>2
  <2>4. thread.i < e => thread'.pc = "read" /\ thread'.i <= e
    BY <1>8, <2>1
  <2> QED BY <2>1, <2>2, <2>3, <2>4 DEF WillRead
<1>13. ASSUME NEW c \in CtSkbs, Receive(c) \/ FwForward(c) PROVE FALSE
  BY <1>a, <1>13 DEF Receive, FwForward
<1>14. CASE Stop
  BY <1>a, <1>14 DEF Stop, Empty
<1>15. ASSUME NEW cleared \in BOOLEAN, Open(cleared) PROVE WillRead(e)'
  <2>1. CASE cleared
    <3>1. ts'[e] = None
      BY <1>15, <2>1 DEF Open, Empty
    <3> QED BY <1>a, <3>1
  <2>2. CASE ~cleared
    BY <1>2, <1>15, <2>2 DEF Open
  <2> QED BY <2>1, <2>2
<1>16. CASE UNCHANGED <<ptp_skb, ts, notify, raised, thread, missed>>
  BY <1>2, <1>16
<1> USE DEF Next, emac_hwtstamp_config_set, Send, Commit, Free, Look, Wipe, CtStore, vars
<1> QED BY <1>r, <1>3, <1>4, <1>6, <1>7, <1>9, <1>10, <1>11, <1>12, <1>13, <1>14, <1>15, <1>16

\* Without HSR a message that waits with its time stamp in place gets it: the
\* interrupt is raised or its thread has still to look there, unless the
\* thread has reset the notification without having seen it, or was told not
\* to look (prueth_ptp_tx_irq_work, prueth_ptp_tx_irq_handle).
THEOREM StampAlwaysToCome == Spec => []StampToCome
<1> DEFINE I == Inv /\ StampsSent /\ StampsRead
<1>1. I => StampToCome
  BY DEF StampsRead, WillRead, StampToCome, Reads
<1>2. Init => I
  <2> SUFFICES ASSUME Init PROVE I
    OBVIOUS
  <2>1. Len(hw) = 0 /\ \A e \in Events : ts[e] = None /\ ptp_skb[e] = None
    BY DEF Init, Empty
  <2>2. None \notin Skbs
    BY NoneIsNoMessage DEF Skbs
  <2> QED BY <2>1, <2>2, InvInit DEF StampsSent, StampsRead
<1>3. I /\ [Next]_vars => I'
  BY InvStep, StampsSentStep, StampsReadStep
<1> QED BY <1>1, <1>2, <1>3, PTL DEF Spec
=============================================================================

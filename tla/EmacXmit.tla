------------------------------ MODULE EmacXmit ------------------------------
(***************************************************************************)
(* The transmit path of a port above its rings: emac_ndo_start_xmit(), the *)
(* interrupts that report finished frames, the link callback of the PHY    *)
(* layer and the transmit watchdog, which share the link state of the port *)
(* and the stopped flag of its only net device queue.                      *)
(*                                                                         *)
(* A ring is the FIFO that TxFifo describes, of HwSize frames.  The net    *)
(* core (external) runs start_xmit and the watchdog under its transmit     *)
(* lock; emac_adjust_link() holds emac->lock, which neither of them takes, *)
(* and the interrupts hold nothing: all of them interleave.                *)
(***************************************************************************)
EXTENDS Naturals, Sequences, FiniteSets

CONSTANTS Skbs,       \* the frames the stack sends, once each
          Queues,     \* the transmit rings of the port, by priority
          QueueOf,    \* the ring of every frame: prueth_get_tx_queue_id()
          HwSize      \* the frames a ring holds

ASSUME XmitAssumption ==
  /\ QueueOf \in [Skbs -> Queues]
  /\ HwSize \in Nat \ {0}

Irqs == {"tx", "ptp"}

VARIABLES tx_irq,   \* the device tree names a "tx" interrupt: tx_irq > 0
          requested, \* the interrupts that have been requested
          qdisc,    \* the frames the stack has queued
          pc,       \* where emac_ndo_start_xmit() is
          skb,      \* the frame it has been called with
          link,     \* emac->link
          adjust,   \* emac_adjust_link() has yet to adjust the queue
          carrier,  \* netif_carrier_ok()
          stopped,  \* netif_queue_stopped()
          hw,       \* the rings
          irq,      \* interrupts raised and not yet handled
          \* history
          why,      \* why the queue has last been stopped
          fate,     \* what has become of every frame
          freed,    \* how often every frame has been freed
          padFailed \* the frames eth_skb_pad() has failed for

stack  == <<qdisc, pc, skb>>
flow   == <<link, adjust, carrier, stopped, why>>
config == <<tx_irq, requested>>
device == <<hw, irq, config>>
frames == <<fate, freed, padFailed>>
vars   == <<stack, flow, device, frames>>

Fates == {"new", "waiting", "accepted", "transmitted", "dropped"}

\* emac_request_irqs() requests the tx interrupt of the device tree as dual
\* EMAC only, the PTP interrupt if there is one.
Init ==
  /\ tx_irq \in BOOLEAN
  /\ requested \in SUBSET Irqs
  /\ "tx" \in requested => tx_irq
  /\ qdisc = <<>>
  /\ pc = "idle"
  /\ skb \in Skbs
  /\ link = FALSE
  /\ adjust = FALSE
  /\ carrier = FALSE
  /\ stopped = FALSE
  /\ hw = [q \in Queues |-> <<>>]
  /\ irq = {}
  /\ why = "none"
  /\ fate = [s \in Skbs |-> "new"]
  /\ freed = [s \in Skbs |-> 0]
  /\ padFailed = {}

StopQueue(reason) == stopped' = TRUE /\ why' = reason
WakeQueue == stopped' = FALSE /\ UNCHANGED why

-----------------------------------------------------------------------------
(* The net core (external).                                                *)

Send(s) ==
  /\ fate[s] = "new"
  /\ qdisc' = Append(qdisc, s)
  /\ fate' = [fate EXCEPT ![s] = "waiting"]
  /\ UNCHANGED <<pc, skb, flow, device, freed, padFailed>>

\* NETDEV_TX_BUSY: the frame is still the stack's and goes back to the head.
ReturnBusy == qdisc' = <<skb>> \o qdisc /\ pc' = "idle"

\* Any other value: the frame is the driver's and the stack forgets it.
ReturnDone == pc' = "idle" /\ UNCHANGED qdisc

-----------------------------------------------------------------------------
(* emac_ndo_start_xmit().                                                  *)

StartXmit ==
  /\ pc = "idle"
  /\ ~stopped
  /\ qdisc # <<>>
  /\ skb' = Head(qdisc)
  /\ qdisc' = Tail(qdisc)
  /\ pc' = "link"
  /\ UNCHANGED <<flow, device, frames>>

\* fail_tx with ret = 0: NET_XMIT_DROP, and nobody frees the frame.
CheckLink ==
  /\ pc = "link"
  /\ \/ link /\ pc' = "enqueue" /\ UNCHANGED <<qdisc, fate>>
     \/ ~link /\ ReturnDone /\ fate' = [fate EXCEPT ![skb] = "dropped"]
  /\ UNCHANGED <<skb, flow, device, freed, padFailed>>

\* A slip: a frame is put into a full ring before -ENOBUFS is returned.
EnqueueAnyway ==
  /\ pc = "enqueue"
  /\ LET q == QueueOf[skb]
     IN /\ hw' = [hw EXCEPT ![q] = Append(@, skb)]
        /\ \/ /\ Len(hw[q]) < HwSize
              /\ fate' = [fate EXCEPT ![skb] = "accepted"]
              /\ pc' = "free"
           \/ /\ Len(hw[q]) >= HwSize
              /\ pc' = "nobufs"
              /\ UNCHANGED fate
  /\ UNCHANGED <<qdisc, skb, flow, irq, config, freed, padFailed>>

\* prueth_tx_enqueue(): the frame fits, or -ENOBUFS.
Enqueue ==
  /\ pc = "enqueue"
  /\ LET q == QueueOf[skb]
     IN \/ /\ Len(hw[q]) < HwSize
           /\ hw' = [hw EXCEPT ![q] = Append(@, skb)]
           /\ fate' = [fate EXCEPT ![skb] = "accepted"]
           /\ pc' = "free"
        \/ /\ Len(hw[q]) = HwSize
           /\ pc' = "nobufs"
           /\ UNCHANGED <<hw, fate>>
  /\ UNCHANGED <<qdisc, skb, flow, irq, config, freed, padFailed>>

\* eth_skb_pad() has no memory: it frees the frame, and prueth_tx_enqueue()
\* returns a variable it has not set, which start_xmit may take for success,
\* for a full ring or for another error.
PadFails ==
  /\ pc = "enqueue"
  /\ skb \notin padFailed
  /\ padFailed' = padFailed \cup {skb}
  /\ freed' = [freed EXCEPT ![skb] = @ + 1]
  /\ \/ pc' = "free" /\ UNCHANGED <<qdisc, fate>>
     \/ pc' = "nobufs" /\ UNCHANGED <<qdisc, fate>>
     \/ ReturnDone /\ fate' = [fate EXCEPT ![skb] = "dropped"]
  /\ UNCHANGED <<skb, flow, device>>

\* A slip: a frame that has been copied to a ring is not freed.
FreeSkbForgotten ==
  /\ pc = "free"
  /\ ReturnDone
  /\ UNCHANGED <<skb, flow, device, frames>>

\* NETDEV_TX_OK.
FreeSkb ==
  /\ pc = "free"
  /\ freed' = [freed EXCEPT ![skb] = @ + 1]
  /\ ReturnDone
  /\ UNCHANGED <<skb, flow, device, fate, padFailed>>

\* The queue is stopped only if an interrupt may start it again.
NoBufs ==
  /\ pc = "nobufs"
  /\ IF tx_irq THEN StopQueue("full") ELSE UNCHANGED <<stopped, why>>
  /\ ReturnBusy
  /\ UNCHANGED <<skb, link, adjust, carrier, device, frames>>

-----------------------------------------------------------------------------
(* The device: the firmware (external) finishes a frame and raises the     *)
(* interrupts it has; emac_tx_irq() and prueth_ptp_tx_irq_handle() wake    *)
(* the queue.                                                              *)

FwTransmit(q) ==
  /\ hw[q] # <<>>
  /\ hw' = [hw EXCEPT ![q] = Tail(@)]
  /\ fate' = [fate EXCEPT ![Head(hw[q])] = "transmitted"]
  /\ \E raised \in SUBSET requested :   \* only some frames are PTP events
       /\ "tx" \in requested => "tx" \in raised
       /\ irq' = irq \cup raised
  /\ UNCHANGED <<stack, flow, config, freed, padFailed>>

TxIrq(i) ==
  /\ i \in irq
  /\ irq' = irq \ {i}
  /\ IF stopped THEN WakeQueue ELSE UNCHANGED <<stopped, why>>
  /\ UNCHANGED <<stack, link, adjust, carrier, hw, config, frames>>

-----------------------------------------------------------------------------
(* emac_adjust_link(): first the state of the port, then the queue.        *)

LinkState(up) ==
  /\ ~adjust
  /\ link' = up
  /\ adjust' = TRUE
  /\ UNCHANGED <<stack, carrier, stopped, why, device, frames>>

LinkQueue ==
  /\ adjust
  /\ adjust' = FALSE
  /\ carrier' = link
  /\ \/ link /\ WakeQueue
     \/ ~link /\ ~stopped /\ StopQueue("link")
     \/ ~link /\ stopped /\ UNCHANGED <<stopped, why>>
  /\ UNCHANGED <<stack, link, device, frames>>

-----------------------------------------------------------------------------
\* A slip: the watchdog only counts.
TxTimeoutIdle ==
  /\ pc = "idle"
  /\ stopped
  /\ carrier
  /\ UNCHANGED vars

\* emac_ndo_tx_timeout(), which the net core's watchdog calls for a queue
\* that has been stopped for long while the carrier is on.
TxTimeout ==
  /\ pc = "idle"
  /\ stopped
  /\ carrier
  /\ WakeQueue
  /\ UNCHANGED <<stack, link, adjust, carrier, device, frames>>

-----------------------------------------------------------------------------
Xmit == StartXmit \/ CheckLink \/ Enqueue \/ FreeSkb \/ NoBufs

Next ==
  \/ \E s \in Skbs : Send(s)
  \/ StartXmit
  \/ CheckLink
  \/ Enqueue
  \/ PadFails
  \/ FreeSkb
  \/ NoBufs
  \/ \E q \in Queues : FwTransmit(q)
  \/ \E i \in Irqs : TxIrq(i)
  \/ \E up \in BOOLEAN : LinkState(up)
  \/ LinkQueue
  \/ TxTimeout

Spec == Init /\ [][Next]_vars

\* The transmit softirq runs, the firmware transmits, interrupts arrive, the
\* callback of the PHY layer returns and the watchdog timer expires.  Nothing
\* is assumed of the stack and of the link.
Fairness ==
  /\ WF_vars(Xmit)
  /\ \A q \in Queues : WF_vars(FwTransmit(q))
  /\ \A i \in Irqs : WF_vars(TxIrq(i))
  /\ WF_vars(LinkQueue)
  /\ WF_vars(TxTimeout)

FairSpec == Spec /\ Fairness

-----------------------------------------------------------------------------
\* Every variable has its type.
TypeOK ==
  /\ qdisc \in Seq(Skbs)
  /\ pc \in {"idle", "link", "enqueue", "free", "nobufs"}
  /\ skb \in Skbs
  /\ {link, adjust, carrier, stopped} \subseteq BOOLEAN
  /\ hw \in [Queues -> Seq(Skbs)]
  /\ requested \subseteq Irqs
  /\ irq \subseteq requested
  /\ why \in {"none", "full", "link"}
  /\ fate \in [Skbs -> Fates]
  /\ freed \in [Skbs -> 0 .. 2]
  /\ padFailed \subseteq Skbs

Copies(s) == Cardinality({i \in DOMAIN qdisc : qdisc[i] = s})
Held(s) == Copies(s) > 0 \/ (pc # "idle" /\ skb = s)
InHw(s) == \E q \in Queues : \E i \in DOMAIN hw[q] : hw[q][i] = s

\* Whoever holds a frame may use it: a frame the stack still has to send, in
\* its queue or back there after NETDEV_TX_BUSY, is there once, has not been
\* freed and is in no ring, so that a retry neither sends it twice nor sends
\* freed memory (emac_ndo_start_xmit; frames eth_skb_pad failed for are the
\* exception).
RetryIsSafe ==
  \A s \in Skbs \ padFailed :
    fate[s] = "waiting" => freed[s] = 0 /\ ~InHw(s) /\ Copies(s) <= 1

\* Once start_xmit has returned for good, the frame has been freed exactly
\* once if it was accepted; only frames refused without a link are kept, and
\* those are never freed (the fail_tx path frees nothing).
Settled(s) == fate[s] \notin {"new", "waiting"} /\ ~Held(s)
FreedOnce ==
  \A s \in Skbs \ padFailed :
    Settled(s) => freed[s] = IF fate[s] = "dropped" THEN 0 ELSE 1

\* What makes both of them inductive: where every frame is, in the queue of
\* the stack, in the hands of start_xmit or in a ring, says how often it has
\* been freed.
InQdisc(s) == \E i \in DOMAIN qdisc : qdisc[i] = s
Current(s) == pc # "idle" /\ skb = s
Given == {"accepted", "transmitted"}

NewInv(s) ==
  fate[s] = "new" => ~InQdisc(s) /\ ~Current(s) /\ ~InHw(s) /\ s \notin padFailed
PlaceInv(s) ==
  s \notin padFailed =>
    /\ InQdisc(s) => fate[s] = "waiting"
    /\ Current(s) => fate[s] \in IF pc = "free" THEN Given ELSE {"waiting"}
    /\ InHw(s) => fate[s] = "accepted"
FreedInv(s) ==
  IF s \in padFailed
  THEN freed[s] \in IF InQdisc(s) \/ Current(s) THEN {1} ELSE {1, 2}
  ELSE freed[s] = IF fate[s] \in Given /\ ~Current(s) THEN 1 ELSE 0
QdiscInv ==
  /\ \A i, j \in DOMAIN qdisc : qdisc[i] = qdisc[j] => i = j
  /\ \A i \in DOMAIN qdisc : ~Current(qdisc[i])
HwInv ==
  \A q \in Queues :
    /\ \A i \in DOMAIN hw[q] : QueueOf[hw[q][i]] = q
    /\ \A i, j \in DOMAIN hw[q] :
         hw[q][i] = hw[q][j] /\ hw[q][i] \notin padFailed => i = j
FrameInv ==
  /\ QdiscInv
  /\ HwInv
  /\ \A s \in Skbs : NewInv(s) /\ PlaceInv(s) /\ FreedInv(s)

\* With the link up for good, no frame waits for ever: neither the race of
\* the stop in start_xmit with the interrupt, nor a stop for a lost link,
\* nor a ring full of frames of another priority keeps the queue stopped.
NoStall ==
  \A s \in Skbs : <>[]link => (fate[s] = "waiting" /\ s \notin padFailed
                                 ~> fate[s] # "waiting" \/ s \in padFailed)

=============================================================================

------------------------------ MODULE PruethRx ------------------------------
(***************************************************************************)
(* Reception: the firmware (external) puts frames into the host queues in  *)
(* shared memory and raises the rx interrupt of the port they came in on;  *)
(* emac_rx_irq() masks it and schedules NAPI; emac_napi_poll() runs        *)
(* emac_rx_packets(), which searches the host queues of the port and hands *)
(* every frame to the stack.                                               *)
(*                                                                         *)
(* As dual EMAC every port has host queues of its own.  As a switch, both  *)
(* ports poll all of them, without a lock: on one CPU the network softirq  *)
(* polls one port after the other, on two CPUs both at once.               *)
(*                                                                         *)
(* A frame takes one slot of a ring here; how many blocks it takes and     *)
(* where they are is the matter of PruethFrameCopy.                        *)
(***************************************************************************)
EXTENDS Naturals, Sequences, SequencesExt

CONSTANTS Ports,         \* the ports that are up
          NumQueues,     \* host queues
          RxQueueStart,  \* emac->rx_queue_start of every port
          RxQueueEnd,    \* emac->rx_queue_end
          Modes,         \* what PRUETH_IS_SWITCH may be
          Smp,           \* two CPUs may poll at once
          RingSize,      \* slots of a host queue
          Quota,         \* the NAPI budget
          AllocMayFail,  \* netdev_alloc_skb_ip_align() may fail
          LongFrames,    \* the firmware may pass on a frame that is too long
          MaxFrames      \* bound: frames the firmware receives

Queues == 1 .. NumQueues
Slots == 0 .. RingSize - 1

ASSUME RxAssumption ==
  /\ NumQueues \in Nat \ {0}
  /\ {RxQueueStart, RxQueueEnd} \subseteq [Ports -> Queues]
  /\ Modes \subseteq BOOLEAN
  /\ {Smp, AllocMayFail, LongFrames} \subseteq BOOLEAN
  /\ RingSize \in Nat \ {0, 1}
  /\ Quota \in Nat \ {0}
  /\ MaxFrames \in Nat

\* As dual EMAC every port has host queues, and they are its own.
ASSUME OwnHostQueues ==
  \A p, o \in Ports :
    /\ RxQueueStart[p] <= RxQueueEnd[p]
    /\ p # o => \A q \in Queues : \/ q \notin RxQueueStart[p] .. RxQueueEnd[p]
                                  \/ q \notin RxQueueStart[o] .. RxQueueEnd[o]

VARIABLES
  switch,     \* PRUETH_IS_SWITCH
  hq,         \* every host queue: its pointers, overflow_cnt, the lengths in
              \* its descriptors and the frames in its slots
  raised,     \* the ports whose rx event is pending
  masked,     \* the ports whose rx interrupt is disabled
  scheduled,  \* the ports whose NAPI instance is scheduled
  poll,       \* emac_rx_packets() of every port: where it is, its variables, and
              \* as history the last frame of another port it took, or 0
  \* history
  origin,     \* the port every frame came in on, in the order of arrival
  arrived,    \* the frames put into every host queue, in order
  delivered,  \* the frames taken from every host queue to the stack, in order
  misrouted,  \* frames given to another port, with the port that polled and the
              \* last frame of another port it had given to the stack in that poll
  discarded,  \* frames passed over
  drops,      \* frames the firmware found no room for
  overErrors, \* rx_over_errors of both ports
  stalled     \* host queues left by -ENOMEM, and no frame for their ports since

napi    == <<raised, masked, scheduled>>
tally   == <<origin, arrived, delivered, misrouted, discarded, drops, overErrors>>
history == <<tally, stalled>>
vars    == <<switch, hq, napi, poll, history>>

Succ(n) == (n + 1) % RingSize

\* The slots from r up to w.
Between(r, w) == {(r + k) % RingSize : k \in 0 .. ((w + RingSize - r) % RingSize) - 1}
Pending(q) == {hq[q].data[s] : s \in Between(hq[q].rd, hq[q].wr)}

\* The host queues a port polls.
StartQueue(p) == IF switch THEN 1 ELSE RxQueueStart[p]
EndQueue(p) == IF switch THEN NumQueues ELSE RxQueueEnd[p]
Scans(p) == StartQueue(p) .. EndQueue(p)

Init ==
  /\ switch \in Modes
  /\ hq = [q \in Queues |-> [rd |-> 0, wr |-> 0, overflow |-> 0,
                             len |-> [s \in Slots |-> "zero"],
                             data |-> [s \in Slots |-> 0]]]
  /\ raised = {} /\ masked = {} /\ scheduled = {}
  /\ poll = [p \in Ports |-> [pc |-> "idle", i |-> 1, rd |-> 0, wr |-> 0, upd |-> 0,
                              len |-> "zero", used |-> 0, count |-> 0, emac |-> p, other |-> 0]]
  /\ origin = <<>>
  /\ arrived = [q \in Queues |-> <<>>]
  /\ delivered = arrived
  /\ misrouted = {} /\ discarded = {}
  /\ drops = 0 /\ overErrors = 0
  /\ stalled = {}

-----------------------------------------------------------------------------
(* The firmware (external).  It leaves one slot of a ring free: equal      *)
(* pointers mean that a ring is empty.                                     *)

Lengths == {"good"} \cup (IF LongFrames THEN {"long"} ELSE {})

Receive(p, q) ==
  /\ Len(origin) + drops < MaxFrames
  /\ q \in Scans(p)
  /\ \/ /\ Succ(hq[q].wr) = hq[q].rd
        /\ hq' = [hq EXCEPT ![q].overflow = @ + 1]
        /\ drops' = drops + 1
        /\ UNCHANGED <<raised, arrived, origin, stalled>>
     \/ /\ Succ(hq[q].wr) # hq[q].rd
        /\ origin' = Append(origin, p)
        /\ \E l \in Lengths :
             hq' = [hq EXCEPT ![q].len[hq[q].wr] = l,
                              ![q].data[hq[q].wr] = Len(origin'),
                              ![q].wr = Succ(@)]
        /\ arrived' = [arrived EXCEPT ![q] = Append(@, Len(origin'))]
        /\ raised' = raised \cup {p}
        /\ stalled' = stalled \ Scans(p)
        /\ UNCHANGED drops
  /\ UNCHANGED <<switch, masked, scheduled, poll, delivered, misrouted,
                 discarded, overErrors>>

\* emac_rx_irq().  The event stays pending while the interrupt is masked.
RxIrq(p) ==
  /\ p \in raised \ masked
  /\ raised' = raised \ {p}
  /\ masked' = masked \cup {p}
  /\ scheduled' = scheduled \cup {p}
  /\ UNCHANGED <<switch, hq, poll, history>>

-----------------------------------------------------------------------------
(* emac_napi_poll() and emac_rx_packets().                                 *)

At(p, label) == poll[p].pc = label
Goto(p, label) == poll' = [poll EXCEPT ![p].pc = label]

\* A slip: the next poll of the port starts with emac as the last one left it.
PollKeepsEmac(p) ==
  /\ At(p, "idle")
  /\ p \in scheduled
  /\ Smp \/ \A other \in Ports : At(other, "idle")
  /\ poll' = [poll EXCEPT ![p].pc = "overflow", ![p].i = StartQueue(p),
                          ![p].used = 0, ![p].other = 0]
  /\ UNCHANGED <<switch, hq, napi, history>>

Poll(p) ==
  /\ At(p, "idle")
  /\ p \in scheduled
  /\ Smp \/ \A other \in Ports : At(other, "idle")
  /\ poll' = [poll EXCEPT ![p].pc = "overflow", ![p].i = StartQueue(p),
                          ![p].used = 0, ![p].emac = p, ![p].other = 0]
  /\ UNCHANGED <<switch, hq, napi, history>>

ReadOverflow(p) ==
  /\ At(p, "overflow")
  /\ LET cnt == hq[poll[p].i].overflow
     IN /\ overErrors' = overErrors + cnt
        /\ poll' = [poll EXCEPT ![p].pc = IF cnt > 0 THEN "reset" ELSE "pointers",
                                ![p].count = cnt]
  /\ UNCHANGED <<switch, hq, napi, origin, arrived, delivered, misrouted,
                 discarded, drops, stalled>>

\* A slip: the counter is not reset.
ResetOverflowForgotten(p) ==
  /\ At(p, "reset")
  /\ Goto(p, "pointers")
  /\ UNCHANGED <<switch, hq, napi, history>>

ResetOverflow(p) ==
  /\ At(p, "reset")
  /\ hq' = [hq EXCEPT ![poll[p].i].overflow = 0]
  /\ Goto(p, "pointers")
  /\ UNCHANGED <<switch, napi, history>>

\* With the read pointer at r and a snapshot up to w: the next frame, the
\* next host queue, or the end.
Proceed(p, r, w) ==
  LET step == IF r # w THEN [pc |-> "descriptor", i |-> poll[p].i]
              ELSE IF poll[p].i < EndQueue(p)
              THEN [pc |-> "overflow", i |-> poll[p].i + 1]
              ELSE [pc |-> "return", i |-> poll[p].i]
  IN poll' = [poll EXCEPT ![p].pc = step.pc, ![p].i = step.i,
                          ![p].rd = r, ![p].wr = w]

\* The poll sees no frame that the firmware adds after this.
ReadPointers(p) ==
  /\ At(p, "pointers")
  /\ Proceed(p, hq[poll[p].i].rd, hq[poll[p].i].wr)
  /\ UNCHANGED <<switch, hq, napi, history>>

\* A length of zero or one that is too long passes over all that is left of
\* the snapshot.
ReadDescriptor(p) ==
  /\ At(p, "descriptor")
  /\ LET l == hq[poll[p].i].len[poll[p].rd]
     IN poll' = [poll EXCEPT ![p].len = l,
                             ![p].pc = IF l = "good" THEN "packet" ELSE "clear",
                             ![p].upd = IF l = "good" THEN @ ELSE poll[p].wr]
  /\ UNCHANGED <<switch, hq, napi, history>>

\* The stack gets the frame in the slot as a frame of port to.
Deliver(p, to) ==
  LET id == hq[poll[p].i].data[poll[p].rd]
  IN /\ delivered' = [delivered EXCEPT ![poll[p].i] = Append(@, id)]
     /\ misrouted' = IF to = origin[id] THEN misrouted
                     ELSE misrouted \cup {<<id, p, poll[p].other>>}
     /\ poll' = [poll EXCEPT ![p].pc = "clear", ![p].upd = Succ(poll[p].rd),
                             ![p].used = @ + 1, ![p].emac = to,
                             ![p].other = IF origin[id] = p THEN @ ELSE id]

\* emac_rx_packet(), and the choice of the port to deliver to: as a switch,
\* the first frame of the other port turns emac, and nothing turns it back.
Packet(p) ==
  /\ At(p, "packet")
  /\ LET from == origin[hq[poll[p].i].data[poll[p].rd]]
     IN Deliver(p, IF switch /\ from # p THEN from ELSE poll[p].emac)
  /\ UNCHANGED <<switch, hq, napi, origin, arrived, discarded, drops,
                 overErrors, stalled>>

\* An -ENOMEM from emac_rx_packet() ends the poll without a count.
GiveUp(p) == AllocMayFail /\ At(p, "packet")
             /\ poll' = [poll EXCEPT ![p].pc = "return", ![p].used = 0]
             /\ stalled' = stalled \cup Scans(p)

\* A slip: the read pointer moves on all the same.
PacketFailsMoved(p) ==
  /\ GiveUp(p)
  /\ hq' = [hq EXCEPT ![poll[p].i].rd = Succ(@)]
  /\ UNCHANGED <<switch, napi, tally>>

\* The frame stays where it is.
PacketFails(p) ==
  /\ GiveUp(p)
  /\ UNCHANGED <<switch, hq, napi, tally>>

ClearDescriptor(p) ==
  /\ At(p, "clear")
  /\ hq' = [hq EXCEPT ![poll[p].i].len[poll[p].rd] = "zero"]
  /\ Goto(p, "move")
  /\ UNCHANGED <<switch, napi, history>>

\* The read pointer passes over frames that have not been delivered.
Discard(p) ==
  discarded' = IF poll[p].len = "good" THEN discarded
               ELSE discarded \cup {hq[poll[p].i].data[s] :
                                      s \in Between(poll[p].rd, poll[p].upd)}

MovePointer(p) ==
  /\ At(p, "move")
  /\ hq' = [hq EXCEPT ![poll[p].i].rd = poll[p].upd]
  /\ IF poll[p].used >= Quota
     THEN Goto(p, "return")
     ELSE Proceed(p, poll[p].upd, poll[p].wr)
  /\ Discard(p)
  /\ UNCHANGED <<switch, napi, origin, arrived, delivered, misrouted, drops,
                 overErrors, stalled>>

\* A slip: NAPI is completed although the budget has been used up.
ReturnCompletes(p) ==
  /\ At(p, "return")
  /\ Goto(p, "unmask")
  /\ scheduled' = scheduled \ {p}
  /\ UNCHANGED <<switch, hq, raised, masked, history>>

\* With all of the budget used NAPI polls again.  Otherwise, or after an
\* error, emac_finish_napi() (external) completes NAPI, and then ...
Return(p) ==
  /\ At(p, "return")
  /\ \/ poll[p].used >= Quota /\ Goto(p, "idle") /\ UNCHANGED scheduled
     \/ poll[p].used < Quota /\ Goto(p, "unmask") /\ scheduled' = scheduled \ {p}
  /\ UNCHANGED <<switch, hq, raised, masked, history>>

\* A slip: the interrupt stays masked.
UnmaskForgotten(p) ==
  /\ At(p, "unmask")
  /\ Goto(p, "idle")
  /\ UNCHANGED <<switch, hq, napi, history>>

\* ... enables the interrupt.
Unmask(p) ==
  /\ At(p, "unmask")
  /\ masked' = masked \ {p}
  /\ Goto(p, "idle")
  /\ UNCHANGED <<switch, hq, raised, scheduled, history>>

-----------------------------------------------------------------------------
Step(p) ==
  \/ Poll(p)
  \/ ReadOverflow(p)
  \/ ResetOverflow(p)
  \/ ReadPointers(p)
  \/ ReadDescriptor(p)
  \/ Packet(p)
  \/ ClearDescriptor(p)
  \/ MovePointer(p)
  \/ Return(p)
  \/ Unmask(p)

Next ==
  \/ \E p \in Ports, q \in Queues : Receive(p, q)
  \/ \E p \in Ports : RxIrq(p) \/ Step(p) \/ PacketFails(p)

Spec == Init /\ [][Next]_vars

\* Interrupts are delivered and the softirq makes progress; nothing is
\* assumed of the firmware.
FairSpec ==
  Spec /\ \A p \in Ports : WF_vars(RxIrq(p)) /\ WF_vars(Step(p))

-----------------------------------------------------------------------------
\* Every variable has its type.
TypeOK ==
  /\ \A q \in Queues :
       /\ {hq[q].rd, hq[q].wr} \subseteq Slots
       /\ hq[q].len \in [Slots -> {"zero", "good", "long"}]
       /\ hq[q].data \in [Slots -> 0 .. MaxFrames]
  /\ {raised, masked, scheduled} \subseteq SUBSET Ports
  /\ \A p \in Ports :
       /\ {poll[p].rd, poll[p].wr, poll[p].upd} \subseteq Slots
       /\ poll[p].i \in Queues
       /\ poll[p].used \in 0 .. Quota
       /\ poll[p].emac \in Ports
  /\ origin \in Seq(Ports)
  /\ discarded \subseteq 0 .. MaxFrames

\* No frame is given to the stack twice, and the frames of a host queue are
\* given to it in the order in which they arrived, whatever polls, retries
\* after -ENOMEM and passes over (emac_rx_packets).
OnceInOrder ==
  \A q \in Queues : \A m, n \in DOMAIN delivered[q] :
    m < n => delivered[q][m] < delivered[q][n]

\* No frame gets lost between the firmware and the stack: it has been given
\* to the stack, or it is still between the pointers, or it was in the same
\* snapshot as a frame that was too long (emac_rx_packets).
NothingLost ==
  /\ \A q \in Queues :
       ToSet(arrived[q]) \subseteq ToSet(delivered[q]) \cup Pending(q) \cup discarded
  /\ ~LongFrames => discarded = {}

\* Both: every frame reaches the stack once, in order, or is accounted for.
FramesOnce == OnceInOrder /\ NothingLost

\* As dual EMAC every frame is given to the stack as one of the port it came
\* in on.  As a switch every frame of another port is, too, and a frame of the
\* polling port unless it comes behind a frame of another port in the same
\* poll, perhaps from another host queue (emac_rx_packets: what is wrong for
\* the frames behind must not outlast the poll or reach any other frame).
MisroutedOnlyBehind ==
  \A m \in misrouted :
    /\ switch /\ origin[m[1]] = m[2]
    /\ m[3] \in 1 .. Len(origin) /\ origin[m[3]] # m[2]

\* rx_over_errors never exceeds the number of frames the firmware has found
\* no room for (it may be less: what is counted between the read and the
\* reset of overflow_cnt is lost).
NeverOvercounts == overErrors <= drops

\* "The NAPI schedule function is called if more packets pending": as long as
\* there are frames in a host queue, a poll of one of its ports is running,
\* scheduled, or about to be scheduled by the interrupt (comment of
\* emac_napi_poll, with emac_rx_irq).
SomePoll(q) ==
  \E p \in Ports :
    /\ q \in Scans(p)
    /\ p \in scheduled \cup raised \/ poll[p].pc \notin {"idle", "unmask"}
\* What holds of it: a queue left by -ENOMEM has to wait for the next frame
\* of a port that polls it, and no other queue is ever left with frames.
PollUnlessStalled ==
  \A q \in Queues : hq[q].rd # hq[q].wr /\ q \notin stalled => SomePoll(q)

\* Every frame that has been put in a host queue is taken out of it, unless
\* -ENOMEM leaves the queue: no poll ends between the last look at a queue
\* and the interrupt's return for good.
TakenOut ==
  \A id \in 1 .. MaxFrames :
    id <= Len(origin) ~>
      \/ id \in discarded
      \/ \E q \in Queues : Contains(delivered[q], id) \/ (q \in stalled /\ id \in Pending(q))
=============================================================================

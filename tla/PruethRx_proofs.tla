--------------------------- MODULE PruethRx_proofs ---------------------------
(***************************************************************************)
(* Reception on one CPU: every frame reaches the stack once and in order,  *)
(* none is taken for another port's, none is left in a host queue without  *)
(* a poll to come, and no more frames are counted as lost than were, for   *)
(* any number of ports, host queues, slots and frames.                     *)
(***************************************************************************)
EXTENDS PruethRx, SequenceTheorems, TLAPS

Lens == {"zero", "good", "long"}
HostQueue ==
  [rd : Slots, wr : Slots, overflow : Nat, len : [Slots -> Lens], data : [Slots -> Nat]]
Labels == {"idle", "overflow", "reset", "pointers", "descriptor", "packet", "clear",
           "move", "return", "unmask"}
PollState ==
  [pc : Labels, i : Queues, rd : Slots, wr : Slots, upd : Slots, len : Lens,
   used : Nat, count : Nat, emac : Ports, other : Nat]

Typed ==
  /\ switch \in BOOLEAN
  /\ hq \in [Queues -> HostQueue]
  /\ poll \in [Ports -> PollState]
  /\ origin \in Seq(Ports)
  /\ arrived \in [Queues -> Seq(Nat)]
  /\ delivered \in [Queues -> Seq(Nat)]

\* How far it is from slot r on to slot s, and the slots with a frame.
Gap(r, s) == IF s >= r THEN s - r ELSE s + RingSize - r
Held(q) == {s \in Slots : Gap(hq[q].rd, s) < Gap(hq[q].rd, hq[q].wr)}
Ids == 1 .. Len(origin)

\* One port polls at a time, and what it remembers of a host queue is right:
\* the read pointer is where it was, the write pointer has gone on at most.
InHand(p) == poll[p].pc \in {"descriptor", "packet", "clear", "move"}
PollAlone ==
  \A p, o \in Ports : poll[p].pc # "idle" /\ poll[o].pc # "idle" => p = o
Snapshot ==
  \A p \in Ports : InHand(p) =>
    LET c == poll[p]
        h == hq[c.i]
    IN  /\ c.rd = h.rd
        /\ c.rd # c.wr
        /\ Gap(h.rd, c.wr) <= Gap(h.rd, h.wr)
        /\ c.pc = "packet" => c.len = "good"
        /\ c.pc \in {"clear", "move"} => c.upd = IF c.len = "good" THEN Succ(c.rd) ELSE c.wr

\* A frame is given to the stack before the read pointer passes it.
Given(q, s) ==
  \E p \in Ports : /\ poll[p].pc \in {"clear", "move"} /\ poll[p].len = "good"
                   /\ poll[p].i = q /\ poll[p].rd = s

\* The frames in the slots are in the order in which they arrived, behind
\* those that have been delivered.
SlotsInOrder(q) ==
  /\ \A s \in Held(q) : hq[q].data[s] \in Ids
  /\ \A s, t \in Held(q) :
       Gap(hq[q].rd, s) < Gap(hq[q].rd, t) => hq[q].data[s] < hq[q].data[t]
DeliveredBefore(q) ==
  \A m \in 1 .. Len(delivered[q]) :
    /\ delivered[q][m] \in Ids
    /\ \A s \in Held(q) : \/ delivered[q][m] < hq[q].data[s]
                          \/ Given(q, s) /\ delivered[q][m] = hq[q].data[s]
DeliveredInOrder(q) ==
  \A m, n \in 1 .. Len(delivered[q]) : m < n => delivered[q][m] < delivered[q][n]

\* No frame is lost.
GivenDelivered(q) ==
  \A s \in Slots : Given(q, s) =>
    \E m \in 1 .. Len(delivered[q]) : delivered[q][m] = hq[q].data[s]
Accounted(q) ==
  \A n \in 1 .. Len(arrived[q]) :
    \/ \E m \in 1 .. Len(delivered[q]) : delivered[q][m] = arrived[q][n]
    \/ \E s \in Held(q) : hq[q].data[s] = arrived[q][n]
    \/ arrived[q][n] \in discarded

\* Only frames that are too long are passed over: a descriptor is zero only
\* while the read pointer is about to pass it.
Descriptors ==
  /\ \A q \in Queues : \A s \in Held(q) :
       hq[q].len[s] = "zero" =>
         \E p \in Ports : poll[p].pc = "move" /\ poll[p].i = q /\ poll[p].rd = s
  /\ ~LongFrames =>
       /\ \A q \in Queues : \A s \in Slots : hq[q].len[s] # "long"
       /\ \A p \in Ports : poll[p].pc \in {"clear", "move"} => poll[p].len = "good"
       /\ discarded = {}

InOrder(q) ==
  SlotsInOrder(q) /\ DeliveredBefore(q) /\ DeliveredInOrder(q) /\ GivenDelivered(q) /\ Accounted(q)

FramesInv ==
  /\ Typed /\ PollAlone /\ Snapshot
  /\ \A q \in Queues : InOrder(q)
  /\ Descriptors

\* A frame is in a host queue of the port it came in on, a port looks only
\* for its own until a frame of another port has turned it, and only frames
\* that have arrived are misrouted.
OwnFrames == \A q \in Queues : \A s \in Held(q) : q \in Scans(origin[hq[q].data[s]])
OwnPoll ==
  \A p \in Ports : poll[p].pc # "idle" =>
    /\ poll[p].i \in Scans(p)
    /\ ~switch => poll[p].emac = p
TurnedBy ==
  \A p \in Ports : poll[p].pc # "idle" /\ poll[p].emac # p =>
    poll[p].other \in Ids /\ origin[poll[p].other] # p
MisroutedKnown == \A m \in misrouted : {m[1], m[3]} \subseteq Ids

\* A port that is polled, or scheduled, or about to unmask has its interrupt
\* masked.
NapiState ==
  /\ scheduled \subseteq masked
  /\ \A p \in Ports : poll[p].pc # "idle" => p \in masked
  /\ \A p \in Ports : poll[p].pc \notin {"idle", "unmask"} => p \in scheduled
  /\ \A p \in Ports : poll[p].pc = "unmask" => p \notin scheduled

\* The poll of port p that is running, or that is sure to come, still sees
\* everything that is in host queue q now.
WillSee(p, q) ==
  LET c == poll[p]
  IN  /\ q \in Scans(p)
      /\ \/ p \in raised
         \/ p \in scheduled /\ c.pc = "idle"
         \/ c.pc \in {"overflow", "reset", "pointers"} /\ c.i <= q
         \/ InHand(p) /\ (c.i < q \/ (c.i = q /\ c.wr = hq[q].wr))
         \/ c.pc = "return" /\ c.used >= Quota
Seen == \A q \in Queues : hq[q].rd # hq[q].wr /\ q \notin stalled => \E p \in Ports : WillSee(p, q)

\* The frames the firmware has found no room for are in a counter or have
\* been read from one: f[n] is the sum of the first n counters.
Sums ==
  {f \in [0 .. NumQueues -> Nat] :
     /\ f[0] = 0
     /\ \A n \in Queues : f[n] = f[n - 1] + hq[n].overflow
     /\ \A m, n \in 0 .. NumQueues : m <= n => f[m] <= f[n]}
Counted ==
  /\ drops \in Nat /\ overErrors \in Nat
  /\ \E f \in Sums :
       /\ (\A p \in Ports : poll[p].pc # "reset") => f[NumQueues] + overErrors <= drops
       /\ \A p \in Ports : poll[p].pc = "reset" =>
            /\ poll[p].count <= hq[poll[p].i].overflow
            /\ f[NumQueues] + overErrors <= drops + poll[p].count

(* ------------------------------ the ring ------------------------------- *)

\* The slot after s (update_block of one block).
LEMMA SuccIs ==
  ASSUME NEW s \in Slots
  PROVE  /\ Succ(s) \in Slots
         /\ Succ(s) = IF s = RingSize - 1 THEN 0 ELSE s + 1
  BY RxAssumption DEF Succ, Slots

\* Gap is the distance within the lap, and no two slots are equally far.
LEMMA GapIs ==
  ASSUME NEW r \in Slots, NEW s \in Slots
  PROVE  /\ Gap(r, s) \in 0 .. RingSize - 1
         /\ Gap(r, s) \in Nat
         /\ Gap(r, s) = 0 <=> r = s
         /\ Gap(r, s) = (s + RingSize - r) % RingSize
  BY RxAssumption DEF Gap, Slots
LEMMA GapInjective ==
  ASSUME NEW r \in Slots, NEW s \in Slots, NEW t \in Slots, Gap(r, s) = Gap(r, t)
  PROVE  s = t
  BY RxAssumption DEF Gap, Slots

\* The slots from r up to w are those that are nearer to r than w is.
LEMMA BetweenIs ==
  ASSUME NEW r \in Slots, NEW w \in Slots
  PROVE  Between(r, w) = {s \in Slots : Gap(r, s) < Gap(r, w)}
<1>1. Gap(r, w) = (w + RingSize - r) % RingSize /\ Gap(r, w) \in 0 .. RingSize - 1
  BY GapIs
<1>2. ASSUME NEW k \in 0 .. Gap(r, w) - 1
      PROVE  /\ (r + k) % RingSize \in Slots
             /\ Gap(r, (r + k) % RingSize) = k
  <2>1. (r + k) % RingSize = IF r + k >= RingSize THEN r + k - RingSize ELSE r + k
    BY <1>1, RxAssumption DEF Slots
  <2> QED BY <2>1, <1>1, RxAssumption DEF Slots, Gap
<1>3. ASSUME NEW s \in Slots
      PROVE  s = (r + Gap(r, s)) % RingSize
  BY RxAssumption DEF Slots, Gap
<1>4. ASSUME NEW s \in Slots, Gap(r, s) < Gap(r, w)
      PROVE  \E k \in 0 .. Gap(r, w) - 1 : s = (r + k) % RingSize
  BY <1>3, <1>4, <1>1, GapIs
<1> QED BY <1>1, <1>2, <1>4 DEF Between

\* Seen from u, which is not behind s, s is nearer than from r by what u is.
LEMMA GapShift ==
  ASSUME NEW r \in Slots, NEW s \in Slots, NEW u \in Slots, Gap(r, u) <= Gap(r, s)
  PROVE  Gap(u, s) = Gap(r, s) - Gap(r, u)
  BY RxAssumption DEF Gap, Slots

\* What lies before u is, seen from u, behind everything that lies after it.
LEMMA GapWraps ==
  ASSUME NEW r \in Slots, NEW s \in Slots, NEW u \in Slots, Gap(r, s) < Gap(r, u)
  PROVE  Gap(u, s) = RingSize - (Gap(r, u) - Gap(r, s))
  BY RxAssumption DEF Gap, Slots

\* One slot further, as long as that is not r again.
LEMMA GapSucc ==
  ASSUME NEW r \in Slots, NEW s \in Slots, Succ(s) # r
  PROVE  Gap(r, Succ(s)) = Gap(r, s) + 1
  BY SuccIs, RxAssumption DEF Gap, Slots

(* --------------------- what a step does to a queue --------------------- *)

\* What the invariant says of host queue q stays true as long as its
\* pointers, its frames and what is given of them do.
LEMMA QueueKept ==
  ASSUME Typed, Typed', NEW q \in Queues, InOrder(q),
         hq'[q].rd = hq[q].rd, hq'[q].wr = hq[q].wr, hq'[q].data = hq[q].data,
         delivered'[q] = delivered[q], arrived'[q] = arrived[q],
         Len(origin) <= Len(origin'), discarded \subseteq discarded',
         \A s \in Slots : Given(q, s)' <=> Given(q, s)
  PROVE  InOrder(q)'
<1>1. Held(q)' = Held(q) /\ Held(q) \subseteq Slots
  BY DEF Held
<1>2. Ids \subseteq Ids'
  <2>1. Len(origin) \in Nat /\ Len(origin') \in Nat
    BY DEF Typed
  <2> QED BY <2>1 DEF Ids
<1>3. SlotsInOrder(q)'
  BY <1>1, <1>2 DEF SlotsInOrder, InOrder
<1>4. DeliveredBefore(q)'
  BY <1>1, <1>2 DEF DeliveredBefore, InOrder
<1>5. DeliveredInOrder(q)'
  BY DEF DeliveredInOrder, InOrder
<1>6. GivenDelivered(q)'
  BY DEF GivenDelivered, InOrder
<1>7. Accounted(q)'
  BY <1>1 DEF Accounted, InOrder
<1> QED BY <1>3, <1>4, <1>5, <1>6, <1>7 DEF InOrder

\* A frame that the firmware adds is behind all others.
LEMMA QueueReceives ==
  ASSUME Typed, Typed', NEW q \in Queues, InOrder(q),
         Succ(hq[q].wr) # hq[q].rd,
         hq'[q].rd = hq[q].rd, hq'[q].wr = Succ(hq[q].wr),
         hq'[q].data = [hq[q].data EXCEPT ![hq[q].wr] = Len(origin) + 1],
         Len(origin') = Len(origin) + 1,
         delivered'[q] = delivered[q], arrived'[q] = Append(arrived[q], Len(origin) + 1),
         discarded' = discarded,
         \A s \in Slots : Given(q, s)' <=> Given(q, s),
         \A s \in Slots : Given(q, s) => s # hq[q].wr
  PROVE  InOrder(q)'
<1> DEFINE rd == hq[q].rd
           wr == hq[q].wr
           id == Len(origin) + 1
<1>1. /\ rd \in Slots /\ wr \in Slots /\ Len(origin) \in Nat
      /\ hq[q].data \in [Slots -> Nat] /\ arrived[q] \in Seq(Nat)
  BY DEF Typed, HostQueue
<1>2. Gap(rd, Succ(wr)) = Gap(rd, wr) + 1
  BY <1>1, GapSucc
<1>3. ASSUME NEW s \in Slots
      PROVE  Gap(rd, s) \in Nat /\ (Gap(rd, s) = Gap(rd, wr) <=> s = wr)
  <2> HIDE DEF rd, wr
  <2>1. Gap(rd, s) \in Nat
    BY <1>1, GapIs
  <2>2. Gap(rd, s) = Gap(rd, wr) => s = wr
    BY <1>1, GapInjective
  <2> QED BY <2>1, <2>2
<1>4. \A s \in Slots : s \in Held(q)' <=> s \in Held(q) \/ s = wr
  <2>1. Gap(rd, wr) \in Nat
    BY <1>1, <1>3
  <2> QED BY <1>2, <1>3, <2>1 DEF Held
<1>5. /\ wr \notin Held(q) /\ Held(q) \subseteq Slots /\ Held(q)' \subseteq Slots
      /\ \A s \in Held(q) : s # wr /\ hq'[q].data[s] = hq[q].data[s]
      /\ \A s \in Held(q) : Gap(rd, s) < Gap(rd, wr)
      /\ hq'[q].data[wr] = id
  BY <1>1, <1>3 DEF Held
<1>6. Ids \subseteq Ids' /\ id \in Ids' /\ \A n \in Ids : n \in Nat /\ n < id
  BY <1>1 DEF Ids
<1>7. SlotsInOrder(q)'
  <2>1. \A s \in Held(q)' : hq'[q].data[s] \in Ids'
    BY <1>4, <1>5, <1>6 DEF SlotsInOrder, InOrder
  <2>2. ASSUME NEW s \in Held(q)', NEW t \in Held(q)', Gap(rd, s) < Gap(rd, t)
        PROVE  hq'[q].data[s] < hq'[q].data[t]
    <3>1. s \in Held(q)
      <4>1. t # wr => Gap(rd, t) < Gap(rd, wr)
        BY <1>4, <1>5
      <4>2. Gap(rd, s) < Gap(rd, wr) \/ s # wr
        BY <2>2, <1>3, <1>5, <4>1
      <4> QED BY <4>1, <4>2, <1>3, <1>4, <1>5, <2>2
    <3>2. CASE t = wr
      BY <3>1, <3>2, <1>5, <1>6 DEF SlotsInOrder, InOrder
    <3>3. CASE t # wr
      BY <3>1, <3>3, <1>4, <1>5, <2>2 DEF SlotsInOrder, InOrder
    <3> QED BY <3>2, <3>3
  <2> QED BY <2>1, <2>2 DEF SlotsInOrder
<1>8. DeliveredBefore(q)'
  <2> SUFFICES ASSUME NEW m \in 1 .. Len(delivered[q])
               PROVE  /\ delivered[q][m] \in Ids'
                      /\ \A s \in Held(q)' : \/ delivered[q][m] < hq'[q].data[s]
                                             \/ Given(q, s)' /\ delivered[q][m] = hq'[q].data[s]
    BY DEF DeliveredBefore
  <2>1. delivered[q][m] \in Ids
    BY DEF DeliveredBefore, InOrder
  <2>2. ASSUME NEW s \in Held(q)'
        PROVE  \/ delivered[q][m] < hq'[q].data[s]
               \/ Given(q, s)' /\ delivered[q][m] = hq'[q].data[s]
    <3>1. CASE s = wr
      BY <3>1, <2>1, <1>5, <1>6
    <3>2. CASE s # wr
      BY <3>2, <1>4, <1>5 DEF DeliveredBefore, InOrder
    <3> QED BY <3>1, <3>2
  <2> QED BY <2>1, <2>2, <1>6
<1>9. DeliveredInOrder(q)'
  BY DEF DeliveredInOrder, InOrder
<1>10. GivenDelivered(q)'
  BY <1>1 DEF GivenDelivered, InOrder
<1>11. Accounted(q)'
  <2> SUFFICES ASSUME NEW n \in 1 .. Len(arrived'[q])
               PROVE  \/ \E m \in 1 .. Len(delivered[q]) : delivered[q][m] = arrived'[q][n]
                      \/ \E s \in Held(q)' : hq'[q].data[s] = arrived'[q][n]
                      \/ arrived'[q][n] \in discarded
    BY DEF Accounted
  <2>1. CASE n = Len(arrived[q]) + 1
    <3>1. arrived'[q][n] = id
      BY <2>1, <1>1
    <3> QED BY <3>1, <1>1, <1>4, <1>5
  <2>2. CASE n # Len(arrived[q]) + 1
    <3>1. n \in 1 .. Len(arrived[q]) /\ arrived'[q][n] = arrived[q][n]
      BY <2>2, <1>1
    <3> QED BY <3>1, <1>4, <1>5 DEF Accounted, InOrder
  <2> QED BY <2>1, <2>2
<1> QED BY <1>7, <1>8, <1>9, <1>10, <1>11 DEF InOrder

\* The frame at the read pointer is behind those that have been delivered,
\* and before those that are left.
LEMMA QueueDelivers ==
  ASSUME Typed, Typed', NEW q \in Queues, InOrder(q),
         hq[q].rd # hq[q].wr,
         hq'[q].rd = hq[q].rd, hq'[q].wr = hq[q].wr, hq'[q].data = hq[q].data,
         delivered'[q] = Append(delivered[q], hq[q].data[hq[q].rd]),
         arrived'[q] = arrived[q], origin' = origin, discarded' = discarded,
         \A s \in Slots : ~Given(q, s),
         \A s \in Slots : Given(q, s)' <=> s = hq[q].rd
  PROVE  InOrder(q)'
<1> DEFINE rd == hq[q].rd
           wr == hq[q].wr
           id == hq[q].data[rd]
           D == delivered[q]
           D1 == delivered'[q]
<1>1. /\ rd \in Slots /\ wr \in Slots /\ D \in Seq(Nat) /\ id \in Nat
      /\ hq[q].data \in [Slots -> Nat]
  BY DEF Typed, HostQueue
<1>2. Gap(rd, rd) = 0 /\ Gap(rd, wr) > 0
  BY <1>1, GapIs, RxAssumption
<1>3. /\ Held(q)' = Held(q) /\ Held(q) \subseteq Slots /\ rd \in Held(q) /\ Ids' = Ids
  BY <1>1, <1>2 DEF Held, Ids
<1>4. ASSUME NEW s \in Held(q), s # rd
      PROVE  id < hq[q].data[s]
  <2>1. Gap(rd, rd) < Gap(rd, s)
    BY <1>1, <1>2, <1>3, <1>4, GapIs, RxAssumption
  <2> QED BY <2>1, <1>3 DEF SlotsInOrder, InOrder
<1>5. /\ Len(D1) = Len(D) + 1 /\ D1[Len(D) + 1] = id
      /\ \A m \in 1 .. Len(D) : D1[m] = D[m]
      /\ Len(D) \in Nat
  BY <1>1
<1>6. /\ id \in Ids
      /\ \A m \in 1 .. Len(D) : D[m] \in Ids /\ D[m] < id
  BY <1>3 DEF SlotsInOrder, DeliveredBefore, InOrder
<1>7. SlotsInOrder(q)'
  BY <1>3 DEF SlotsInOrder, InOrder
<1>8. DeliveredBefore(q)'
  <2> SUFFICES ASSUME NEW m \in 1 .. Len(D1)
               PROVE  /\ D1[m] \in Ids
                      /\ \A s \in Held(q) : \/ D1[m] < hq[q].data[s]
                                            \/ s = rd /\ D1[m] = hq[q].data[s]
    BY <1>3 DEF DeliveredBefore
  <2>1. CASE m = Len(D) + 1
    BY <2>1, <1>4, <1>5, <1>6
  <2>2. CASE m # Len(D) + 1
    <3>1. m \in 1 .. Len(D)
      BY <2>2, <1>5
    <3> QED BY <3>1, <1>3, <1>5, <1>6 DEF DeliveredBefore, InOrder
  <2> QED BY <2>1, <2>2
<1>9. DeliveredInOrder(q)'
  <2> SUFFICES ASSUME NEW m \in 1 .. Len(D1), NEW n \in 1 .. Len(D1), m < n
               PROVE  D1[m] < D1[n]
    BY DEF DeliveredInOrder
  <2>1. m \in 1 .. Len(D)
    BY <1>5
  <2>2. CASE n = Len(D) + 1
    BY <2>1, <2>2, <1>5, <1>6
  <2>3. CASE n # Len(D) + 1
    <3>1. n \in 1 .. Len(D)
      BY <2>3, <1>5
    <3> QED BY <2>1, <3>1, <1>5 DEF DeliveredInOrder, InOrder
  <2> QED BY <2>2, <2>3
<1>10. GivenDelivered(q)'
  <2>1. Len(D) + 1 \in 1 .. Len(D1)
    BY <1>5
  <2> QED BY <2>1, <1>5 DEF GivenDelivered
<1>11. Accounted(q)'
  <2> SUFFICES ASSUME NEW n \in 1 .. Len(arrived[q])
               PROVE  \/ \E m \in 1 .. Len(D1) : D1[m] = arrived[q][n]
                      \/ \E s \in Held(q) : hq[q].data[s] = arrived[q][n]
                      \/ arrived[q][n] \in discarded
    BY <1>3 DEF Accounted
  <2>1. \A m \in 1 .. Len(D) : m \in 1 .. Len(D1) /\ D1[m] = D[m]
    BY <1>5
  <2> QED BY <2>1 DEF Accounted, InOrder
<1> QED BY <1>7, <1>8, <1>9, <1>10, <1>11 DEF InOrder

\* The read pointer passes over what has been delivered or is accounted for.
LEMMA QueueMoves ==
  ASSUME Typed, Typed', NEW q \in Queues, InOrder(q), NEW u \in Slots,
         u # hq[q].rd, Gap(hq[q].rd, u) <= Gap(hq[q].rd, hq[q].wr),
         hq'[q].rd = u, hq'[q].wr = hq[q].wr, hq'[q].data = hq[q].data,
         delivered' = delivered, arrived' = arrived, origin' = origin,
         discarded \subseteq discarded',
         \A s \in Slots : Gap(hq[q].rd, s) < Gap(hq[q].rd, u) =>
           (s = hq[q].rd /\ Given(q, s)) \/ hq[q].data[s] \in discarded',
         \A s \in Slots : Given(q, s) => s = hq[q].rd,
         \A s \in Slots : ~Given(q, s)'
  PROVE  InOrder(q)'
<1> DEFINE rd == hq[q].rd
           wr == hq[q].wr
<1>1. /\ rd \in Slots /\ wr \in Slots
      /\ hq[q].data \in [Slots -> Nat]
  BY DEF Typed, HostQueue
<1>2. Gap(rd, u) \in Nat /\ Gap(rd, wr) \in 0 .. RingSize - 1
  BY <1>1, GapIs
<1>3. Gap(u, wr) = Gap(rd, wr) - Gap(rd, u)
  BY <1>1, GapShift
<1>4. ASSUME NEW s \in Slots
      PROVE  /\ Gap(rd, s) \in Nat
             /\ Gap(rd, s) < Gap(rd, u) => s \notin Held(q)'
             /\ Gap(rd, s) >= Gap(rd, u) => Gap(u, s) = Gap(rd, s) - Gap(rd, u)
  <2>1. Gap(rd, s) \in Nat
    BY <1>1, GapIs
  <2>2. ASSUME Gap(rd, s) < Gap(rd, u)
        PROVE  s \notin Held(q)'
    <3>1. Gap(u, s) = RingSize - (Gap(rd, u) - Gap(rd, s))
      BY <1>1, <2>2, GapWraps
    <3> QED BY <3>1, <2>1, <1>2, <1>3, RxAssumption DEF Held
  <2>3. ASSUME Gap(rd, s) >= Gap(rd, u)
        PROVE  Gap(u, s) = Gap(rd, s) - Gap(rd, u)
    <3>1. Gap(rd, u) <= Gap(rd, s)
      BY <2>1, <2>3, <1>2
    <3> QED BY <3>1, <1>1, GapShift
  <2> QED BY <2>1, <2>2, <2>3
<1>5. \A s \in Held(q)' : /\ s \in Held(q) /\ Gap(rd, s) >= Gap(rd, u)
                          /\ Gap(u, s) = Gap(rd, s) - Gap(rd, u)
  BY <1>1, <1>2, <1>3, <1>4 DEF Held
<1>6. \A s \in Held(q) : \/ s \in Held(q)'
                         \/ Gap(rd, s) < Gap(rd, u)
  BY <1>1, <1>2, <1>3, <1>4 DEF Held
<1>7. Held(q) \subseteq Slots /\ rd \notin Held(q)' /\ Ids' = Ids
  <2>1. Gap(rd, rd) = 0 /\ Gap(rd, u) # 0
    BY <1>1, GapIs
  <2> QED BY <2>1, <1>1, <1>2, <1>4 DEF Held, Ids
<1>8. SlotsInOrder(q)'
  <2>1. \A s \in Held(q)' : hq'[q].data[s] \in Ids'
    BY <1>5, <1>7 DEF SlotsInOrder, InOrder
  <2>2. ASSUME NEW s \in Held(q)', NEW t \in Held(q)', Gap(u, s) < Gap(u, t)
        PROVE  hq'[q].data[s] < hq'[q].data[t]
    <3>1. Gap(rd, s) < Gap(rd, t)
      BY <1>2, <1>4, <1>5, <1>7, <2>2
    <3> QED BY <3>1, <1>5 DEF SlotsInOrder, InOrder
  <2> QED BY <2>1, <2>2 DEF SlotsInOrder
<1>9. DeliveredBefore(q)'
  <2> SUFFICES ASSUME NEW m \in 1 .. Len(delivered[q])
               PROVE  /\ delivered[q][m] \in Ids
                      /\ \A s \in Held(q)' : delivered[q][m] < hq[q].data[s]
    BY <1>7 DEF DeliveredBefore
  <2> QED BY <1>5, <1>7 DEF DeliveredBefore, InOrder
<1>10. DeliveredInOrder(q)'
  BY DEF DeliveredInOrder, InOrder
<1>11. GivenDelivered(q)'
  BY DEF GivenDelivered
<1>12. Accounted(q)'
  <2> SUFFICES ASSUME NEW n \in 1 .. Len(arrived[q])
               PROVE  \/ \E m \in 1 .. Len(delivered[q]) : delivered[q][m] = arrived[q][n]
                      \/ \E s \in Held(q)' : hq[q].data[s] = arrived[q][n]
                      \/ arrived[q][n] \in discarded'
    BY DEF Accounted
  <2>1. ASSUME NEW s \in Held(q), hq[q].data[s] = arrived[q][n], s \notin Held(q)'
        PROVE  \/ \E m \in 1 .. Len(delivered[q]) : delivered[q][m] = arrived[q][n]
               \/ arrived[q][n] \in discarded'
    <3>1. s \in Slots /\ Gap(rd, s) < Gap(rd, u)
      BY <2>1, <1>6, <1>7
    <3> QED BY <3>1, <2>1 DEF GivenDelivered, InOrder
  <2> QED BY <2>1 DEF Accounted, InOrder
<1> QED BY <1>8, <1>9, <1>10, <1>11, <1>12 DEF InOrder

(* --------------------------- type correctness -------------------------- *)

\* The constants, and the host queues that a port polls.
LEMMA Constants ==
  /\ NumQueues \in Nat /\ NumQueues >= 1 /\ 1 \in Queues /\ NumQueues \in Queues
  /\ RingSize \in Nat /\ RingSize >= 2 /\ 0 \in Slots
  /\ Quota \in Nat /\ Quota >= 1
  /\ Queues \subseteq Nat /\ Slots \subseteq Nat
  /\ Modes \subseteq BOOLEAN
  BY RxAssumption DEF Queues, Slots
LEMMA ScanQueues ==
  ASSUME NEW p \in Ports
  PROVE  StartQueue(p) \in Queues /\ EndQueue(p) \in Queues /\ Scans(p) \subseteq Queues
<1>1. RxQueueStart \in [Ports -> Queues] /\ RxQueueEnd \in [Ports -> Queues]
  BY RxAssumption
<1>2. StartQueue(p) \in Queues /\ EndQueue(p) \in Queues
  BY <1>1, Constants DEF StartQueue, EndQueue
<1> QED BY <1>2, Constants DEF Scans, Queues

\* A step of port p changes what p remembers, and nothing of another port.
Others(p) == \A o \in Ports : o # p => poll'[o] = poll[o]
LEMMA PollUpdate ==
  ASSUME Typed, NEW p \in Ports, NEW c \in PollState, poll' = [poll EXCEPT ![p] = c]
  PROVE  poll' \in [Ports -> PollState] /\ poll'[p] = c /\ Others(p)
  BY DEF Typed, Others
LEMMA GotoIs ==
  ASSUME Typed, NEW p \in Ports, NEW label \in Labels, Goto(p, label)
  PROVE  /\ poll' \in [Ports -> PollState] /\ Others(p)
         /\ poll'[p] = [poll[p] EXCEPT !.pc = label] /\ poll'[p].pc = label
<1> DEFINE c == [poll[p] EXCEPT !.pc = label]
<1>1. c \in PollState
  <2>1. poll[p] \in PollState
    BY DEF Typed
  <2> QED BY <2>1 DEF PollState
<1>2. poll' = [poll EXCEPT ![p] = c]
  BY DEF Goto, Typed
<1> HIDE DEF c
<1>3. poll' \in [Ports -> PollState] /\ poll'[p] = c /\ Others(p)
  BY <1>1, <1>2, PollUpdate
<1>4. c.pc = label
  <2>1. poll[p] \in PollState
    BY DEF Typed
  <2> QED BY <2>1 DEF c, PollState
<1> QED BY <1>3, <1>4 DEF c
LEMMA ProceedIs ==
  ASSUME Typed, NEW p \in Ports, NEW r \in Slots, NEW w \in Slots, Proceed(p, r, w)
  PROVE  /\ poll' \in [Ports -> PollState] /\ Others(p)
         /\ poll'[p].rd = r /\ poll'[p].wr = w
         /\ poll'[p].upd = poll[p].upd /\ poll'[p].len = poll[p].len
         /\ poll'[p].used = poll[p].used /\ poll'[p].emac = poll[p].emac
         /\ poll'[p].other = poll[p].other
         /\ \/ r # w /\ poll'[p].pc = "descriptor" /\ poll'[p].i = poll[p].i
            \/ /\ r = w /\ poll[p].i < EndQueue(p)
               /\ poll'[p].pc = "overflow" /\ poll'[p].i = poll[p].i + 1
            \/ /\ r = w /\ ~(poll[p].i < EndQueue(p))
               /\ poll'[p].pc = "return" /\ poll'[p].i = poll[p].i
<1> DEFINE step == IF r # w THEN [pc |-> "descriptor", i |-> poll[p].i]
                   ELSE IF poll[p].i < EndQueue(p)
                   THEN [pc |-> "overflow", i |-> poll[p].i + 1]
                   ELSE [pc |-> "return", i |-> poll[p].i]
           c == [poll[p] EXCEPT !.pc = step.pc, !.i = step.i, !.rd = r, !.wr = w]
<1>1. poll[p] \in PollState
  BY DEF Typed
<1>2. poll[p].i \in Queues
  BY <1>1 DEF PollState
<1>3. poll[p].i < EndQueue(p) => poll[p].i + 1 \in Queues
  BY <1>2, ScanQueues, Constants DEF Queues
<1>4. step.pc \in Labels /\ step.i \in Queues
  BY <1>2, <1>3 DEF Labels
<1>5. c \in PollState
  <2> HIDE DEF step
  <2> QED BY <1>1, <1>4 DEF PollState
<1>6. poll' = [poll EXCEPT ![p] = c]
  <2>1. poll' = [poll EXCEPT ![p].pc = step.pc, ![p].i = step.i, ![p].rd = r, ![p].wr = w]
    BY DEF Proceed
  <2> HIDE DEF step
  <2> QED BY <2>1 DEF Typed
<1>7. /\ c.rd = r /\ c.wr = w /\ c.upd = poll[p].upd /\ c.len = poll[p].len
      /\ c.used = poll[p].used /\ c.emac = poll[p].emac /\ c.other = poll[p].other
      /\ c.pc = step.pc /\ c.i = step.i
  <2> HIDE DEF step
  <2> QED BY <1>1 DEF PollState
<1>8. poll' \in [Ports -> PollState] /\ poll'[p] = c /\ Others(p)
  <2> HIDE DEF c
  <2> QED BY <1>5, <1>6, PollUpdate
<1>9. \/ r # w /\ step.pc = "descriptor" /\ step.i = poll[p].i
      \/ r = w /\ poll[p].i < EndQueue(p) /\ step.pc = "overflow" /\ step.i = poll[p].i + 1
      \/ r = w /\ ~(poll[p].i < EndQueue(p)) /\ step.pc = "return" /\ step.i = poll[p].i
  OBVIOUS
<1> HIDE DEF c, step
<1> QED BY <1>7, <1>8, <1>9

LEMMA PollIs ==
  ASSUME Typed, NEW p \in Ports, Poll(p)
  PROVE  /\ poll' \in [Ports -> PollState] /\ Others(p)
         /\ poll'[p] = [poll[p] EXCEPT !.pc = "overflow", !.i = StartQueue(p),
                                       !.used = 0, !.emac = p, !.other = 0]
<1> DEFINE c == [poll[p] EXCEPT !.pc = "overflow", !.i = StartQueue(p), !.used = 0,
                                !.emac = p, !.other = 0]
<1>1. poll[p] \in PollState /\ StartQueue(p) \in Queues
  BY ScanQueues DEF Typed
<1>2. c \in PollState
  BY <1>1 DEF PollState, Labels
<1>3. poll' = [poll EXCEPT ![p] = c]
  BY DEF Poll, Typed
<1> HIDE DEF c
<1>4. poll' \in [Ports -> PollState] /\ poll'[p] = c /\ Others(p)
  BY <1>2, <1>3, PollUpdate
<1> QED BY <1>4 DEF c
LEMMA ReadOverflowIs ==
  ASSUME Typed, NEW p \in Ports, ReadOverflow(p)
  PROVE  /\ poll' \in [Ports -> PollState] /\ Others(p)
         /\ poll'[p].pc \in {"reset", "pointers"}
         /\ poll'[p].i = poll[p].i /\ poll'[p].count = hq[poll[p].i].overflow
         /\ poll'[p].pc = "reset" <=> hq[poll[p].i].overflow > 0
         /\ poll'[p] = [poll[p] EXCEPT !.pc = poll'[p].pc, !.count = poll'[p].count]
<1> DEFINE cnt == hq[poll[p].i].overflow
           label == IF cnt > 0 THEN "reset" ELSE "pointers"
           c == [poll[p] EXCEPT !.pc = label, !.count = cnt]
<1>1. poll[p] \in PollState
  BY DEF Typed
<1>2. cnt \in Nat
  <2>1. hq[poll[p].i] \in HostQueue
    BY <1>1 DEF PollState, Typed
  <2> QED BY <2>1 DEF HostQueue
<1>3. label \in Labels /\ label \in {"reset", "pointers"}
  BY DEF Labels
<1>4. c \in PollState
  <2> HIDE DEF cnt, label
  <2> QED BY <1>1, <1>2, <1>3 DEF PollState
<1>5. poll' = [poll EXCEPT ![p] = c]
  <2>1. poll' = [poll EXCEPT ![p].pc = label, ![p].count = cnt]
    BY DEF ReadOverflow
  <2> HIDE DEF cnt, label
  <2> QED BY <2>1 DEF Typed
<1>6. poll' \in [Ports -> PollState] /\ poll'[p] = c /\ Others(p)
  <2> HIDE DEF c
  <2> QED BY <1>4, <1>5, PollUpdate
<1>7. label = "reset" <=> cnt > 0
  OBVIOUS
<1> HIDE DEF cnt, label
<1>8. c.pc = label /\ c.count = cnt /\ c.i = poll[p].i
  BY <1>1 DEF PollState
<1>9. c = [poll[p] EXCEPT !.pc = c.pc, !.count = c.count]
  BY <1>8
<1> QED BY <1>3, <1>6, <1>7, <1>8, <1>9 DEF cnt
LEMMA ReadDescriptorIs ==
  ASSUME Typed, NEW p \in Ports, ReadDescriptor(p)
  PROVE  LET l == hq[poll[p].i].len[poll[p].rd]
         IN  /\ poll' \in [Ports -> PollState] /\ Others(p)
             /\ l \in Lens
             /\ poll'[p].i = poll[p].i /\ poll'[p].rd = poll[p].rd
             /\ poll'[p].wr = poll[p].wr /\ poll'[p].emac = poll[p].emac
             /\ poll'[p].other = poll[p].other /\ poll'[p].len = l
             /\ \/ l = "good" /\ poll'[p].pc = "packet"
                \/ l # "good" /\ poll'[p].pc = "clear" /\ poll'[p].upd = poll[p].wr
<1> DEFINE l == hq[poll[p].i].len[poll[p].rd]
           label == IF l = "good" THEN "packet" ELSE "clear"
           upd == IF l = "good" THEN poll[p].upd ELSE poll[p].wr
           c == [poll[p] EXCEPT !.len = l, !.pc = label, !.upd = upd]
<1>1. poll[p] \in PollState
  BY DEF Typed
<1>2. l \in Lens
  <2>1. hq[poll[p].i] \in HostQueue /\ poll[p].rd \in Slots
    BY <1>1 DEF PollState, Typed
  <2> QED BY <2>1 DEF HostQueue
<1>3. label \in Labels /\ upd \in Slots
  BY <1>1 DEF Labels, PollState
<1>4. c \in PollState
  <2> HIDE DEF l, label, upd
  <2> QED BY <1>1, <1>2, <1>3 DEF PollState
<1>5. poll' = [poll EXCEPT ![p] = c]
  <2>1. poll' = [poll EXCEPT ![p].len = l, ![p].pc = label,
                             ![p].upd = IF l = "good" THEN @ ELSE poll[p].wr]
    BY DEF ReadDescriptor
  <2> HIDE DEF l, label
  <2> QED BY <2>1 DEF Typed
<1>6. poll' \in [Ports -> PollState] /\ poll'[p] = c /\ Others(p)
  <2> HIDE DEF c
  <2> QED BY <1>4, <1>5, PollUpdate
<1>7. /\ c.i = poll[p].i /\ c.rd = poll[p].rd /\ c.wr = poll[p].wr /\ c.emac = poll[p].emac
      /\ c.other = poll[p].other /\ c.len = l /\ c.pc = label /\ c.upd = upd
  <2> HIDE DEF l, label, upd
  <2> QED BY <1>1 DEF PollState
<1>8. \/ l = "good" /\ label = "packet"
      \/ l # "good" /\ label = "clear" /\ upd = poll[p].wr
  OBVIOUS
<1> HIDE DEF c, label, upd
<1> QED BY <1>2, <1>6, <1>7, <1>8
LEMMA DeliverIs ==
  ASSUME Typed, NEW p \in Ports, NEW to \in Ports, Deliver(p, to)
  PROVE  /\ poll' \in [Ports -> PollState] /\ Others(p)
         /\ poll'[p].i = poll[p].i /\ poll'[p].rd = poll[p].rd
         /\ poll'[p].wr = poll[p].wr /\ poll'[p].len = poll[p].len
         /\ poll'[p].pc = "clear" /\ poll'[p].upd = Succ(poll[p].rd) /\ poll'[p].emac = to
         /\ LET id == hq[poll[p].i].data[poll[p].rd]
            IN  poll'[p].other = IF origin[id] = p THEN poll[p].other ELSE id
<1> DEFINE upd == Succ(poll[p].rd)
           used == poll[p].used + 1
           id == hq[poll[p].i].data[poll[p].rd]
           other == IF origin[id] = p THEN poll[p].other ELSE id
           c == [poll[p] EXCEPT !.pc = "clear", !.upd = upd, !.used = used, !.emac = to,
                                !.other = other]
<1>1. poll[p] \in PollState
  BY DEF Typed
<1>2. upd \in Slots /\ used \in Nat /\ other \in Nat
  <2>1. id \in Nat
    BY <1>1 DEF Typed, PollState, HostQueue
  <2> QED BY <1>1, <2>1, SuccIs DEF PollState
<1>3. c \in PollState
  <2> HIDE DEF upd, used, other
  <2> QED BY <1>1, <1>2 DEF PollState, Labels
<1>4. poll' = [poll EXCEPT ![p] = c]
  <2>1. poll' = [poll EXCEPT ![p].pc = "clear", ![p].upd = upd,
                             ![p].used = @ + 1, ![p].emac = to,
                             ![p].other = IF origin[id] = p THEN @ ELSE id]
    BY DEF Deliver
  <2> HIDE DEF upd, id
  <2> QED BY <2>1 DEF Typed
<1>5. /\ c.i = poll[p].i /\ c.rd = poll[p].rd /\ c.wr = poll[p].wr /\ c.len = poll[p].len
      /\ c.pc = "clear" /\ c.upd = upd /\ c.emac = to /\ c.other = other
  <2> HIDE DEF upd, used, other
  <2> QED BY <1>1 DEF PollState
<1> HIDE DEF c
<1>6. poll' \in [Ports -> PollState] /\ poll'[p] = c /\ Others(p)
  BY <1>3, <1>4, PollUpdate
<1> QED BY <1>5, <1>6
LEMMA GiveUpIs ==
  ASSUME Typed, NEW p \in Ports, GiveUp(p)
  PROVE  /\ poll' \in [Ports -> PollState] /\ Others(p)
         /\ poll'[p] = [poll[p] EXCEPT !.pc = "return", !.used = 0]
<1> DEFINE c == [poll[p] EXCEPT !.pc = "return", !.used = 0]
<1>1. poll[p] \in PollState
  BY DEF Typed
<1>2. c \in PollState
  BY <1>1 DEF PollState, Labels
<1>3. poll' = [poll EXCEPT ![p] = c]
  BY DEF GiveUp, Typed
<1> HIDE DEF c
<1>4. poll' \in [Ports -> PollState] /\ poll'[p] = c /\ Others(p)
  BY <1>2, <1>3, PollUpdate
<1> QED BY <1>4 DEF c

\* Of the frames that are in a host queue, the one at the read pointer.
LEMMA AtReadPointer ==
  ASSUME FramesInv, NEW q \in Queues, hq[q].rd # hq[q].wr
  PROVE  /\ hq[q].rd \in Held(q)
         /\ hq[q].data[hq[q].rd] \in Ids
         /\ origin[hq[q].data[hq[q].rd]] \in Ports
<1> DEFINE rd == hq[q].rd
           wr == hq[q].wr
           id == hq[q].data[rd]
<1>1. rd \in Slots /\ wr \in Slots /\ origin \in Seq(Ports)
  BY DEF FramesInv, Typed, HostQueue
<1>2. Gap(rd, rd) = 0 /\ Gap(rd, wr) > 0
  BY <1>1, GapIs
<1>3. rd \in Held(q)
  BY <1>1, <1>2 DEF Held
<1>4. id \in Ids
  BY <1>3 DEF FramesInv, InOrder, SlotsInOrder
<1>5. origin[id] \in Ports
  <2> HIDE DEF id
  <2> QED BY <1>1, <1>4 DEF Ids
<1> QED BY <1>3, <1>4, <1>5

\* A step changes at most one host queue.
LEMMA QueueUpdate ==
  ASSUME Typed, NEW q \in Queues, NEW h \in HostQueue, hq' = [hq EXCEPT ![q] = h]
  PROVE  /\ hq' \in [Queues -> HostQueue] /\ hq'[q] = h
         /\ \A o \in Queues : o # q => hq'[o] = hq[o]
  BY DEF Typed

\* A frame that the firmware finds room for.
LEMMA ReceiveIs ==
  ASSUME Typed, NEW p \in Ports, NEW q \in Queues, Receive(p, q), Succ(hq[q].wr) # hq[q].rd
  PROVE  /\ hq' \in [Queues -> HostQueue]
         /\ \A o \in Queues : o # q => hq'[o] = hq[o]
         /\ hq'[q].rd = hq[q].rd /\ hq'[q].wr = Succ(hq[q].wr)
         /\ hq'[q].overflow = hq[q].overflow
         /\ hq'[q].data = [hq[q].data EXCEPT ![hq[q].wr] = Len(origin) + 1]
         /\ \E l \in Lengths : hq'[q].len = [hq[q].len EXCEPT ![hq[q].wr] = l]
         /\ Lengths \subseteq Lens
         /\ origin' = Append(origin, p) /\ origin' \in Seq(Ports)
         /\ Len(origin') = Len(origin) + 1 /\ Len(origin) \in Nat
         /\ arrived' = [arrived EXCEPT ![q] = Append(@, Len(origin) + 1)]
         /\ arrived' \in [Queues -> Seq(Nat)]
<1> DEFINE wr == hq[q].wr
           id == Len(origin')
<1>1. /\ wr \in Slots /\ hq[q] \in HostQueue
      /\ hq[q].data \in [Slots -> Nat] /\ hq[q].len \in [Slots -> Lens]
  BY DEF Typed, HostQueue
<1>2. origin' = Append(origin, p)
  BY DEF Receive
<1>3. origin' \in Seq(Ports) /\ id = Len(origin) + 1 /\ Len(origin) \in Nat /\ id \in Nat
  BY <1>2 DEF Typed
<1>4. Lengths \subseteq Lens
  BY DEF Lengths, Lens
<1>5. PICK l \in Lengths :
        hq' = [hq EXCEPT ![q].len[wr] = l, ![q].data[wr] = id, ![q].wr = Succ(@)]
  BY DEF Receive
<1> DEFINE len == [hq[q].len EXCEPT ![wr] = l]
           data == [hq[q].data EXCEPT ![wr] = id]
           h == [hq[q] EXCEPT !.len = len, !.data = data, !.wr = Succ(wr)]
<1>6. len \in [Slots -> Lens] /\ data \in [Slots -> Nat] /\ Succ(wr) \in Slots
  <2> HIDE DEF wr, id
  <2> QED BY <1>1, <1>3, <1>4, SuccIs
<1>7. h \in HostQueue
  <2> HIDE DEF wr, len, data
  <2> QED BY <1>1, <1>6 DEF HostQueue
<1>8. hq' = [hq EXCEPT ![q] = h]
  <2> HIDE DEF id
  <2> QED BY <1>1, <1>5 DEF Typed
<1>9. /\ hq' \in [Queues -> HostQueue] /\ hq'[q] = h
      /\ \A o \in Queues : o # q => hq'[o] = hq[o]
  <2> HIDE DEF h
  <2> QED BY <1>7, <1>8, QueueUpdate
<1>10. arrived' = [arrived EXCEPT ![q] = Append(@, id)]
  BY DEF Receive
<1>11. arrived' \in [Queues -> Seq(Nat)]
  <2> HIDE DEF id
  <2> QED BY <1>3, <1>10 DEF Typed
<1>12. /\ h.rd = hq[q].rd /\ h.wr = Succ(wr) /\ h.overflow = hq[q].overflow
       /\ h.data = data /\ h.len = len
  <2> HIDE DEF wr, len, data
  <2> QED BY <1>1 DEF HostQueue
<1> HIDE DEF h
<1> QED BY <1>2, <1>3, <1>4, <1>9, <1>10, <1>11, <1>12
LEMMA CountIs ==
  ASSUME Typed, NEW q \in Queues, NEW n \in Nat, hq' = [hq EXCEPT ![q].overflow = n]
  PROVE  /\ hq' \in [Queues -> HostQueue] /\ hq'[q] = [hq[q] EXCEPT !.overflow = n]
         /\ \A o \in Queues : o # q => hq'[o] = hq[o]
<1> DEFINE h == [hq[q] EXCEPT !.overflow = n]
<1>1. hq[q] \in HostQueue
  BY DEF Typed
<1>2. h \in HostQueue
  BY <1>1 DEF HostQueue
<1>3. hq' = [hq EXCEPT ![q] = h]
  BY DEF Typed
<1> HIDE DEF h
<1>4. /\ hq' \in [Queues -> HostQueue] /\ hq'[q] = h
      /\ \A o \in Queues : o # q => hq'[o] = hq[o]
  BY <1>2, <1>3, QueueUpdate
<1> QED BY <1>4 DEF h
LEMMA ClearIs ==
  ASSUME Typed, NEW q \in Queues, NEW s \in Slots, hq' = [hq EXCEPT ![q].len[s] = "zero"]
  PROVE  /\ hq' \in [Queues -> HostQueue]
         /\ hq'[q] = [hq[q] EXCEPT !.len = [@ EXCEPT ![s] = "zero"]]
         /\ \A o \in Queues : o # q => hq'[o] = hq[o]
<1> DEFINE len == [hq[q].len EXCEPT ![s] = "zero"]
           h == [hq[q] EXCEPT !.len = len]
<1>1. hq[q] \in HostQueue /\ hq[q].len \in [Slots -> Lens]
  BY DEF Typed, HostQueue
<1>2. len \in [Slots -> Lens]
  BY <1>1 DEF Lens
<1>3. h \in HostQueue
  <2> HIDE DEF len
  <2> QED BY <1>1, <1>2 DEF HostQueue
<1>4. hq' = [hq EXCEPT ![q] = h]
  BY DEF Typed
<1>5. /\ hq' \in [Queues -> HostQueue] /\ hq'[q] = h
      /\ \A o \in Queues : o # q => hq'[o] = hq[o]
  <2> HIDE DEF h
  <2> QED BY <1>3, <1>4, QueueUpdate
<1> QED BY <1>5
LEMMA MoveIs ==
  ASSUME Typed, NEW q \in Queues, NEW u \in Slots, hq' = [hq EXCEPT ![q].rd = u]
  PROVE  /\ hq' \in [Queues -> HostQueue] /\ hq'[q] = [hq[q] EXCEPT !.rd = u]
         /\ \A o \in Queues : o # q => hq'[o] = hq[o]
<1> DEFINE h == [hq[q] EXCEPT !.rd = u]
<1>1. hq[q] \in HostQueue
  BY DEF Typed
<1>2. h \in HostQueue
  BY <1>1 DEF HostQueue
<1>3. hq' = [hq EXCEPT ![q] = h]
  BY DEF Typed
<1> HIDE DEF h
<1>4. /\ hq' \in [Queues -> HostQueue] /\ hq'[q] = h
      /\ \A o \in Queues : o # q => hq'[o] = hq[o]
  BY <1>2, <1>3, QueueUpdate
<1> QED BY <1>4 DEF h

\* What a port remembers is in its type, and so is the host queue it is at.
LEMMA PollTypes ==
  ASSUME Typed, NEW p \in Ports
  PROVE  /\ poll[p] \in PollState /\ poll[p].i \in Queues
         /\ poll[p].rd \in Slots /\ poll[p].wr \in Slots /\ poll[p].upd \in Slots
         /\ poll[p].emac \in Ports /\ poll[p].used \in Nat
         /\ hq[poll[p].i] \in HostQueue
         /\ hq[poll[p].i].rd \in Slots /\ hq[poll[p].i].wr \in Slots
  BY DEF Typed, PollState, HostQueue

\* A frame is delivered to a port, and numbered as it came in.
LEMMA PacketIs ==
  ASSUME FramesInv, NEW p \in Ports, Packet(p)
  PROVE  LET q == poll[p].i
             id == hq[q].data[hq[q].rd]
         IN  /\ poll[p].rd = hq[q].rd /\ hq[q].rd # hq[q].wr
             /\ id \in Ids /\ origin[id] \in Ports
             /\ poll[p].len = "good"
             /\ \E to \in Ports :
                  /\ Deliver(p, to)
                  /\ to = IF switch /\ origin[id] # p THEN origin[id] ELSE poll[p].emac
<1> DEFINE q == poll[p].i
           id == hq[q].data[hq[q].rd]
           to == IF switch /\ origin[id] # p THEN origin[id] ELSE poll[p].emac
<1>1. Typed /\ poll[p].pc = "packet"
  BY DEF FramesInv, Packet, At
<1>2. /\ poll[p].rd = hq[q].rd /\ poll[p].rd # poll[p].wr /\ poll[p].len = "good"
      /\ Gap(hq[q].rd, poll[p].wr) <= Gap(hq[q].rd, hq[q].wr)
  BY <1>1 DEF FramesInv, Snapshot, InHand
<1>3. hq[q].rd # hq[q].wr
  <2>1. /\ hq[q].rd \in Slots /\ hq[q].wr \in Slots /\ poll[p].wr \in Slots
    BY <1>1, PollTypes
  <2>2. Gap(hq[q].rd, poll[p].wr) > 0
    BY <2>1, <1>2, GapIs
  <2> QED BY <2>1, <2>2, <1>2, GapIs
<1>4. q \in Queues /\ poll[p].emac \in Ports
  BY <1>1, PollTypes
<1>5. id \in Ids /\ origin[id] \in Ports
  BY <1>3, <1>4, AtReadPointer
<1>6. to \in Ports
  BY <1>4, <1>5
<1>7. Deliver(p, to)
  BY <1>2 DEF Packet
<1> QED BY <1>2, <1>3, <1>5, <1>6, <1>7

\* Every step leaves every variable in its type.
LEMMA TypedStep ==
  ASSUME FramesInv, [Next]_vars
  PROVE  Typed'
<1>0. Typed
  BY DEF FramesInv
<1> USE DEF history, tally, napi
<1>1. ASSUME NEW p \in Ports, NEW q \in Queues, Receive(p, q) PROVE Typed'
  <2>1. CASE Succ(hq[q].wr) = hq[q].rd
    <3>1. /\ hq' = [hq EXCEPT ![q].overflow = hq[q].overflow + 1]
          /\ UNCHANGED <<arrived, origin>>
      BY <1>1, <2>1 DEF Receive
    <3>2. hq[q].overflow + 1 \in Nat
      BY <1>0 DEF Typed, HostQueue
    <3>3. hq' \in [Queues -> HostQueue]
      BY <1>0, <3>1, <3>2, CountIs
    <3> QED BY <1>0, <1>1, <3>1, <3>3 DEF Receive, Typed
  <2>2. CASE Succ(hq[q].wr) # hq[q].rd
    BY <1>0, <1>1, <2>2, ReceiveIs DEF Receive, Typed
  <2> QED BY <2>1, <2>2
<1>2. ASSUME NEW p \in Ports, RxIrq(p) PROVE Typed'
  BY <1>0, <1>2 DEF RxIrq, Typed
<1>3. ASSUME NEW p \in Ports, Poll(p) PROVE Typed'
  BY <1>0, <1>3, PollIs DEF Poll, Typed
<1>4. ASSUME NEW p \in Ports, ReadOverflow(p) PROVE Typed'
  BY <1>0, <1>4, ReadOverflowIs DEF ReadOverflow, Typed
<1>5. ASSUME NEW p \in Ports, ResetOverflow(p) PROVE Typed'
  <2>1. poll[p].i \in Queues /\ "pointers" \in Labels
    BY <1>0, PollTypes DEF Labels
  <2>2. hq' \in [Queues -> HostQueue]
    BY <1>0, <1>5, <2>1, CountIs DEF ResetOverflow
  <2>3. poll' \in [Ports -> PollState]
    BY <1>0, <1>5, <2>1, GotoIs DEF ResetOverflow
  <2> QED BY <1>0, <1>5, <2>2, <2>3 DEF ResetOverflow, Typed
<1>6. ASSUME NEW p \in Ports, ReadPointers(p) PROVE Typed'
  BY <1>0, <1>6, PollTypes, ProceedIs DEF ReadPointers, Typed
<1>7. ASSUME NEW p \in Ports, ReadDescriptor(p) PROVE Typed'
  BY <1>0, <1>7, ReadDescriptorIs DEF ReadDescriptor, Typed
<1>8. ASSUME NEW p \in Ports, Packet(p) PROVE Typed'
  <2> DEFINE q == poll[p].i
             id == hq[q].data[hq[q].rd]
  <2>1. PICK to \in Ports : Deliver(p, to)
    BY <1>8, PacketIs
  <2>2. poll' \in [Ports -> PollState]
    BY <1>0, <2>1, DeliverIs
  <2>3. poll[p].rd = hq[q].rd /\ id \in Ids
    BY <1>8, PacketIs
  <2>4. id \in Nat /\ q \in Queues
    BY <1>0, <2>3, PollTypes DEF Ids
  <2>5. delivered' = [delivered EXCEPT ![q] = Append(@, id)]
    BY <2>1, <2>3 DEF Deliver
  <2>6. delivered' \in [Queues -> Seq(Nat)]
    <3> HIDE DEF q, id
    <3> QED BY <1>0, <2>4, <2>5 DEF Typed
  <2> QED BY <1>0, <1>8, <2>2, <2>6 DEF Packet, Typed
<1>9. ASSUME NEW p \in Ports, PacketFails(p) PROVE Typed'
  BY <1>0, <1>9, GiveUpIs DEF PacketFails, Typed
<1>10. ASSUME NEW p \in Ports, ClearDescriptor(p) PROVE Typed'
  <2>1. poll[p].i \in Queues /\ poll[p].rd \in Slots /\ "move" \in Labels
    BY <1>0, PollTypes DEF Labels
  <2>2. hq' \in [Queues -> HostQueue]
    BY <1>0, <1>10, <2>1, ClearIs DEF ClearDescriptor
  <2>3. poll' \in [Ports -> PollState]
    BY <1>0, <1>10, <2>1, GotoIs DEF ClearDescriptor
  <2> QED BY <1>0, <1>10, <2>2, <2>3 DEF ClearDescriptor, Typed
<1>11. ASSUME NEW p \in Ports, MovePointer(p) PROVE Typed'
  <2>1. /\ poll[p].i \in Queues /\ poll[p].upd \in Slots /\ poll[p].wr \in Slots
        /\ "return" \in Labels
    BY <1>0, PollTypes DEF Labels
  <2>2. hq' \in [Queues -> HostQueue]
    BY <1>0, <1>11, <2>1, MoveIs DEF MovePointer
  <2>3. poll' \in [Ports -> PollState]
    BY <1>0, <1>11, <2>1, GotoIs, ProceedIs DEF MovePointer
  <2> QED BY <1>0, <1>11, <2>2, <2>3 DEF MovePointer, Typed
<1>12. ASSUME NEW p \in Ports, Return(p) PROVE Typed'
  <2>1. poll' \in [Ports -> PollState]
    BY <1>0, <1>12, GotoIs DEF Return, Labels
  <2> QED BY <1>0, <1>12, <2>1 DEF Return, Typed
<1>13. ASSUME NEW p \in Ports, Unmask(p) PROVE Typed'
  <2>1. poll' \in [Ports -> PollState]
    BY <1>0, <1>13, GotoIs DEF Unmask, Labels
  <2> QED BY <1>0, <1>13, <2>1 DEF Unmask, Typed
<1>14. CASE UNCHANGED vars
  BY <1>0, <1>14 DEF vars, Typed
<1> QED
  <2> USE DEF Next, Step
  <2> QED BY <1>1, <1>2, <1>3, <1>4, <1>5, <1>6, <1>7, <1>8, <1>9, <1>10, <1>11, <1>12,
             <1>13, <1>14

(* --------------------------- effects of a step ------------------------- *)

\* On one CPU every other port is idle while port p polls, and it stays idle.
Alone(p) == Others(p) /\ \A o \in Ports : o # p => poll[o].pc = "idle"

\* What is given of the frames in a host queue is then a matter of port p.
LEMMA GivenIs ==
  ASSUME NEW p \in Ports, Alone(p), NEW q \in Queues, NEW s \in Slots
  PROVE  /\ Given(q, s) <=>
              /\ poll[p].pc \in {"clear", "move"} /\ poll[p].len = "good"
              /\ poll[p].i = q /\ poll[p].rd = s
         /\ Given(q, s)' <=>
              /\ poll'[p].pc \in {"clear", "move"} /\ poll'[p].len = "good"
              /\ poll'[p].i = q /\ poll'[p].rd = s
  BY DEF Alone, Others, Given

\* Every step of a port but the one that handles a frame leaves the frames
\* alone, and does not come between their delivery and the read pointer.
FramesKept ==
  /\ \A q \in Queues : /\ hq'[q].rd = hq[q].rd /\ hq'[q].wr = hq[q].wr
                       /\ hq'[q].len = hq[q].len /\ hq'[q].data = hq[q].data
  /\ UNCHANGED <<switch, origin, arrived, delivered, discarded>>
Looks(p) ==
  /\ Alone(p)
  /\ poll[p].pc \notin {"clear", "move"}
  /\ poll'[p].pc \notin {"packet", "clear", "move"}
  /\ poll'[p].pc = "descriptor" =>
       LET h == hq[poll'[p].i]
       IN  poll'[p].rd = h.rd /\ poll'[p].wr = h.wr /\ h.rd # h.wr
Quiet == FramesKept /\ (poll' = poll \/ \E p \in Ports : Looks(p))

\* The steps that handle a frame.
Handles(p) == ReadDescriptor(p) \/ Packet(p) \/ ClearDescriptor(p) \/ MovePointer(p)
Adds(p, q) == Receive(p, q) /\ Succ(hq[q].wr) # hq[q].rd

LEMMA Effects ==
  ASSUME ~Smp, FramesInv, [Next]_vars
  PROVE  \/ Quiet
         \/ \E p \in Ports, q \in Queues : Adds(p, q)
         \/ \E p \in Ports : Alone(p) /\ Handles(p)
<1>0. Typed
  BY DEF FramesInv
<1>1. ASSUME NEW p \in Ports, poll[p].pc # "idle", Others(p) PROVE Alone(p)
  BY <1>1 DEF FramesInv, PollAlone, Alone
<1> USE DEF history, tally, napi
<1>2. ASSUME NEW p \in Ports, NEW q \in Queues, Receive(p, q), Succ(hq[q].wr) = hq[q].rd
      PROVE Quiet
  <2>1. /\ hq' = [hq EXCEPT ![q].overflow = hq[q].overflow + 1]
        /\ UNCHANGED <<arrived, origin>>
    BY <1>2 DEF Receive
  <2>2. hq[q].overflow + 1 \in Nat
    BY <1>0 DEF Typed, HostQueue
  <2>3. /\ hq'[q] = [hq[q] EXCEPT !.overflow = hq[q].overflow + 1]
        /\ \A o \in Queues : o # q => hq'[o] = hq[o]
    BY <1>0, <2>1, <2>2, CountIs
  <2>4. FramesKept
    <3>1. hq[q] \in HostQueue
      BY <1>0 DEF Typed
    <3> QED BY <1>2, <2>1, <2>3, <3>1 DEF FramesKept, Receive, HostQueue
  <2> QED BY <1>2, <2>4 DEF Quiet, Receive
<1>3. ASSUME NEW p \in Ports, RxIrq(p) PROVE Quiet
  BY <1>3 DEF RxIrq, Quiet, FramesKept
<1>4. ASSUME NEW p \in Ports, Poll(p) PROVE Quiet
  <2>1. Alone(p)
    BY <1>0, <1>4, PollIs DEF Poll, Alone, At
  <2>2. poll'[p].pc = "overflow" /\ poll[p].pc = "idle"
    BY <1>0, <1>4, PollIs, PollTypes DEF Poll, At, PollState
  <2> QED BY <1>4, <2>1, <2>2 DEF Poll, Quiet, Looks, FramesKept
<1>5. ASSUME NEW p \in Ports, ReadOverflow(p) PROVE Quiet
  <2>1. Alone(p) /\ poll[p].pc = "overflow" /\ poll'[p].pc \in {"reset", "pointers"}
    BY <1>0, <1>1, <1>5, ReadOverflowIs DEF ReadOverflow, At
  <2> QED BY <1>5, <2>1 DEF ReadOverflow, Quiet, Looks, FramesKept
<1>6. ASSUME NEW p \in Ports, ResetOverflow(p) PROVE Quiet
  <2>1. poll[p].i \in Queues /\ "pointers" \in Labels /\ poll[p] \in PollState
    BY <1>0, PollTypes DEF Labels
  <2>2. Others(p) /\ poll'[p].pc = "pointers" /\ poll[p].pc = "reset"
    BY <1>0, <1>6, <2>1, GotoIs DEF ResetOverflow, At
  <2>3. Alone(p)
    BY <1>1, <2>2
  <2>4. /\ hq'[poll[p].i] = [hq[poll[p].i] EXCEPT !.overflow = 0]
        /\ \A o \in Queues : o # poll[p].i => hq'[o] = hq[o]
    BY <1>0, <1>6, <2>1, CountIs DEF ResetOverflow
  <2>5. FramesKept
    <3>1. hq[poll[p].i] \in HostQueue
      BY <1>0, PollTypes
    <3> QED BY <1>6, <2>4, <3>1 DEF FramesKept, ResetOverflow, HostQueue
  <2> QED BY <2>2, <2>3, <2>5 DEF Quiet, Looks
<1>7. ASSUME NEW p \in Ports, ReadPointers(p) PROVE Quiet
  <2>1. Others(p) /\ poll[p].pc = "pointers"
    BY <1>0, <1>7, PollTypes, ProceedIs DEF ReadPointers, At
  <2>2. Alone(p)
    BY <1>1, <2>1
  <2>3. /\ poll'[p].pc \in {"descriptor", "overflow", "return"}
        /\ poll'[p].pc = "descriptor" =>
             LET h == hq[poll'[p].i]
             IN  poll'[p].rd = h.rd /\ poll'[p].wr = h.wr /\ h.rd # h.wr
    BY <1>0, <1>7, PollTypes, ProceedIs DEF ReadPointers
  <2> QED BY <1>7, <2>1, <2>2, <2>3 DEF ReadPointers, Quiet, Looks, FramesKept
<1>8. ASSUME NEW p \in Ports, Handles(p) PROVE Alone(p)
  <2>1. poll[p].pc # "idle"
    BY <1>8 DEF Handles, ReadDescriptor, Packet, ClearDescriptor, MovePointer, At
  <2>2. CASE ReadDescriptor(p)
    BY <1>0, <1>1, <2>1, <2>2, ReadDescriptorIs
  <2>3. CASE Packet(p)
    BY <1>0, <1>1, <2>1, <2>3, PacketIs, DeliverIs
  <2>4. CASE ClearDescriptor(p)
    BY <1>0, <1>1, <2>1, <2>4, GotoIs DEF ClearDescriptor, Labels
  <2>5. CASE MovePointer(p)
    BY <1>0, <1>1, <2>1, <2>5, GotoIs, ProceedIs, PollTypes DEF MovePointer, Labels
  <2> QED BY <1>8, <2>2, <2>3, <2>4, <2>5 DEF Handles
<1>9. ASSUME NEW p \in Ports, PacketFails(p) PROVE Quiet
  <2>1. Others(p) /\ poll[p].pc = "packet" /\ poll'[p].pc = "return"
    BY <1>0, <1>9, GiveUpIs, PollTypes DEF PacketFails, GiveUp, At, PollState
  <2>2. Alone(p)
    BY <1>1, <2>1
  <2> QED BY <1>9, <2>1, <2>2 DEF PacketFails, Quiet, Looks, FramesKept
<1>10. ASSUME NEW p \in Ports, Return(p) PROVE Quiet
  <2>1. /\ Others(p) /\ poll[p].pc = "return"
        /\ poll'[p].pc \in {"idle", "unmask"}
    <3>1. poll[p].pc = "return" /\ (Goto(p, "idle") \/ Goto(p, "unmask"))
      BY <1>10 DEF Return, At
    <3>2. "idle" \in Labels /\ "unmask" \in Labels
      BY DEF Labels
    <3> QED BY <1>0, <3>1, <3>2, GotoIs
  <2>2. Alone(p)
    BY <1>1, <2>1
  <2> QED BY <1>10, <2>1, <2>2 DEF Return, Quiet, Looks, FramesKept
<1>11. ASSUME NEW p \in Ports, Unmask(p) PROVE Quiet
  <2>1. Others(p) /\ poll[p].pc = "unmask" /\ poll'[p].pc = "idle"
    BY <1>0, <1>11, GotoIs DEF Unmask, At, Labels
  <2>2. Alone(p)
    BY <1>1, <2>1
  <2> QED BY <1>11, <2>1, <2>2 DEF Unmask, Quiet, Looks, FramesKept
<1>12. CASE UNCHANGED vars
  BY <1>12 DEF vars, Quiet, FramesKept
<1> QED
  <2>1. ASSUME NEW p \in Ports, NEW q \in Queues, Receive(p, q)
        PROVE  Quiet \/ Adds(p, q)
    BY <2>1, <1>2 DEF Adds
  <2> USE DEF Next, Step, Handles
  <2> QED BY <2>1, <1>3, <1>4, <1>5, <1>6, <1>7, <1>8, <1>9, <1>10, <1>11, <1>12

\* One port polls at a time, after every step.
LEMMA PollAloneStep ==
  ASSUME ~Smp, FramesInv, [Next]_vars
  PROVE  PollAlone'
<1>1. ASSUME NEW p \in Ports, Alone(p) PROVE PollAlone'
  BY <1>1 DEF Alone, Others, PollAlone
<1>2. CASE poll' = poll
  BY <1>2 DEF FramesInv, PollAlone
<1> QED BY <1>1, <1>2, Effects DEF Quiet, Looks, Adds, Receive

\* The host queue that a port handles, and where its read pointer goes.
LEMMA InHandIs ==
  ASSUME FramesInv, NEW p \in Ports, InHand(p)
  PROVE  LET c == poll[p]
             h == hq[c.i]
         IN  /\ c.i \in Queues /\ h \in HostQueue
             /\ h.rd \in Slots /\ h.wr \in Slots /\ c.wr \in Slots
             /\ c.rd = h.rd /\ c.rd # c.wr /\ h.rd # h.wr
             /\ h.rd \in Held(c.i)
             /\ Gap(h.rd, c.wr) <= Gap(h.rd, h.wr)
             /\ c.pc \in {"clear", "move"} =>
                  /\ c.upd \in Slots /\ c.upd # h.rd
                  /\ Gap(h.rd, c.upd) <= Gap(h.rd, c.wr)
                  /\ Gap(h.rd, c.upd) <= Gap(h.rd, h.wr)
<1> DEFINE c == poll[p]
           h == hq[c.i]
<1>1. /\ c.i \in Queues /\ h \in HostQueue
      /\ h.rd \in Slots /\ h.wr \in Slots /\ c.wr \in Slots /\ c.upd \in Slots
  BY PollTypes DEF FramesInv
<1>2. /\ c.rd = h.rd /\ c.rd # c.wr
      /\ Gap(h.rd, c.wr) <= Gap(h.rd, h.wr)
      /\ c.pc \in {"clear", "move"} => c.upd = IF c.len = "good" THEN Succ(c.rd) ELSE c.wr
  BY DEF FramesInv, Snapshot
<1> HIDE DEF c, h
<1>3. Gap(h.rd, c.wr) \in Nat /\ Gap(h.rd, c.wr) # 0 /\ Gap(h.rd, h.wr) \in Nat
  BY <1>1, <1>2, GapIs
<1>4. h.rd # h.wr
  <2>1. Gap(h.rd, h.wr) # 0
    BY <1>2, <1>3
  <2> QED BY <2>1, <1>1, GapIs
<1>5. Succ(h.rd) # h.rd /\ Gap(h.rd, Succ(h.rd)) = 1
  BY <1>1, SuccIs, RxAssumption DEF Gap, Slots
<1>6. ASSUME c.pc \in {"clear", "move"}
      PROVE  c.upd # h.rd /\ Gap(h.rd, c.upd) <= Gap(h.rd, c.wr)
  <2>1. c.upd = Succ(h.rd) \/ c.upd = c.wr
    BY <1>2, <1>6
  <2> QED BY <2>1, <1>2, <1>3, <1>5
<1>7. Gap(h.rd, c.upd) \in Nat
  BY <1>1, GapIs
<1>8. h.rd \in Held(c.i)
  BY <1>1, <1>4, AtReadPointer DEF h
<1> QED BY <1>1, <1>2, <1>3, <1>4, <1>6, <1>7, <1>8 DEF c, h

\* Clearing a descriptor and handing a frame to the stack move no pointer.
LEMMA PointersKept ==
  ASSUME FramesInv, NEW p \in Ports, ReadDescriptor(p) \/ Packet(p) \/ ClearDescriptor(p)
  PROVE  \A q \in Queues : /\ hq'[q].rd = hq[q].rd /\ hq'[q].wr = hq[q].wr
                           /\ hq'[q].data = hq[q].data
<1>1. Typed /\ poll[p].i \in Queues /\ poll[p].rd \in Slots /\ hq[poll[p].i] \in HostQueue
  BY PollTypes DEF FramesInv
<1>2. CASE ClearDescriptor(p)
  <2>1. /\ hq'[poll[p].i] = [hq[poll[p].i] EXCEPT !.len = [@ EXCEPT ![poll[p].rd] = "zero"]]
        /\ \A o \in Queues : o # poll[p].i => hq'[o] = hq[o]
    BY <1>1, <1>2, ClearIs DEF ClearDescriptor
  <2> QED BY <1>1, <2>1 DEF HostQueue
<1> QED BY <1>2 DEF ReadDescriptor, Packet

\* A frame that is added takes the slot at the write pointer, and the slots
\* that the read pointer passes over are all that are given up.
LEMMA HeldGrows ==
  ASSUME FramesInv, NEW p \in Ports, NEW q \in Queues, Adds(p, q),
         NEW x \in Queues, NEW s \in Held(x)'
  PROVE  s \in Held(x) \/ (x = q /\ s = hq[q].wr)
<1>1. /\ \A o \in Queues : o # q => hq'[o] = hq[o]
      /\ hq'[q].rd = hq[q].rd /\ hq'[q].wr = Succ(hq[q].wr)
  BY ReceiveIs DEF Adds, FramesInv
<1>2. CASE x # q
  BY <1>1, <1>2 DEF Held
<1>3. CASE x = q
  <2>1. hq[q].rd \in Slots /\ hq[q].wr \in Slots
    BY DEF FramesInv, Typed, HostQueue
  <2>2. Gap(hq[q].rd, Succ(hq[q].wr)) = Gap(hq[q].rd, hq[q].wr) + 1
    BY <2>1, GapSucc DEF Adds
  <2>3. s \in Slots /\ Gap(hq[q].rd, s) < Gap(hq[q].rd, hq[q].wr) + 1
    BY <1>1, <1>3, <2>2 DEF Held
  <2>4. Gap(hq[q].rd, s) = Gap(hq[q].rd, hq[q].wr) => s = hq[q].wr
    BY <2>1, <2>3, GapInjective
  <2>5. Gap(hq[q].rd, s) \in Nat /\ Gap(hq[q].rd, hq[q].wr) \in Nat
    BY <2>1, <2>3, GapIs
  <2> QED BY <1>3, <2>3, <2>4, <2>5 DEF Held
<1> QED BY <1>2, <1>3
LEMMA HeldShrinks ==
  ASSUME FramesInv, NEW p \in Ports, MovePointer(p), NEW q \in Queues, NEW s \in Held(q)'
  PROVE  s \in Held(q) /\ (q = poll[p].i => s # hq[q].rd)
<1> DEFINE u == poll[p].upd
           rd == hq[q].rd
           wr == hq[q].wr
<1>1. InHand(p)
  BY DEF MovePointer, At, InHand
<1>2. /\ hq'[poll[p].i] = [hq[poll[p].i] EXCEPT !.rd = u]
      /\ hq[poll[p].i] \in HostQueue
      /\ \A o \in Queues : o # poll[p].i => hq'[o] = hq[o]
  BY PollTypes, MoveIs DEF MovePointer, FramesInv
<1>3. CASE q # poll[p].i
  BY <1>2, <1>3 DEF Held
<1>4. CASE q = poll[p].i
  <2>1. /\ rd \in Slots /\ wr \in Slots /\ u \in Slots /\ u # rd
        /\ Gap(rd, u) <= Gap(rd, wr)
    BY <1>1, <1>4, InHandIs DEF MovePointer, At
  <2>2. hq'[q].rd = u /\ hq'[q].wr = wr
    BY <1>2, <1>4 DEF HostQueue
  <2>3. s \in Slots /\ Gap(u, s) < Gap(u, wr)
    BY <2>2 DEF Held
  <2> HIDE DEF u, rd, wr
  <2>4. Gap(u, wr) = Gap(rd, wr) - Gap(rd, u)
    BY <2>1, GapShift
  <2>5. /\ Gap(rd, wr) \in 0 .. RingSize - 1 /\ Gap(rd, u) \in Nat
        /\ Gap(rd, u) # 0 /\ Gap(rd, s) \in Nat
    BY <2>1, <2>3, GapIs
  <2>6. Gap(rd, u) <= Gap(rd, s)
    <3>1. SUFFICES ASSUME Gap(rd, s) < Gap(rd, u) PROVE FALSE
      BY <2>5
    <3>2. Gap(u, s) = RingSize - (Gap(rd, u) - Gap(rd, s))
      BY <2>1, <2>3, <3>1, GapWraps
    <3> QED BY <2>3, <2>4, <2>5, <3>2, Constants
  <2>7. Gap(u, s) = Gap(rd, s) - Gap(rd, u)
    BY <2>1, <2>3, <2>6, GapShift
  <2>8. Gap(rd, s) < Gap(rd, wr) /\ Gap(rd, s) # 0
    BY <2>3, <2>4, <2>5, <2>6, <2>7
  <2>9. s # rd
    BY <2>1, <2>8, GapIs
  <2> QED BY <2>3, <2>8, <2>9 DEF Held, rd, wr
<1> QED BY <1>3, <1>4

\* After every step, what a port remembers of its host queue is right.
LEMMA SnapshotStep ==
  ASSUME ~Smp, FramesInv, [Next]_vars
  PROVE  Snapshot'
<1>0. Typed /\ Typed' /\ Snapshot
  BY TypedStep DEF FramesInv
<1> DEFINE Right(p) ==
      InHand(p) =>
        LET c == poll[p]
            h == hq[c.i]
        IN  /\ c.rd = h.rd
            /\ c.rd # c.wr
            /\ Gap(h.rd, c.wr) <= Gap(h.rd, h.wr)
            /\ c.pc = "packet" => c.len = "good"
            /\ c.pc \in {"clear", "move"} =>
                 c.upd = IF c.len = "good" THEN Succ(c.rd) ELSE c.wr
<1>a. Snapshot' <=> \A p \in Ports : Right(p)'
  BY DEF Snapshot
<1>1. ASSUME NEW p \in Ports, Alone(p), Right(p)' PROVE Snapshot'
  <2>1. \A o \in Ports : o # p => ~InHand(o)'
    BY <1>1 DEF Alone, Others, InHand
  <2> QED BY <1>1, <2>1, <1>a
<1>2. CASE Quiet
  <2>1. ASSUME poll' = poll PROVE Snapshot'
    <3>1. ASSUME NEW p \in Ports PROVE Right(p)'
      <4>1. poll[p].i \in Queues
        BY <1>0, PollTypes
      <4> QED BY <1>0, <1>2, <2>1, <4>1 DEF Quiet, FramesKept, Snapshot, InHand
    <3> QED BY <3>1, <1>a
  <2>2. ASSUME NEW p \in Ports, Looks(p) PROVE Right(p)'
    <3>1. poll'[p].i \in Queues
      BY <1>0 DEF Typed, PollState
    <3>2. ASSUME InHand(p)' PROVE poll'[p].pc = "descriptor"
      BY <2>2, <3>2 DEF Looks, InHand
    <3>3. /\ hq'[poll'[p].i].rd = hq[poll'[p].i].rd
          /\ hq'[poll'[p].i].wr = hq[poll'[p].i].wr
          /\ hq[poll'[p].i].rd \in Slots /\ hq[poll'[p].i].wr \in Slots
      BY <1>0, <1>2, <3>1 DEF Quiet, FramesKept, Typed, HostQueue
    <3>4. Gap(hq[poll'[p].i].rd, hq[poll'[p].i].wr) \in Nat
      BY <3>3, GapIs
    <3> QED BY <2>2, <3>2, <3>3, <3>4 DEF Looks
  <2> QED BY <1>1, <1>2, <2>1, <2>2 DEF Quiet, Looks
<1>3. ASSUME NEW p \in Ports, NEW q \in Queues, Adds(p, q) PROVE Snapshot'
  <2>1. poll' = poll
    BY <1>3 DEF Adds, Receive
  <2>2. /\ \A o \in Queues : o # q => hq'[o] = hq[o]
        /\ hq'[q].rd = hq[q].rd /\ hq'[q].wr = Succ(hq[q].wr)
    BY <1>0, <1>3, ReceiveIs DEF Adds
  <2>3. ASSUME NEW o \in Ports PROVE Right(o)'
    <3>1. poll[o].i \in Queues /\ poll[o].wr \in Slots
      BY <1>0, PollTypes
    <3>2. CASE poll[o].i = q
      <4>1. hq[q].rd \in Slots /\ hq[q].wr \in Slots
        BY <1>0 DEF Typed, HostQueue
      <4>2. Gap(hq[q].rd, Succ(hq[q].wr)) = Gap(hq[q].rd, hq[q].wr) + 1
        BY <1>3, <4>1, GapSucc DEF Adds
      <4>3. Gap(hq[q].rd, hq[q].wr) \in Nat /\ Gap(hq[q].rd, poll[o].wr) \in Nat
        BY <3>1, <4>1, GapIs
      <4> QED BY <1>0, <2>1, <2>2, <3>2, <4>2, <4>3 DEF Snapshot, InHand
    <3>3. CASE poll[o].i # q
      BY <1>0, <2>1, <2>2, <3>1, <3>3 DEF Snapshot, InHand
    <3> QED BY <3>2, <3>3
  <2> QED BY <2>3, <1>a
<1>4. ASSUME NEW p \in Ports, Alone(p), Handles(p) PROVE Right(p)'
  <2> DEFINE c == poll[p]
             h == hq[c.i]
  <2>1. /\ c.i \in Queues /\ h.rd \in Slots /\ h.wr \in Slots /\ c.wr \in Slots
        /\ c \in PollState
    BY <1>0, PollTypes
  <2>2. InHand(p)
    BY <1>4 DEF Handles, ReadDescriptor, Packet, ClearDescriptor, MovePointer, At, InHand
  <2>3. /\ c.rd = h.rd /\ c.rd # c.wr
        /\ Gap(h.rd, c.wr) <= Gap(h.rd, h.wr)
    BY <2>2, InHandIs
  <2>4. CASE ReadDescriptor(p)
    <3>1. /\ poll'[p].i = c.i /\ poll'[p].rd = c.rd /\ poll'[p].wr = c.wr
          /\ \/ poll'[p].pc = "packet" /\ poll'[p].len = "good"
             \/ poll'[p].pc = "clear" /\ poll'[p].len # "good" /\ poll'[p].upd = c.wr
      BY <1>0, <2>4, ReadDescriptorIs
    <3> QED BY <2>1, <2>3, <2>4, <3>1, PointersKept
  <2>5. CASE Packet(p)
    <3>1. PICK to \in Ports : Deliver(p, to)
      BY <2>5, PacketIs
    <3>2. /\ poll'[p].i = c.i /\ poll'[p].rd = c.rd /\ poll'[p].wr = c.wr
          /\ poll'[p].pc = "clear" /\ poll'[p].len = c.len /\ poll'[p].upd = Succ(c.rd)
      BY <1>0, <3>1, DeliverIs
    <3>3. c.len = "good"
      BY <2>5, PacketIs
    <3> QED BY <2>1, <2>3, <2>5, <3>2, <3>3, PointersKept
  <2>6. CASE ClearDescriptor(p)
    <3>1. poll'[p] = [c EXCEPT !.pc = "move"] /\ c.pc = "clear"
      BY <1>0, <2>6, GotoIs DEF ClearDescriptor, Labels, At
    <3>2. c.upd = IF c.len = "good" THEN Succ(c.rd) ELSE c.wr
      BY <1>0, <2>2, <3>1 DEF Snapshot
    <3>3. /\ poll'[p].i = c.i /\ poll'[p].rd = c.rd /\ poll'[p].wr = c.wr
          /\ poll'[p].pc = "move" /\ poll'[p].len = c.len /\ poll'[p].upd = c.upd
      BY <2>1, <3>1 DEF PollState
    <3> QED BY <2>1, <2>3, <2>6, <3>2, <3>3, PointersKept
  <2>7. CASE MovePointer(p)
    <3>1. /\ c.upd \in Slots /\ c.upd # h.rd /\ Gap(h.rd, c.upd) <= Gap(h.rd, c.wr)
          /\ Gap(h.rd, c.upd) <= Gap(h.rd, h.wr)
      BY <2>2, <2>7, InHandIs DEF MovePointer, At
    <3>2. hq'[c.i] = [h EXCEPT !.rd = c.upd] /\ h \in HostQueue
      BY <1>0, <2>1, <2>7, <3>1, MoveIs, PollTypes DEF MovePointer
    <3>3. hq'[c.i].rd = c.upd /\ hq'[c.i].wr = h.wr
      BY <3>2 DEF HostQueue
    <3>4. CASE c.used >= Quota
      <4>1. poll'[p].pc = "return"
        BY <1>0, <2>7, <3>4, GotoIs DEF MovePointer, Labels
      <4> QED BY <4>1 DEF InHand
    <3>5. CASE ~(c.used >= Quota)
      <4>1. Proceed(p, c.upd, c.wr)
        BY <2>7, <3>5 DEF MovePointer
      <4>2. /\ poll'[p].rd = c.upd /\ poll'[p].wr = c.wr
            /\ \/ poll'[p].pc = "descriptor" /\ poll'[p].i = c.i /\ c.upd # c.wr
               \/ poll'[p].pc \in {"overflow", "return"}
        BY <1>0, <2>1, <3>1, <4>1, ProceedIs
      <4>3. /\ Gap(c.upd, c.wr) = Gap(h.rd, c.wr) - Gap(h.rd, c.upd)
            /\ Gap(c.upd, h.wr) = Gap(h.rd, h.wr) - Gap(h.rd, c.upd)
        BY <2>1, <3>1, GapShift
      <4>4. Gap(h.rd, c.wr) \in Nat /\ Gap(h.rd, c.upd) \in Nat /\ Gap(h.rd, h.wr) \in Nat
        BY <2>1, <3>1, GapIs
      <4>5. Gap(c.upd, c.wr) <= Gap(c.upd, h.wr)
        BY <2>3, <4>3, <4>4
      <4> QED BY <3>3, <4>2, <4>5 DEF InHand
    <3> QED BY <3>4, <3>5
  <2> QED BY <1>4, <2>4, <2>5, <2>6, <2>7 DEF Handles
<1> QED BY <1>1, <1>2, <1>3, <1>4, Effects

\* After every step, the frames of every host queue are delivered once, in
\* order, and none is lost.
LEMMA InOrderStep ==
  ASSUME ~Smp, FramesInv, [Next]_vars, NEW q \in Queues
  PROVE  InOrder(q)'
<1>0. Typed /\ Typed' /\ InOrder(q) /\ Len(origin) \in Nat
  BY TypedStep DEF FramesInv, Typed
<1>1. CASE Quiet
  <2>1. ASSUME NEW s \in Slots PROVE Given(q, s)' <=> Given(q, s)
    <3>1. CASE poll' = poll
      BY <3>1 DEF Given
    <3>2. ASSUME NEW p \in Ports, Looks(p) PROVE Given(q, s)' <=> Given(q, s)
      BY <3>2, GivenIs DEF Looks
    <3> QED BY <1>1, <3>1, <3>2 DEF Quiet
  <2>2. /\ hq'[q].rd = hq[q].rd /\ hq'[q].wr = hq[q].wr /\ hq'[q].data = hq[q].data
        /\ UNCHANGED <<origin, arrived, delivered, discarded>>
    BY <1>1 DEF Quiet, FramesKept
  <2> QED BY <1>0, <2>1, <2>2, QueueKept
<1>2. ASSUME NEW p \in Ports, NEW o \in Queues, Adds(p, o) PROVE InOrder(q)'
  <2>1. UNCHANGED <<poll, delivered, discarded>>
    BY <1>2 DEF Adds, Receive
  <2>2. \A s \in Slots : Given(q, s)' <=> Given(q, s)
    BY <2>1 DEF Given
  <2>3. /\ arrived' = [arrived EXCEPT ![o] = Append(@, Len(origin) + 1)]
        /\ Len(origin') = Len(origin) + 1
        /\ \A x \in Queues : x # o => hq'[x] = hq[x]
        /\ hq'[o].rd = hq[o].rd /\ hq'[o].wr = Succ(hq[o].wr)
        /\ hq'[o].data = [hq[o].data EXCEPT ![hq[o].wr] = Len(origin) + 1]
    BY <1>0, <1>2, ReceiveIs DEF Adds
  <2>4. CASE q = o
    <3>1. arrived'[q] = Append(arrived[q], Len(origin) + 1)
      BY <1>0, <2>3, <2>4 DEF Typed
    <3>2. ASSUME NEW s \in Slots, Given(q, s) PROVE s # hq[q].wr
      <4>1. PICK x \in Ports : InHand(x) /\ poll[x].i = q /\ poll[x].rd = s
        BY <3>2 DEF Given, InHand
      <4> QED BY <4>1, InHandIs
    <3> QED BY <1>0, <1>2, <2>1, <2>2, <2>3, <2>4, <3>1, <3>2, QueueReceives DEF Adds
  <2>5. CASE q # o
    <3>1. arrived'[q] = arrived[q] /\ hq'[q] = hq[q]
      BY <1>0, <2>3, <2>5 DEF Typed
    <3>2. Len(origin) <= Len(origin')
      BY <1>0, <2>3
    <3> QED BY <1>0, <2>1, <2>2, <3>1, <3>2, QueueKept
  <2> QED BY <2>4, <2>5
<1>3. ASSUME NEW p \in Ports, Alone(p), Handles(p) PROVE InOrder(q)'
  <2> DEFINE c == poll[p]
             h == hq[c.i]
  <2>1. /\ c.i \in Queues /\ h.rd \in Slots /\ h.wr \in Slots /\ c.wr \in Slots
        /\ c \in PollState
    BY <1>0, PollTypes
  <2>2. InHand(p)
    BY <1>3 DEF Handles, ReadDescriptor, Packet, ClearDescriptor, MovePointer, At, InHand
  <2>3. c.rd = h.rd /\ h.rd # h.wr
    BY <2>2, InHandIs
  <2>4. CASE ReadDescriptor(p)
    <3>1. UNCHANGED <<hq, origin, arrived, delivered, discarded>>
      BY <2>4 DEF ReadDescriptor, history, tally
    <3>2. c.pc = "descriptor"
      BY <2>4 DEF ReadDescriptor, At
    <3>3. poll'[p].pc = "packet" \/ (poll'[p].pc = "clear" /\ poll'[p].len # "good")
      BY <1>0, <2>4, ReadDescriptorIs
    <3>4. \A s \in Slots : Given(q, s)' <=> Given(q, s)
      BY <1>3, <3>2, <3>3, GivenIs
    <3> QED BY <1>0, <3>1, <3>4, QueueKept
  <2>5. CASE Packet(p)
    <3>1. PICK to \in Ports : Deliver(p, to)
      BY <2>5, PacketIs
    <3>2. /\ poll'[p].i = c.i /\ poll'[p].rd = c.rd
          /\ poll'[p].pc = "clear" /\ poll'[p].len = c.len
      BY <1>0, <3>1, DeliverIs
    <3>3. c.len = "good" /\ c.pc = "packet"
      BY <2>5, PacketIs DEF Packet, At
    <3>4. /\ delivered' = [delivered EXCEPT ![c.i] = Append(@, h.data[h.rd])]
          /\ UNCHANGED <<hq, origin, arrived, discarded>>
      BY <2>3, <2>5, <3>1 DEF Packet, Deliver
    <3>5. ASSUME NEW s \in Slots
          PROVE ~Given(q, s) /\ (Given(q, s)' <=> q = c.i /\ s = h.rd)
      BY <1>3, <2>3, <3>2, <3>3, GivenIs
    <3>6. CASE q = c.i
      <4>1. delivered'[q] = Append(delivered[q], hq[q].data[hq[q].rd])
        BY <1>0, <3>4, <3>6 DEF Typed
      <4> QED BY <1>0, <2>3, <3>4, <3>5, <3>6, <4>1, QueueDelivers
    <3>7. CASE q # c.i
      <4>1. delivered'[q] = delivered[q]
        BY <1>0, <3>4, <3>7 DEF Typed
      <4>2. \A s \in Slots : Given(q, s)' <=> Given(q, s)
        BY <3>5, <3>7
      <4> QED BY <1>0, <3>4, <4>1, <4>2, QueueKept
    <3> QED BY <3>6, <3>7
  <2>6. CASE ClearDescriptor(p)
    <3>1. UNCHANGED <<origin, arrived, delivered, discarded>>
      BY <2>6 DEF ClearDescriptor, history, tally
    <3>2. poll'[p] = [c EXCEPT !.pc = "move"] /\ c.pc = "clear"
      BY <1>0, <2>6, GotoIs DEF ClearDescriptor, Labels, At
    <3>3. /\ poll'[p].i = c.i /\ poll'[p].rd = c.rd
          /\ poll'[p].pc = "move" /\ poll'[p].len = c.len /\ c.pc = "clear"
      BY <2>1, <3>2 DEF PollState
    <3>4. ASSUME NEW s \in Slots PROVE Given(q, s)' <=> Given(q, s)
      BY <1>3, <3>3, GivenIs
    <3> QED BY <1>0, <2>6, <3>1, <3>4, PointersKept, QueueKept
  <2>7. CASE MovePointer(p)
    <3>1. c.pc = "move" /\ Discard(p)
      BY <2>7 DEF MovePointer, At
    <3>2. /\ c.upd \in Slots /\ c.upd # h.rd
          /\ Gap(h.rd, c.upd) <= Gap(h.rd, h.wr)
          /\ c.upd = IF c.len = "good" THEN Succ(c.rd) ELSE c.wr
      BY <2>2, <3>1, InHandIs DEF FramesInv, Snapshot
    <3>3. UNCHANGED <<origin, arrived, delivered>>
      BY <2>7 DEF MovePointer
    <3>4. /\ hq'[c.i] = [h EXCEPT !.rd = c.upd] /\ h \in HostQueue
          /\ \A o \in Queues : o # c.i => hq'[o] = hq[o]
      BY <1>0, <2>1, <2>7, <3>2, MoveIs, PollTypes DEF MovePointer
    <3>5. poll'[p].pc \in {"return", "descriptor", "overflow"}
      BY <1>0, <2>1, <2>7, <3>2, GotoIs, ProceedIs DEF MovePointer, Labels
    <3>6. ASSUME NEW s \in Slots
          PROVE  /\ ~Given(q, s)'
                 /\ Given(q, s) <=> c.len = "good" /\ c.i = q /\ s = h.rd
      BY <1>3, <2>3, <3>1, <3>5, GivenIs
    <3>7. discarded \subseteq discarded'
      BY <3>1 DEF Discard
    <3>8. ASSUME NEW s \in Slots, Gap(h.rd, s) < Gap(h.rd, c.upd), q = c.i
          PROVE  (s = h.rd /\ Given(q, s)) \/ h.data[s] \in discarded'
      <4>1. CASE c.len = "good"
        <5>1. Gap(h.rd, c.upd) = 1
          BY <2>1, <2>3, <3>2, <4>1, SuccIs, RxAssumption DEF Gap, Slots
        <5>2. Gap(h.rd, s) = 0
          BY <2>1, <3>8, <5>1, GapIs
        <5>3. s = h.rd
          BY <2>1, <5>2, GapIs
        <5> QED BY <4>1, <5>3, <3>6, <3>8
      <4>2. CASE c.len # "good"
        <5>1. s \in Between(c.rd, c.upd)
          BY <2>1, <2>3, <3>2, <3>8, BetweenIs
        <5>2. discarded' = discarded \cup {h.data[x] : x \in Between(c.rd, c.upd)}
          BY <3>1, <4>2 DEF Discard
        <5> QED BY <5>1, <5>2
      <4> QED BY <4>1, <4>2
    <3>9. CASE q = c.i
      <4>1. hq'[q].rd = c.upd /\ hq'[q].wr = hq[q].wr /\ hq'[q].data = hq[q].data
        BY <3>4, <3>9 DEF HostQueue
      <4> HIDE DEF c
      <4> QED BY <1>0, <3>2, <3>3, <3>6, <3>7, <3>8, <3>9, <4>1, QueueMoves
    <3>10. CASE q # c.i
      <4>1. hq'[q] = hq[q] /\ \A s \in Slots : Given(q, s)' <=> Given(q, s)
        BY <3>4, <3>6, <3>10
      <4> QED BY <1>0, <3>3, <3>7, <4>1, QueueKept
    <3> QED BY <3>9, <3>10
  <2> QED BY <1>3, <2>4, <2>5, <2>6, <2>7 DEF Handles
<1> QED BY <1>1, <1>2, <1>3, Effects

\* After every step, descriptors of frames have a length, and only frames
\* that are too long are passed over.
AtMove(q, s) == \E p \in Ports : poll[p].pc = "move" /\ poll[p].i = q /\ poll[p].rd = s
LEMMA DescriptorsStep ==
  ASSUME ~Smp, FramesInv, [Next]_vars
  PROVE  Descriptors'
<1>0. Typed /\ Typed' /\ Descriptors
  BY TypedStep DEF FramesInv
<1>a. /\ \A q \in Queues : \A s \in Held(q) : hq[q].len[s] = "zero" => AtMove(q, s)
      /\ ~LongFrames => /\ \A q \in Queues : \A s \in Slots : hq[q].len[s] # "long"
                        /\ \A p \in Ports : poll[p].pc \in {"clear", "move"} => poll[p].len = "good"
                        /\ discarded = {}
  BY <1>0 DEF Descriptors, AtMove
<1> DEFINE Zero == \A q \in Queues : \A s \in Held(q) : hq[q].len[s] = "zero" => AtMove(q, s)
           NotLong == /\ \A q \in Queues : \A s \in Slots : hq[q].len[s] # "long"
                      /\ \A p \in Ports : poll[p].pc \in {"clear", "move"} => poll[p].len = "good"
                      /\ discarded = {}
<1>b. SUFFICES Zero' /\ (~LongFrames => NotLong')
  BY DEF Descriptors, AtMove
<1>c. ASSUME NEW p \in Ports, Alone(p), poll[p].pc # "move"
      PROVE  \A q \in Queues : \A s \in Held(q) : hq[q].len[s] # "zero"
  BY <1>a, <1>c DEF Alone, AtMove
<1>d. ASSUME NEW p \in Ports, Alone(p), poll'[p].pc \in {"clear", "move"} => poll'[p].len = "good"
      PROVE  \A o \in Ports : poll'[o].pc \in {"clear", "move"} => poll'[o].len = "good"
  BY <1>d DEF Alone, Others
<1>1. CASE Quiet
  <2>1. /\ \A q \in Queues : Held(q)' = Held(q) /\ hq'[q].len = hq[q].len
        /\ discarded' = discarded
    BY <1>1 DEF Quiet, FramesKept, Held
  <2>2. CASE poll' = poll
    BY <1>a, <2>1, <2>2 DEF AtMove
  <2>3. ASSUME NEW p \in Ports, Looks(p) PROVE Zero' /\ (~LongFrames => NotLong')
    <3>1. Alone(p) /\ poll[p].pc # "move" /\ poll'[p].pc \notin {"clear", "move"}
      BY <2>3 DEF Looks
    <3>2. Zero'
      BY <1>c, <2>1, <3>1
    <3>3. ~LongFrames => NotLong'
      BY <1>a, <1>d, <2>1, <3>1
    <3> QED BY <3>2, <3>3
  <2> QED BY <1>1, <2>2, <2>3 DEF Quiet
<1>2. ASSUME NEW p \in Ports, NEW q \in Queues, Adds(p, q)
      PROVE  Zero' /\ (~LongFrames => NotLong')
  <2>1. poll' = poll /\ discarded' = discarded
    BY <1>2 DEF Adds, Receive
  <2>2. /\ \A x \in Queues : x # q => hq'[x] = hq[x]
        /\ hq'[q].rd = hq[q].rd /\ hq'[q].wr = Succ(hq[q].wr)
    BY <1>0, <1>2, ReceiveIs DEF Adds
  <2>3. PICK l \in Lengths : hq'[q].len = [hq[q].len EXCEPT ![hq[q].wr] = l]
    BY <1>0, <1>2, ReceiveIs DEF Adds
  <2>4. hq[q].rd \in Slots /\ hq[q].wr \in Slots /\ hq[q].len \in [Slots -> Lens]
    BY <1>0 DEF Typed, HostQueue
  <2>5. l # "zero" /\ (~LongFrames => l # "long")
    BY DEF Lengths
  <2>6. ASSUME NEW s \in Slots
        PROVE  hq'[q].len[s] = IF s = hq[q].wr THEN l ELSE hq[q].len[s]
    BY <2>3, <2>4
  <2>7. ASSUME NEW s \in Held(q)', s # hq[q].wr PROVE s \in Held(q)
    BY <1>2, <2>7, HeldGrows
  <2>8. Zero'
    <3> SUFFICES ASSUME NEW x \in Queues, NEW s \in Held(x)', hq'[x].len[s] = "zero"
                 PROVE  AtMove(x, s)'
      OBVIOUS
    <3>1. s \in Slots
      BY DEF Held
    <3>2. CASE x = q
      <4>1. s # hq[q].wr
        BY <2>5, <2>6, <3>1, <3>2
      <4>2. s \in Held(q) /\ hq[q].len[s] = "zero"
        BY <2>6, <2>7, <3>1, <3>2, <4>1
      <4> QED BY <1>a, <2>1, <3>2, <4>2 DEF AtMove
    <3>3. CASE x # q
      <4>1. hq'[x] = hq[x] /\ s \in Held(x)
        BY <2>2, <3>3 DEF Held
      <4> QED BY <1>a, <2>1, <4>1 DEF AtMove
    <3> QED BY <3>2, <3>3
  <2>9. ~LongFrames => NotLong'
    <3>1. ASSUME ~LongFrames, NEW x \in Queues, NEW s \in Slots PROVE hq'[x].len[s] # "long"
      BY <1>a, <2>2, <2>5, <2>6, <3>1
    <3> QED BY <1>a, <2>1, <3>1
  <2> QED BY <2>8, <2>9
<1>3. ASSUME NEW p \in Ports, Alone(p), Handles(p)
      PROVE  Zero' /\ (~LongFrames => NotLong')
  <2> DEFINE c == poll[p]
             h == hq[c.i]
  <2>1. c.i \in Queues /\ h \in HostQueue /\ c \in PollState /\ c.rd \in Slots
    BY <1>0, PollTypes
  <2>2. InHand(p)
    BY <1>3 DEF Handles, ReadDescriptor, Packet, ClearDescriptor, MovePointer, At, InHand
  <2>3. c.rd = h.rd /\ h.rd \in Held(c.i)
    BY <2>2, InHandIs
  <2>4. CASE ReadDescriptor(p) \/ Packet(p)
    <3>1. UNCHANGED <<hq, discarded>> /\ c.pc # "move"
      BY <2>4 DEF ReadDescriptor, Packet, history, tally, At
    <3>2. Zero'
      BY <1>3, <1>c, <3>1 DEF Held
    <3>3. ASSUME ~LongFrames, ReadDescriptor(p) PROVE poll'[p].pc = "packet"
      <4>1. h.len[c.rd] # "long" /\ h.len[c.rd] # "zero"
        BY <1>3, <1>a, <1>c, <2>1, <2>3, <3>1, <3>3
      <4> QED BY <1>0, <3>3, <4>1, ReadDescriptorIs DEF Lens
    <3>4. ASSUME Packet(p) PROVE poll'[p].len = "good"
      <4>1. PICK to \in Ports : Deliver(p, to)
        BY <3>4, PacketIs
      <4>2. poll'[p].len = c.len
        BY <1>0, <4>1, DeliverIs
      <4> QED BY <3>4, <4>2, PacketIs
    <3>5. ~LongFrames => NotLong'
      BY <1>3, <1>a, <1>d, <2>4, <3>1, <3>3, <3>4
    <3> QED BY <3>2, <3>5
  <2>5. CASE ClearDescriptor(p)
    <3>1. poll'[p] = [c EXCEPT !.pc = "move"] /\ discarded' = discarded
      BY <1>0, <2>5, GotoIs DEF ClearDescriptor, Labels, history, tally
    <3>2. /\ poll'[p].i = c.i /\ poll'[p].rd = c.rd
          /\ poll'[p].pc = "move" /\ poll'[p].len = c.len
      BY <2>1, <3>1 DEF PollState
    <3>3. /\ hq'[c.i] = [h EXCEPT !.len = [@ EXCEPT ![c.rd] = "zero"]]
          /\ \A o \in Queues : o # c.i => hq'[o] = hq[o]
          /\ c.pc = "clear"
      BY <1>0, <2>1, <2>5, ClearIs DEF ClearDescriptor, At
    <3>4. ASSUME NEW s \in Slots
          PROVE  hq'[c.i].len[s] = IF s = c.rd THEN "zero" ELSE h.len[s]
      BY <2>1, <3>3 DEF HostQueue
    <3>5. \A q \in Queues : Held(q)' = Held(q) /\ Held(q) \subseteq Slots
      BY <2>5, PointersKept DEF Held
    <3>6. Zero'
      <4> SUFFICES ASSUME NEW q \in Queues, NEW s \in Held(q), hq'[q].len[s] = "zero"
                   PROVE  AtMove(q, s)'
        BY <3>5
      <4>1. hq[q].len[s] # "zero"
        BY <1>3, <1>c, <3>3
      <4>2. q = c.i /\ s = c.rd
        BY <3>3, <3>4, <3>5, <4>1
      <4> QED BY <3>2, <4>2 DEF AtMove
    <3>7. ~LongFrames => NotLong'
      <4>1. ASSUME ~LongFrames, NEW q \in Queues, NEW s \in Slots PROVE hq'[q].len[s] # "long"
        <5>1. hq[q].len[s] # "long"
          BY <1>a, <4>1
        <5>2. CASE q = c.i
          BY <3>4, <5>1, <5>2
        <5>3. CASE q # c.i
          BY <3>3, <5>1, <5>3
        <5> QED BY <5>2, <5>3
      <4>2. ~LongFrames => c.len = "good"
        BY <1>a, <3>3
      <4> QED BY <1>3, <1>a, <1>d, <3>1, <3>2, <4>1, <4>2
    <3> QED BY <3>6, <3>7
  <2>6. CASE MovePointer(p)
    <3>1. c.pc = "move" /\ Discard(p)
      BY <2>6 DEF MovePointer, At
    <3>2. /\ h.rd \in Slots /\ h.wr \in Slots /\ c.upd \in Slots /\ c.upd # h.rd
          /\ Gap(h.rd, c.upd) <= Gap(h.rd, h.wr)
      BY <2>2, <3>1, InHandIs
    <3>3. /\ hq'[c.i] = [h EXCEPT !.rd = c.upd]
          /\ \A o \in Queues : o # c.i => hq'[o] = hq[o]
      BY <1>0, <2>1, <2>6, <3>2, MoveIs DEF MovePointer
    <3>4. poll'[p].pc \in {"return", "descriptor", "overflow"}
      BY <1>0, <2>6, <3>2, PollTypes, GotoIs, ProceedIs DEF MovePointer, Labels
    <3>5. hq'[c.i].rd = c.upd /\ hq'[c.i].wr = h.wr /\ hq'[c.i].len = h.len
      BY <2>1, <3>3 DEF HostQueue
    <3>6. ASSUME NEW q \in Queues, q = c.i, NEW s \in Held(q)' PROVE s \in Held(q) /\ s # h.rd
      BY <2>6, <3>6, HeldShrinks
    <3>7. Zero'
      <4> SUFFICES ASSUME NEW q \in Queues, NEW s \in Held(q)', hq'[q].len[s] = "zero"
                   PROVE  FALSE
        OBVIOUS
      <4>1. \A x \in Queues, t \in Slots : AtMove(x, t) => x = c.i /\ t = h.rd
        BY <1>3, <2>3 DEF AtMove, Alone
      <4>2. CASE q = c.i
        <5>1. s \in Held(q) /\ s # h.rd /\ hq[q].len[s] = "zero" /\ s \in Slots
          BY <3>5, <3>6, <4>2 DEF Held
        <5> QED BY <1>a, <4>1, <5>1
      <4>3. CASE q # c.i
        <5>1. s \in Held(q) /\ hq[q].len[s] = "zero" /\ s \in Slots
          BY <3>3, <4>3 DEF Held
        <5> QED BY <1>a, <4>1, <4>3, <5>1
      <4> QED BY <4>2, <4>3
    <3>8. ~LongFrames => NotLong'
      <4>1. ASSUME ~LongFrames PROVE discarded' = discarded
        BY <1>a, <3>1, <4>1 DEF Discard
      <4>2. ASSUME ~LongFrames, NEW q \in Queues, NEW s \in Slots PROVE hq'[q].len[s] # "long"
        <5>1. hq[q].len[s] # "long"
          BY <1>a, <4>2
        <5>2. CASE q = c.i
          BY <3>5, <5>1, <5>2
        <5>3. CASE q # c.i
          BY <3>3, <5>1, <5>3
        <5> QED BY <5>2, <5>3
      <4> QED BY <1>3, <1>a, <1>d, <3>4, <4>1, <4>2
    <3> QED BY <3>7, <3>8
  <2> QED BY <1>3, <2>4, <2>5, <2>6 DEF Handles
<1> QED BY <1>1, <1>2, <1>3, Effects

\* The invariant of the frames holds at first, and every step keeps it.
LEMMA FramesInit ==
  ASSUME Init
  PROVE  FramesInv
<1>1. Typed
  <2>1. ASSUME NEW q \in Queues
        PROVE  [rd |-> 0, wr |-> 0, overflow |-> 0, len |-> [s \in Slots |-> "zero"],
                data |-> [s \in Slots |-> 0]] \in HostQueue
    BY Constants DEF HostQueue, Lens
  <2>2. ASSUME NEW p \in Ports
        PROVE  [pc |-> "idle", i |-> 1, rd |-> 0, wr |-> 0, upd |-> 0, len |-> "zero",
                used |-> 0, count |-> 0, emac |-> p, other |-> 0] \in PollState
    BY Constants DEF PollState, Lens, Labels
  <2>3. hq \in [Queues -> HostQueue] /\ poll \in [Ports -> PollState]
    BY <2>1, <2>2 DEF Init
  <2>4. /\ switch \in BOOLEAN /\ origin \in Seq(Ports)
        /\ arrived \in [Queues -> Seq(Nat)] /\ delivered \in [Queues -> Seq(Nat)]
    BY Constants DEF Init
  <2> QED BY <2>3, <2>4 DEF Typed
<1>2. \A p \in Ports : poll[p].pc = "idle"
  BY DEF Init
<1>3. PollAlone /\ Snapshot
  BY <1>2 DEF PollAlone, Snapshot, InHand
<1>4. ASSUME NEW q \in Queues
      PROVE  /\ Held(q) = {} /\ Len(delivered[q]) = 0 /\ Len(arrived[q]) = 0
             /\ \A s \in Slots : hq[q].len[s] = "zero"
  <2>1. Gap(0, 0) = 0
    BY Constants DEF Gap
  <2>2. \A s \in Slots : Gap(0, s) \in Nat
    BY Constants, GapIs
  <2> QED BY <2>1, <2>2 DEF Init, Held
<1>5. ASSUME NEW q \in Queues PROVE InOrder(q)
  BY <1>2, <1>4 DEF InOrder, SlotsInOrder, DeliveredBefore, DeliveredInOrder, GivenDelivered,
                    Given, Accounted
<1>6. Descriptors
  BY <1>2, <1>4 DEF Descriptors, Init
<1> QED BY <1>1, <1>3, <1>5, <1>6 DEF FramesInv
LEMMA FramesStep ==
  ASSUME ~Smp, FramesInv, [Next]_vars
  PROVE  FramesInv'
  BY TypedStep, PollAloneStep, SnapshotStep, InOrderStep, DescriptorsStep DEF FramesInv

\* On one CPU, whatever the poll retries after -ENOMEM or passes over, every
\* frame reaches the stack once, in the order in which it arrived in its host
\* queue, or is accounted for (emac_rx_packets).
THEOREM FramesGoOnce == ASSUME ~Smp PROVE Spec => []FramesOnce
<1>1. FramesInv => FramesOnce
  <2> SUFFICES ASSUME FramesInv PROVE FramesOnce
    OBVIOUS
  <2>1. OnceInOrder
    <3>1. \A q \in Queues : DOMAIN delivered[q] = 1 .. Len(delivered[q])
      BY DEF FramesInv, Typed
    <3> QED BY <3>1 DEF FramesInv, InOrder, DeliveredInOrder, OnceInOrder
  <2>2. ASSUME NEW q \in Queues
        PROVE  ToSet(arrived[q]) \subseteq ToSet(delivered[q]) \cup Pending(q) \cup discarded
    <3>1. /\ hq[q].rd \in Slots /\ hq[q].wr \in Slots
          /\ arrived[q] \in Seq(Nat) /\ delivered[q] \in Seq(Nat)
      BY DEF FramesInv, Typed, HostQueue
    <3>2. Pending(q) = {hq[q].data[s] : s \in Held(q)}
      BY <3>1, BetweenIs DEF Pending, Held
    <3>3. /\ DOMAIN arrived[q] = 1 .. Len(arrived[q])
          /\ DOMAIN delivered[q] = 1 .. Len(delivered[q])
      BY <3>1
    <3>4. Accounted(q)
      BY DEF FramesInv, InOrder
    <3> QED BY <3>2, <3>3, <3>4 DEF Accounted, ToSet
  <2>3. ~LongFrames => discarded = {}
    BY DEF FramesInv, Descriptors
  <2> QED BY <2>1, <2>2, <2>3 DEF FramesOnce, NothingLost
<1> QED BY <1>1, FramesInit, FramesStep, PTL DEF Spec

(* ----------------------- whose frames they are ------------------------- *)

\* Steps that do not turn what a port remembers of its host queue and of the
\* port it delivers to.
LEMMA OwnPollStep ==
  ASSUME FramesInv, OwnPoll, [Next]_vars
  PROVE  OwnPoll'
<1>0. Typed
  BY DEF FramesInv
<1> DEFINE Own(p) == poll[p].pc # "idle" => /\ poll[p].i \in Scans(p)
                                            /\ ~switch => poll[p].emac = p
<1>a. OwnPoll <=> \A p \in Ports : Own(p)
  BY DEF OwnPoll
<1>b. OwnPoll' <=> \A p \in Ports : Own(p)'
  BY DEF OwnPoll
<1> USE DEF history, tally, napi
<1>1. switch' = switch
  BY DEF Next, Receive, RxIrq, Step, PacketFails, Poll, ReadOverflow, ResetOverflow,
         ReadPointers, ReadDescriptor, Packet, ClearDescriptor, MovePointer, Return, Unmask, vars
<1>2. \A p \in Ports : Scans(p)' = Scans(p)
  BY <1>1 DEF Scans, StartQueue, EndQueue
<1>3. CASE poll' = poll
  BY <1>1, <1>2, <1>3 DEF OwnPoll
<1>4. ASSUME NEW p \in Ports, Others(p), Own(p)' PROVE OwnPoll'
  BY <1>1, <1>2, <1>4, <1>a, <1>b DEF Others
<1>5. ASSUME NEW p \in Ports, Others(p), poll[p].pc # "idle",
             poll'[p].i = poll[p].i, poll'[p].emac = poll[p].emac
      PROVE  OwnPoll'
  BY <1>1, <1>2, <1>4, <1>5, <1>a
<1>6. ASSUME NEW p \in Ports, NEW r \in Slots, NEW w \in Slots, Proceed(p, r, w),
             poll[p].pc # "idle"
      PROVE  OwnPoll'
  <2>1. /\ Others(p) /\ poll'[p].emac = poll[p].emac
        /\ \/ poll'[p].i = poll[p].i
           \/ poll[p].i < EndQueue(p) /\ poll'[p].i = poll[p].i + 1
    BY <1>0, <1>6, ProceedIs
  <2>2. poll[p].i \in Scans(p) /\ StartQueue(p) \in Nat /\ EndQueue(p) \in Nat
    BY <1>6, <1>a, ScanQueues, Constants
  <2>3. poll'[p].i \in Scans(p)
    BY <2>1, <2>2 DEF Scans
  <2> QED BY <1>1, <1>2, <1>4, <1>6, <1>a, <2>1, <2>3
<1>7. ASSUME NEW p \in Ports, NEW label \in Labels, Goto(p, label), poll[p].pc # "idle"
      PROVE  OwnPoll'
  <2>1. Others(p) /\ poll'[p] = [poll[p] EXCEPT !.pc = label]
    BY <1>0, <1>7, GotoIs
  <2>2. poll'[p].i = poll[p].i /\ poll'[p].emac = poll[p].emac
    BY <1>0, <2>1, PollTypes DEF PollState
  <2> QED BY <1>5, <1>7, <2>1, <2>2
<1>8. ASSUME NEW p \in Ports, Poll(p) PROVE OwnPoll'
  <2>1. /\ Others(p)
        /\ poll'[p] = [poll[p] EXCEPT !.pc = "overflow", !.i = StartQueue(p),
                                      !.used = 0, !.emac = p, !.other = 0]
    BY <1>0, <1>8, PollIs
  <2>2. poll'[p].i = StartQueue(p) /\ poll'[p].emac = p
    BY <1>0, <2>1, PollTypes DEF PollState
  <2>3. StartQueue(p) <= EndQueue(p) /\ StartQueue(p) \in Nat /\ EndQueue(p) \in Nat
    BY OwnHostQueues, ScanQueues, Constants DEF StartQueue, EndQueue
  <2>4. StartQueue(p) \in Scans(p)
    BY <2>3 DEF Scans
  <2> QED BY <1>2, <1>4, <2>1, <2>2, <2>4
<1>9. ASSUME NEW p \in Ports, ReadOverflow(p) PROVE OwnPoll'
  <2>1. /\ Others(p) /\ poll[p].pc # "idle"
        /\ poll'[p] = [poll[p] EXCEPT !.pc = poll'[p].pc, !.count = poll'[p].count]
    BY <1>0, <1>9, ReadOverflowIs DEF ReadOverflow, At
  <2>2. poll'[p].i = poll[p].i /\ poll'[p].emac = poll[p].emac
    BY <1>0, <2>1, PollTypes DEF PollState
  <2> QED BY <1>5, <2>1, <2>2
<1>10. ASSUME NEW p \in Ports, ReadDescriptor(p) PROVE OwnPoll'
  <2>1. Others(p) /\ poll[p].pc # "idle"
        /\ poll'[p].i = poll[p].i /\ poll'[p].emac = poll[p].emac
    BY <1>0, <1>10, ReadDescriptorIs DEF ReadDescriptor, At
  <2> QED BY <1>5, <2>1
<1>11. ASSUME NEW p \in Ports, Packet(p) PROVE OwnPoll'
  <2>1. PICK to \in Ports : Deliver(p, to) /\ (~switch => to = poll[p].emac)
    BY <1>11, PacketIs
  <2>2. /\ Others(p) /\ poll[p].pc # "idle"
        /\ poll'[p].i = poll[p].i /\ poll'[p].emac = to
    BY <1>0, <1>11, <2>1, DeliverIs DEF Packet, At
  <2> QED BY <1>1, <1>2, <1>4, <1>a, <2>1, <2>2
<1>12. ASSUME NEW p \in Ports, PacketFails(p) PROVE OwnPoll'
  <2>1. /\ Others(p) /\ poll[p].pc # "idle"
        /\ poll'[p] = [poll[p] EXCEPT !.pc = "return", !.used = 0]
    BY <1>0, <1>12, GiveUpIs DEF PacketFails, GiveUp, At
  <2>2. poll'[p].i = poll[p].i /\ poll'[p].emac = poll[p].emac
    BY <1>0, <2>1, PollTypes DEF PollState
  <2> QED BY <1>5, <2>1, <2>2
<1>13. ASSUME NEW p \in Ports,
              ResetOverflow(p) \/ ReadPointers(p) \/ ClearDescriptor(p) \/ MovePointer(p)
              \/ Return(p) \/ Unmask(p)
       PROVE  OwnPoll'
  <2>1. poll[p].pc # "idle"
    BY <1>13 DEF ResetOverflow, ReadPointers, ClearDescriptor, MovePointer, Return, Unmask, At
  <2>2. CASE ReadPointers(p) \/ (MovePointer(p) /\ ~(poll[p].used >= Quota))
    BY <1>0, <1>6, <2>1, <2>2, PollTypes DEF ReadPointers, MovePointer
  <2>3. CASE ~ReadPointers(p) /\ ~(MovePointer(p) /\ ~(poll[p].used >= Quota))
    <3>1. \E label \in {"pointers", "move", "return", "idle", "unmask"} : Goto(p, label)
      BY <1>13, <2>3 DEF ResetOverflow, ClearDescriptor, MovePointer, Return, Unmask
    <3> QED BY <1>7, <2>1, <3>1 DEF Labels
  <2> QED BY <2>2, <2>3
<1> QED
  <2>1. CASE UNCHANGED vars
    BY <1>3, <2>1 DEF vars
  <2>2. ASSUME NEW p \in Ports, NEW q \in Queues, Receive(p, q) PROVE OwnPoll'
    BY <1>3, <2>2 DEF Receive
  <2>3. ASSUME NEW p \in Ports, RxIrq(p) PROVE OwnPoll'
    BY <1>3, <2>3 DEF RxIrq
  <2> USE DEF Next, Step
  <2> QED BY <1>8, <1>9, <1>10, <1>11, <1>12, <1>13, <2>1, <2>2, <2>3

\* Only a frame of another port turns a poll, and it is remembered until the
\* poll is over.
LEMMA TurnedStep ==
  ASSUME FramesInv, TurnedBy, [Next]_vars
  PROVE  TurnedBy'
<1>0. Typed /\ origin \in Seq(Ports)
  BY DEF FramesInv, Typed
<1> DEFINE Turned(p) == poll[p].pc # "idle" /\ poll[p].emac # p =>
                          poll[p].other \in Ids /\ origin[poll[p].other] # p
<1>a. \A p \in Ports : Turned(p)
  BY DEF TurnedBy
<1>b. TurnedBy' <=> \A p \in Ports : Turned(p)'
  BY DEF TurnedBy
<1> USE DEF history, tally, napi
<1>1. Ids \subseteq Ids' /\ \A id \in Ids : origin'[id] = origin[id]
  <2>1. origin' = origin \/ \E p \in Ports : origin' = Append(origin, p)
    BY DEF Next, Receive, RxIrq, Step, PacketFails, Poll, ReadOverflow, ResetOverflow,
         ReadPointers, ReadDescriptor, Packet, ClearDescriptor, MovePointer, Return, Unmask, vars
  <2>2. CASE origin' = origin
    BY <2>2 DEF Ids
  <2>3. ASSUME NEW p \in Ports, origin' = Append(origin, p)
        PROVE  Ids \subseteq Ids' /\ \A id \in Ids : origin'[id] = origin[id]
    BY <1>0, <2>3 DEF Ids
  <2> QED BY <2>1, <2>2, <2>3
<1>2. ASSUME NEW p \in Ports, poll'[p].emac = poll[p].emac, poll'[p].other = poll[p].other,
             poll[p].pc # "idle" \/ poll'[p] = poll[p]
      PROVE  Turned(p)'
  BY <1>1, <1>2, <1>a
<1>3. CASE poll' = poll
  BY <1>2, <1>3, <1>b
<1>4. ASSUME NEW p \in Ports, Others(p), Turned(p)' PROVE TurnedBy'
  BY <1>2, <1>4, <1>b DEF Others
<1>5. ASSUME NEW p \in Ports, Others(p), poll[p].pc # "idle",
             poll'[p].emac = poll[p].emac, poll'[p].other = poll[p].other
      PROVE  TurnedBy'
  BY <1>2, <1>4, <1>5
<1>6. ASSUME NEW p \in Ports, NEW r \in Slots, NEW w \in Slots, Proceed(p, r, w),
             poll[p].pc # "idle"
      PROVE  TurnedBy'
  BY <1>0, <1>5, <1>6, ProceedIs
<1>7. ASSUME NEW p \in Ports, NEW label \in Labels, Goto(p, label), poll[p].pc # "idle"
      PROVE  TurnedBy'
  <2>1. Others(p) /\ poll'[p] = [poll[p] EXCEPT !.pc = label]
    BY <1>0, <1>7, GotoIs
  <2>2. poll'[p].emac = poll[p].emac /\ poll'[p].other = poll[p].other
    BY <1>0, <2>1, PollTypes DEF PollState
  <2> QED BY <1>5, <1>7, <2>1, <2>2
<1>8. ASSUME NEW p \in Ports, Poll(p) PROVE TurnedBy'
  <2>1. /\ Others(p)
        /\ poll'[p] = [poll[p] EXCEPT !.pc = "overflow", !.i = StartQueue(p),
                                      !.used = 0, !.emac = p, !.other = 0]
    BY <1>0, <1>8, PollIs
  <2>2. poll'[p].emac = p
    BY <1>0, <2>1, PollTypes DEF PollState
  <2> QED BY <1>4, <2>1, <2>2
<1>9. ASSUME NEW p \in Ports, ReadOverflow(p) PROVE TurnedBy'
  <2>1. /\ Others(p) /\ poll[p].pc # "idle"
        /\ poll'[p] = [poll[p] EXCEPT !.pc = poll'[p].pc, !.count = poll'[p].count]
    BY <1>0, <1>9, ReadOverflowIs DEF ReadOverflow, At
  <2>2. poll'[p].emac = poll[p].emac /\ poll'[p].other = poll[p].other
    BY <1>0, <2>1, PollTypes DEF PollState
  <2> QED BY <1>5, <2>1, <2>2
<1>10. ASSUME NEW p \in Ports, ReadDescriptor(p) PROVE TurnedBy'
  <2>1. Others(p) /\ poll[p].pc # "idle"
        /\ poll'[p].emac = poll[p].emac /\ poll'[p].other = poll[p].other
    BY <1>0, <1>10, ReadDescriptorIs DEF ReadDescriptor, At
  <2> QED BY <1>5, <2>1
<1>11. ASSUME NEW p \in Ports, Packet(p) PROVE TurnedBy'
  <2> DEFINE q == poll[p].i
             id == hq[q].data[hq[q].rd]
  <2>1. /\ poll[p].rd = hq[q].rd /\ id \in Ids /\ poll[p].pc # "idle"
    BY <1>11, PacketIs DEF Packet, At
  <2>2. PICK to \in Ports : /\ Deliver(p, to)
                            /\ to = IF switch /\ origin[id] # p THEN origin[id] ELSE poll[p].emac
    BY <1>11, PacketIs
  <2>3. /\ Others(p) /\ poll'[p].emac = to
        /\ poll'[p].other = IF origin[id] = p THEN poll[p].other ELSE id
    <3>1. /\ Others(p) /\ poll'[p].emac = to
          /\ LET at == hq[poll[p].i].data[poll[p].rd]
             IN  poll'[p].other = IF origin[at] = p THEN poll[p].other ELSE at
      BY <1>0, <2>2, DeliverIs
    <3>2. hq[poll[p].i].data[poll[p].rd] = id
      BY <2>1
    <3> QED BY <3>1, <3>2
  <2> HIDE DEF id
  <2>4. CASE origin[id] = p
    BY <1>5, <2>1, <2>2, <2>3, <2>4
  <2>5. CASE origin[id] # p
    BY <1>1, <1>4, <2>1, <2>3, <2>5
  <2> QED BY <2>4, <2>5
<1>12. ASSUME NEW p \in Ports, PacketFails(p) PROVE TurnedBy'
  <2>1. /\ Others(p) /\ poll[p].pc # "idle"
        /\ poll'[p] = [poll[p] EXCEPT !.pc = "return", !.used = 0]
    BY <1>0, <1>12, GiveUpIs DEF PacketFails, GiveUp, At
  <2>2. poll'[p].emac = poll[p].emac /\ poll'[p].other = poll[p].other
    BY <1>0, <2>1, PollTypes DEF PollState
  <2> QED BY <1>5, <2>1, <2>2
<1>13. ASSUME NEW p \in Ports,
              ResetOverflow(p) \/ ReadPointers(p) \/ ClearDescriptor(p) \/ MovePointer(p)
              \/ Return(p) \/ Unmask(p)
       PROVE  TurnedBy'
  <2>1. poll[p].pc # "idle"
    BY <1>13 DEF ResetOverflow, ReadPointers, ClearDescriptor, MovePointer, Return, Unmask, At
  <2>2. CASE ReadPointers(p) \/ (MovePointer(p) /\ ~(poll[p].used >= Quota))
    BY <1>0, <1>6, <2>1, <2>2, PollTypes DEF ReadPointers, MovePointer
  <2>3. CASE ~ReadPointers(p) /\ ~(MovePointer(p) /\ ~(poll[p].used >= Quota))
    <3>1. \E label \in {"pointers", "move", "return", "idle", "unmask"} : Goto(p, label)
      BY <1>13, <2>3 DEF ResetOverflow, ClearDescriptor, MovePointer, Return, Unmask
    <3> QED BY <1>7, <2>1, <3>1 DEF Labels
  <2> QED BY <2>2, <2>3
<1> QED
  <2>1. CASE UNCHANGED vars
    BY <1>3, <2>1 DEF vars
  <2>2. ASSUME NEW p \in Ports, NEW q \in Queues, Receive(p, q) PROVE TurnedBy'
    BY <1>3, <2>2 DEF Receive
  <2>3. ASSUME NEW p \in Ports, RxIrq(p) PROVE TurnedBy'
    BY <1>3, <2>3 DEF RxIrq
  <2> USE DEF Next, Step
  <2> QED BY <1>8, <1>9, <1>10, <1>11, <1>12, <1>13, <2>1, <2>2, <2>3

OwnFramesInv ==
  FramesInv /\ OwnPoll /\ OwnFrames /\ TurnedBy /\ MisroutedKnown /\ MisroutedOnlyBehind

LEMMA OwnFramesStep ==
  ASSUME ~Smp, OwnFramesInv, [Next]_vars
  PROVE  OwnFrames'
<1>0. FramesInv /\ Typed /\ OwnFrames /\ origin \in Seq(Ports)
  BY DEF OwnFramesInv, FramesInv, Typed
<1>1. switch' = switch
  BY DEF Next, Receive, RxIrq, Step, PacketFails, Poll, ReadOverflow, ResetOverflow,
         ReadPointers, ReadDescriptor, Packet, ClearDescriptor, MovePointer, Return, Unmask,
         vars, history
<1>2. \A p \in Ports : Scans(p)' = Scans(p)
  BY <1>1 DEF Scans, StartQueue, EndQueue
<1>3. ASSUME NEW q \in Queues, NEW s \in Held(q)
      PROVE  /\ hq[q].data[s] \in Ids /\ origin[hq[q].data[s]] \in Ports
             /\ q \in Scans(origin[hq[q].data[s]])
  <2> DEFINE id == hq[q].data[s]
  <2>1. id \in Ids
    BY <1>0 DEF FramesInv, InOrder, SlotsInOrder
  <2>2. origin[id] \in Ports
    <3> HIDE DEF id
    <3> QED BY <1>0, <2>1 DEF Ids
  <2> QED BY <1>0, <2>1, <2>2 DEF OwnFrames
<1>4. ASSUME origin' = origin,
             \A q \in Queues : hq'[q].data = hq[q].data /\ Held(q)' \subseteq Held(q)
      PROVE  OwnFrames'
  BY <1>2, <1>3, <1>4 DEF OwnFrames
<1>5. CASE Quiet
  BY <1>4, <1>5 DEF Quiet, FramesKept, Held
<1>6. ASSUME NEW p \in Ports, NEW q \in Queues, Adds(p, q) PROVE OwnFrames'
  <2>1. /\ origin' = Append(origin, p) /\ Len(origin) \in Nat
        /\ \A o \in Queues : o # q => hq'[o] = hq[o]
        /\ hq'[q].data = [hq[q].data EXCEPT ![hq[q].wr] = Len(origin) + 1]
    BY <1>0, <1>6, ReceiveIs DEF Adds
  <2>2. q \in Scans(p)
    BY <1>6 DEF Adds, Receive
  <2>3. hq[q].data \in [Slots -> Nat] /\ hq[q].wr \in Slots
    BY <1>0 DEF Typed, HostQueue
  <2>4. \A id \in Ids : origin'[id] = origin[id]
    BY <1>0, <2>1 DEF Ids
  <2>5. origin'[Len(origin) + 1] = p
    BY <1>0, <2>1
  <2> SUFFICES ASSUME NEW x \in Queues, NEW s \in Held(x)'
               PROVE  x \in Scans(origin'[hq'[x].data[s]])
    BY <1>1 DEF OwnFrames, Scans, StartQueue, EndQueue
  <2>6. CASE x = q /\ s = hq[q].wr
    <3>1. hq'[x].data[s] = Len(origin) + 1
      BY <2>1, <2>3, <2>6
    <3> QED BY <2>2, <2>5, <2>6, <3>1
  <2>7. CASE ~(x = q /\ s = hq[q].wr)
    <3>1. s \in Held(x)
      BY <1>0, <1>6, <2>7, HeldGrows
    <3>2. hq'[x].data[s] = hq[x].data[s]
      <4>1. CASE x # q
        BY <2>1, <4>1
      <4>2. CASE x = q
        BY <2>1, <2>3, <2>7, <3>1, <4>2 DEF Held
      <4> QED BY <4>1, <4>2
    <3> QED BY <1>3, <2>4, <3>1, <3>2
  <2> QED BY <2>6, <2>7
<1>7. ASSUME NEW p \in Ports, Handles(p) PROVE OwnFrames'
  <2>1. CASE MovePointer(p)
    <3>1. \A q \in Queues : hq'[q].data = hq[q].data
      <4>1. /\ poll[p].i \in Queues /\ poll[p].upd \in Slots /\ hq[poll[p].i] \in HostQueue
        BY <1>0, PollTypes
      <4>2. /\ hq'[poll[p].i] = [hq[poll[p].i] EXCEPT !.rd = poll[p].upd]
            /\ \A o \in Queues : o # poll[p].i => hq'[o] = hq[o]
        BY <1>0, <2>1, <4>1, MoveIs DEF MovePointer
      <4> QED BY <4>1, <4>2 DEF HostQueue
    <3>2. origin' = origin
      BY <2>1 DEF MovePointer
    <3> QED BY <1>0, <1>4, <2>1, <3>1, <3>2, HeldShrinks
  <2>2. CASE ReadDescriptor(p) \/ Packet(p) \/ ClearDescriptor(p)
    <3>1. origin' = origin
      BY <2>2 DEF ReadDescriptor, Packet, ClearDescriptor, history, tally
    <3> QED BY <1>0, <1>4, <2>2, <3>1, PointersKept DEF Held
  <2> QED BY <1>7, <2>1, <2>2 DEF Handles
<1> QED BY <1>0, <1>5, <1>6, <1>7, Effects

\* A frame that is misrouted has just been handed over by a switch, behind the
\* frame that turned the poll.
LEMMA MisroutedStep ==
  ASSUME ~Smp, OwnFramesInv, [Next]_vars
  PROVE  MisroutedKnown' /\ MisroutedOnlyBehind'
<1>0. FramesInv /\ OwnPoll /\ OwnFrames /\ TurnedBy /\ MisroutedKnown /\ MisroutedOnlyBehind
      /\ origin \in Seq(Ports)
  BY DEF OwnFramesInv, FramesInv, Typed
<1>1. switch' = switch
  BY DEF Next, Receive, RxIrq, Step, PacketFails, Poll, ReadOverflow, ResetOverflow,
         ReadPointers, ReadDescriptor, Packet, ClearDescriptor, MovePointer, Return, Unmask,
         vars, history
<1>2. ASSUME misrouted' = misrouted, Ids \subseteq Ids', \A id \in Ids : origin'[id] = origin[id]
      PROVE  MisroutedKnown' /\ MisroutedOnlyBehind'
  BY <1>0, <1>1, <1>2 DEF MisroutedKnown, MisroutedOnlyBehind, Ids
<1>3. ASSUME misrouted' = misrouted, origin' = origin PROVE MisroutedKnown' /\ MisroutedOnlyBehind'
  BY <1>2, <1>3 DEF Ids
<1>4. ASSUME NEW p \in Ports, Packet(p) PROVE MisroutedKnown' /\ MisroutedOnlyBehind'
  <2> DEFINE q == poll[p].i
             id == hq[q].data[hq[q].rd]
  <2>1. /\ poll[p].rd = hq[q].rd /\ hq[q].rd # hq[q].wr
        /\ id \in Ids /\ origin[id] \in Ports
    BY <1>0, <1>4, PacketIs
  <2>2. PICK to \in Ports : /\ Deliver(p, to)
                            /\ to = IF switch /\ origin[id] # p THEN origin[id] ELSE poll[p].emac
    BY <1>0, <1>4, PacketIs
  <2>3. origin' = origin
    BY <1>4 DEF Packet
  <2>4. CASE to = origin[id]
    <3>1. misrouted' = misrouted
      BY <2>1, <2>2, <2>4 DEF Deliver
    <3> QED BY <1>3, <2>3, <3>1
  <2>5. CASE to # origin[id]
    <3>1. misrouted' = misrouted \cup {<<id, p, poll[p].other>>}
      BY <2>1, <2>2, <2>5 DEF Deliver
    <3>2. switch
      <4> SUFFICES ASSUME ~switch PROVE FALSE
        OBVIOUS
      <4>1. q \in Scans(p) /\ to = p /\ q \in Queues
        <5>1. poll[p].pc # "idle"
          BY <1>4 DEF Packet, At
        <5> QED BY <1>0, <2>2, <5>1, PollTypes DEF OwnPoll, FramesInv
      <4>2. hq[q].rd \in Held(q)
        BY <1>0, <2>1, <4>1, AtReadPointer
      <4>3. q \in Scans(origin[id])
        BY <1>0, <4>1, <4>2 DEF OwnFrames
      <4>4. /\ q \in RxQueueStart[p] .. RxQueueEnd[p]
            /\ q \in RxQueueStart[origin[id]] .. RxQueueEnd[origin[id]]
        BY <4>1, <4>3 DEF Scans, StartQueue, EndQueue
      <4> QED BY <2>1, <2>5, <4>1, <4>4, OwnHostQueues
    <3>3. origin[id] = p
      BY <2>2, <2>5, <3>2
    <3>4. poll[p].other \in Ids /\ origin[poll[p].other] # p
      <4>1. poll[p].pc # "idle" /\ poll[p].emac # p
        BY <1>4, <2>2, <2>5, <3>3 DEF Packet, At
      <4> QED BY <1>0, <4>1 DEF TurnedBy
    <3> DEFINE other == poll[p].other
    <3>5. misrouted' = misrouted \cup {<<id, p, other>>} /\ other \in Ids /\ origin[other] # p
      BY <3>1, <3>4
    <3> HIDE DEF id, other
    <3>6. MisroutedKnown'
      BY <1>0, <2>1, <2>3, <3>5 DEF MisroutedKnown, Ids
    <3>7. MisroutedOnlyBehind'
      BY <1>0, <1>1, <2>1, <2>3, <3>2, <3>3, <3>5 DEF MisroutedOnlyBehind, Ids
    <3> QED BY <3>6, <3>7
  <2> QED BY <2>4, <2>5
<1>5. ASSUME NEW p \in Ports, NEW q \in Queues, Receive(p, q)
      PROVE MisroutedKnown' /\ MisroutedOnlyBehind'
  <2>1. misrouted' = misrouted /\ (origin' = origin \/ origin' = Append(origin, p))
    BY <1>5 DEF Receive
  <2>2. CASE origin' = Append(origin, p)
    <3>1. Ids \subseteq Ids' /\ \A id \in Ids : origin'[id] = origin[id]
      BY <1>0, <2>2 DEF Ids
    <3> QED BY <1>2, <2>1, <3>1
  <2> QED BY <1>3, <2>1, <2>2
<1>6. ASSUME \A p \in Ports : ~Packet(p) /\ \A q \in Queues : ~Receive(p, q)
      PROVE  misrouted' = misrouted /\ origin' = origin
  BY <1>6 DEF Next, RxIrq, Step, PacketFails, Poll, ReadOverflow, ResetOverflow,
     ReadPointers, ReadDescriptor, ClearDescriptor, MovePointer, Return, Unmask,
     vars, history, tally
<1> QED BY <1>3, <1>4, <1>5, <1>6

\* As dual EMAC no frame is taken for one of another port.  As a switch no
\* frame of another port is, and one of the polling port only behind a frame
\* of another port in the same poll, for any number of ports and host queues
\* and any budget (emac_rx_packets).
THEOREM MisroutedAlwaysBehind == ASSUME ~Smp PROVE Spec => []MisroutedOnlyBehind
<1>1. Init => OwnPoll /\ OwnFrames /\ TurnedBy /\ MisroutedKnown /\ MisroutedOnlyBehind
  <2> SUFFICES ASSUME Init
               PROVE OwnPoll /\ OwnFrames /\ TurnedBy /\ MisroutedKnown /\ MisroutedOnlyBehind
    OBVIOUS
  <2>1. OwnPoll /\ TurnedBy /\ MisroutedKnown /\ MisroutedOnlyBehind
    BY DEF Init, OwnPoll, TurnedBy, MisroutedKnown, MisroutedOnlyBehind
  <2>2. ASSUME NEW q \in Queues PROVE Held(q) = {}
    <3>1. Gap(0, 0) = 0 /\ \A s \in Slots : Gap(0, s) \in Nat
      BY Constants, GapIs DEF Gap
    <3> QED BY <3>1 DEF Init, Held
  <2> QED BY <2>1, <2>2 DEF OwnFrames
<1>2. Init => OwnFramesInv
  BY <1>1, FramesInit DEF OwnFramesInv
<1>3. OwnFramesInv /\ [Next]_vars => OwnFramesInv'
  BY FramesStep, OwnPollStep, OwnFramesStep, TurnedStep, MisroutedStep DEF OwnFramesInv
<1>4. OwnFramesInv => MisroutedOnlyBehind
  BY DEF OwnFramesInv
<1> QED BY <1>2, <1>3, <1>4, PTL DEF Spec

(* ------------------------- a poll is to come --------------------------- *)

\* The mode stays what it is, and with it the host queues of every port.
LEMMA ScansKept ==
  ASSUME [Next]_vars
  PROVE  switch' = switch /\ \A p \in Ports : Scans(p)' = Scans(p)
<1>1. switch' = switch
  BY DEF Next, Receive, RxIrq, Step, PacketFails, Poll, ReadOverflow, ResetOverflow,
         ReadPointers, ReadDescriptor, Packet, ClearDescriptor, MovePointer, Return, Unmask,
         vars, history
<1> QED BY <1>1 DEF Scans, StartQueue, EndQueue

\* Interrupts are masked from the schedule of a poll to its end.
LEMMA NapiStep ==
  ASSUME FramesInv, NapiState, [Next]_vars
  PROVE  NapiState'
<1>0. Typed
  BY DEF FramesInv
<1> USE DEF history, tally, napi
<1>1. CASE UNCHANGED <<masked, scheduled, poll>>
  BY <1>1 DEF NapiState
<1>2. ASSUME NEW p \in Ports, Others(p), UNCHANGED <<masked, scheduled>>, p \in scheduled,
             poll'[p].pc # "unmask"
      PROVE  NapiState'
  BY <1>2 DEF NapiState, Others
<1>3. ASSUME NEW p \in Ports, UNCHANGED <<masked, scheduled>>, poll[p].pc \notin {"idle", "unmask"},
             Others(p), poll'[p].pc # "unmask"
      PROVE  NapiState'
  BY <1>2, <1>3 DEF NapiState
<1>4. ASSUME NEW p \in Ports, RxIrq(p) PROVE NapiState'
  BY <1>4 DEF RxIrq, NapiState
<1>5. ASSUME NEW p \in Ports, Poll(p) PROVE NapiState'
  <2>1. Others(p) /\ poll'[p].pc = "overflow"
    BY <1>0, <1>5, PollIs, PollTypes DEF PollState
  <2> QED BY <1>2, <1>5, <2>1 DEF Poll
<1>6. ASSUME NEW p \in Ports, Handles(p) PROVE NapiState'
  <2>1. UNCHANGED <<masked, scheduled>> /\ poll[p].pc \notin {"idle", "unmask"}
    BY <1>6 DEF Handles, ReadDescriptor, Packet, ClearDescriptor, MovePointer, At
  <2>2. Others(p) /\ poll'[p].pc # "unmask"
    <3>1. CASE ReadDescriptor(p)
      BY <1>0, <3>1, ReadDescriptorIs
    <3>2. CASE Packet(p)
      <4>1. PICK to \in Ports : Deliver(p, to)
        BY <3>2, PacketIs
      <4> QED BY <1>0, <4>1, DeliverIs
    <3>3. CASE ClearDescriptor(p)
      BY <1>0, <3>3, GotoIs DEF ClearDescriptor, Labels
    <3>4. CASE MovePointer(p)
      BY <1>0, <3>4, GotoIs, ProceedIs, PollTypes DEF MovePointer, Labels
    <3> QED BY <1>6, <3>1, <3>2, <3>3, <3>4 DEF Handles
  <2> QED BY <1>3, <2>1, <2>2
<1>7. ASSUME NEW p \in Ports, ReadOverflow(p) \/ ResetOverflow(p) \/ ReadPointers(p) \/ PacketFails(p)
      PROVE NapiState'
  <2>1. UNCHANGED <<masked, scheduled>> /\ poll[p].pc \notin {"idle", "unmask"}
    BY <1>7 DEF ReadOverflow, ResetOverflow, ReadPointers, PacketFails, GiveUp, At
  <2>2. Others(p) /\ poll'[p].pc # "unmask"
    <3>1. CASE ReadOverflow(p)
      BY <1>0, <3>1, ReadOverflowIs
    <3>2. CASE ResetOverflow(p)
      BY <1>0, <3>2, GotoIs DEF ResetOverflow, Labels
    <3>3. CASE ReadPointers(p)
      BY <1>0, <3>3, ProceedIs, PollTypes DEF ReadPointers
    <3>4. CASE PacketFails(p)
      BY <1>0, <3>4, GiveUpIs, PollTypes DEF PacketFails, PollState
    <3> QED BY <1>7, <3>1, <3>2, <3>3, <3>4
  <2> QED BY <1>3, <2>1, <2>2
<1>8. ASSUME NEW p \in Ports, Return(p) PROVE NapiState'
  <2>1. poll[p].pc = "return" /\ masked' = masked
    BY <1>8 DEF Return, At
  <2>2. CASE Goto(p, "idle") /\ scheduled' = scheduled
    <3>1. Others(p) /\ poll'[p].pc = "idle"
      BY <1>0, <2>2, GotoIs DEF Labels
    <3> QED BY <1>3, <2>1, <2>2, <3>1
  <2>3. CASE Goto(p, "unmask") /\ scheduled' = scheduled \ {p}
    <3>1. Others(p) /\ poll'[p].pc = "unmask"
      BY <1>0, <2>3, GotoIs DEF Labels
    <3> QED BY <2>1, <2>3, <3>1 DEF NapiState, Others
  <2> QED BY <1>8, <2>2, <2>3 DEF Return
<1>9. ASSUME NEW p \in Ports, Unmask(p) PROVE NapiState'
  <2>1. /\ poll[p].pc = "unmask" /\ masked' = masked \ {p} /\ scheduled' = scheduled
        /\ Others(p) /\ poll'[p].pc = "idle"
    BY <1>0, <1>9, GotoIs DEF Unmask, At, Labels
  <2> QED BY <2>1 DEF NapiState, Others
<1>10. CASE UNCHANGED vars
  BY <1>1, <1>10 DEF vars
<1>11. ASSUME NEW p \in Ports, NEW q \in Queues, Receive(p, q) PROVE NapiState'
  BY <1>1, <1>11 DEF Receive
<1> QED
  <2> USE DEF Next, Step, Handles
  <2> QED BY <1>4, <1>5, <1>6, <1>7, <1>8, <1>9, <1>10, <1>11

\* A poll of a port that does not take part in a step sees what it saw.
LEMMA WillSeeKept ==
  ASSUME [Next]_vars, NEW o \in Ports, NEW q \in Queues, WillSee(o, q), poll'[o] = poll[o],
         o \in raised => o \in raised', o \in scheduled => o \in scheduled',
         hq'[q].wr = hq[q].wr
  PROVE  WillSee(o, q)'
<1>1. q \in Scans(o)'
  BY ScansKept DEF WillSee
<1> QED BY <1>1 DEF WillSee, InHand

\* A poll that moves on to the next frame or the next host queue still sees
\* what it has not looked at.
LEMMA WillSeeProceeds ==
  ASSUME FramesInv, [Next]_vars, NEW p \in Ports, NEW r \in Slots, NEW w \in Slots, Proceed(p, r, w),
         NEW q \in Queues, q \in Scans(p), poll[p].i \in Scans(p),
         poll[p].i < q \/ (poll[p].i = q /\ r # w /\ w = hq'[q].wr)
  PROVE  WillSee(p, q)'
<1>1. /\ poll'[p].rd = r /\ poll'[p].wr = w
      /\ \/ r # w /\ poll'[p].pc = "descriptor" /\ poll'[p].i = poll[p].i
         \/ /\ r = w /\ poll[p].i < EndQueue(p)
            /\ poll'[p].pc = "overflow" /\ poll'[p].i = poll[p].i + 1
         \/ r = w /\ ~(poll[p].i < EndQueue(p))
  BY ProceedIs DEF FramesInv
<1>2. q \in Scans(p)'
  BY ScansKept
<1>3. /\ q \in Nat /\ poll[p].i \in Nat /\ StartQueue(p) \in Nat /\ EndQueue(p) \in Nat
      /\ q <= EndQueue(p)
  <2>1. StartQueue(p) \in Nat /\ EndQueue(p) \in Nat /\ Scans(p) \subseteq Nat
    BY ScanQueues, Constants
  <2> QED BY <2>1 DEF Scans
<1>4. CASE poll[p].i = q
  <2>1. r # w /\ w = hq'[q].wr
    BY <1>3, <1>4
  <2>2. poll'[p].pc = "descriptor" /\ poll'[p].i = q /\ poll'[p].wr = hq'[q].wr
    BY <1>1, <1>4, <2>1
  <2> QED BY <1>2, <2>2 DEF WillSee, InHand
<1>5. CASE poll[p].i < q
  <2>1. \/ poll'[p].pc = "descriptor" /\ poll'[p].i < q
        \/ poll'[p].pc = "overflow" /\ poll'[p].i <= q
    BY <1>1, <1>3, <1>5
  <2> QED BY <1>2, <2>1 DEF WillSee, InHand
<1> QED BY <1>4, <1>5

PollInv == FramesInv /\ OwnPoll /\ NapiState /\ Seen

LEMMA SeenStep ==
  ASSUME ~Smp, PollInv, [Next]_vars
  PROVE  Seen'
<1>0. FramesInv /\ Typed /\ OwnPoll /\ NapiState /\ Seen
  BY DEF PollInv, FramesInv
<1> USE DEF history, tally, napi
<1>1. SUFFICES ASSUME NEW q \in Queues, hq'[q].rd # hq'[q].wr, q \notin stalled'
               PROVE  \E p \in Ports : WillSee(p, q)'
  BY DEF Seen
<1>2. ASSUME hq[q].rd # hq[q].wr, q \notin stalled PROVE \E p \in Ports : WillSee(p, q)
  BY <1>0, <1>2 DEF Seen
\* Steps that leave the queue and its poll alone, but for port p.
<1>3. ASSUME NEW p \in Ports, Others(p), raised \subseteq raised' \cup {p},
             scheduled \subseteq scheduled' \cup {p}, stalled \subseteq stalled',
             hq'[q].wr = hq[q].wr, hq[q].rd # hq[q].wr,
             WillSee(p, q) => WillSee(p, q)'
      PROVE  \E o \in Ports : WillSee(o, q)'
  <2>1. PICK o \in Ports : WillSee(o, q)
    BY <1>1, <1>2, <1>3
  <2>2. CASE o # p
    BY <1>3, <2>1, <2>2, WillSeeKept DEF Others
  <2>3. CASE o = p
    BY <1>3, <2>1, <2>3
  <2> QED BY <2>2, <2>3
<1>4. \A p \in Ports : Scans(p)' = Scans(p)
  BY ScansKept
<1>5. CASE UNCHANGED <<hq, raised, scheduled, poll, stalled>>
  <2>1. PICK p \in Ports : WillSee(p, q)
    BY <1>1, <1>2, <1>5
  <2> QED BY <1>5, <2>1, WillSeeKept
<1>6. ASSUME NEW p \in Ports, NEW x \in Queues, Receive(p, x)
      PROVE  \E o \in Ports : WillSee(o, q)'
  <2>0. poll' = poll /\ scheduled' = scheduled /\ x \in Scans(p)
    BY <1>6 DEF Receive
  <2>1. CASE Succ(hq[x].wr) = hq[x].rd
    <3>1. UNCHANGED <<raised, stalled>> /\ hq' = [hq EXCEPT ![x].overflow = hq[x].overflow + 1]
      BY <1>6, <2>1 DEF Receive
    <3>2. hq[x].overflow + 1 \in Nat /\ hq[x] \in HostQueue
      <4>1. hq[x] \in HostQueue
        BY <1>0 DEF Typed
      <4> QED BY <4>1 DEF HostQueue
    <3>3. /\ hq'[x] = [hq[x] EXCEPT !.overflow = hq[x].overflow + 1]
          /\ \A o \in Queues : o # x => hq'[o] = hq[o]
      BY <1>0, <3>1, <3>2, CountIs
    <3>4. hq'[q].rd = hq[q].rd /\ hq'[q].wr = hq[q].wr
      BY <3>2, <3>3 DEF HostQueue
    <3>5. PICK o \in Ports : WillSee(o, q)
      BY <1>1, <1>2, <3>1, <3>4
    <3> QED BY <2>0, <3>1, <3>4, <3>5, WillSeeKept
  <2>2. CASE Succ(hq[x].wr) # hq[x].rd
    <3>1. raised' = raised \cup {p} /\ stalled' = stalled \ Scans(p)
      BY <1>6, <2>2 DEF Receive
    <3>2. CASE q \in Scans(p)
      <4>1. p \in raised' /\ q \in Scans(p)'
        BY <1>4, <3>1, <3>2
      <4>2. WillSee(p, q)'
        BY <4>1 DEF WillSee
      <4> QED BY <4>2
    <3>3. CASE q \notin Scans(p)
      <4>1. hq'[q] = hq[q]
        BY <1>0, <1>6, <2>0, <2>2, <3>3, ReceiveIs
      <4>2. PICK o \in Ports : WillSee(o, q)
        BY <1>1, <1>2, <3>1, <3>3, <4>1
      <4> QED BY <2>0, <3>1, <4>1, <4>2, WillSeeKept
    <3> QED BY <3>2, <3>3
  <2> QED BY <2>1, <2>2
<1>7. ASSUME NEW p \in Ports, RxIrq(p) PROVE \E o \in Ports : WillSee(o, q)'
  <2>1. /\ p \notin masked /\ raised' = raised \ {p} /\ scheduled' = scheduled \cup {p}
        /\ UNCHANGED <<hq, poll, stalled>>
    BY <1>7 DEF RxIrq
  <2>2. poll[p].pc = "idle"
    BY <1>0, <2>1 DEF NapiState
  <2>3. WillSee(p, q) => WillSee(p, q)'
    BY <1>4, <2>1, <2>2 DEF WillSee, InHand
  <2> QED BY <1>1, <1>3, <2>1, <2>3 DEF Others
<1>8. ASSUME NEW p \in Ports, Poll(p) PROVE \E o \in Ports : WillSee(o, q)'
  <2>1. /\ Others(p) /\ poll[p].pc = "idle"
        /\ poll'[p] = [poll[p] EXCEPT !.pc = "overflow", !.i = StartQueue(p),
                                      !.used = 0, !.emac = p, !.other = 0]
        /\ UNCHANGED <<hq, raised, scheduled, stalled>>
    BY <1>0, <1>8, PollIs DEF Poll, At
  <2>2. poll'[p].pc = "overflow" /\ poll'[p].i = StartQueue(p)
    BY <1>0, <2>1, PollTypes DEF PollState
  <2>3. WillSee(p, q) => WillSee(p, q)'
    <3>1. q \in Scans(p) => StartQueue(p) <= q
      BY DEF Scans
    <3> QED BY <1>4, <2>2, <3>1 DEF WillSee
  <2> QED BY <1>1, <1>3, <2>1, <2>3
<1>9. ASSUME NEW p \in Ports, ReadOverflow(p) PROVE \E o \in Ports : WillSee(o, q)'
  <2>1. /\ Others(p) /\ poll[p].pc = "overflow"
        /\ poll'[p].pc \in {"reset", "pointers"}
        /\ poll'[p] = [poll[p] EXCEPT !.pc = poll'[p].pc, !.count = poll'[p].count]
        /\ UNCHANGED <<hq, raised, scheduled, stalled>>
    BY <1>0, <1>9, ReadOverflowIs DEF ReadOverflow, At
  <2>2. poll'[p].i = poll[p].i
    BY <1>0, <2>1, PollTypes DEF PollState
  <2>3. WillSee(p, q) => WillSee(p, q)'
    BY <1>4, <2>1, <2>2 DEF WillSee, InHand
  <2> QED BY <1>1, <1>3, <2>1, <2>3
<1>10. ASSUME NEW p \in Ports, ResetOverflow(p) PROVE \E o \in Ports : WillSee(o, q)'
  <2>1. /\ Others(p) /\ poll[p].pc = "reset"
        /\ poll'[p] = [poll[p] EXCEPT !.pc = "pointers"]
        /\ UNCHANGED <<raised, scheduled, stalled>>
    BY <1>0, <1>10, GotoIs DEF ResetOverflow, At, Labels
  <2>2. poll'[p].i = poll[p].i /\ poll'[p].pc = "pointers"
    BY <1>0, <2>1, PollTypes DEF PollState
  <2>3. /\ hq'[poll[p].i] = [hq[poll[p].i] EXCEPT !.overflow = 0]
        /\ \A o \in Queues : o # poll[p].i => hq'[o] = hq[o]
        /\ hq[poll[p].i] \in HostQueue
    BY <1>0, <1>10, CountIs, PollTypes DEF ResetOverflow
  <2>4. hq'[q].rd = hq[q].rd /\ hq'[q].wr = hq[q].wr
    BY <2>3 DEF HostQueue
  <2>5. WillSee(p, q) => WillSee(p, q)'
    BY <1>4, <2>1, <2>2 DEF WillSee, InHand
  <2> QED BY <1>1, <1>3, <2>1, <2>4, <2>5
<1>11. ASSUME NEW p \in Ports, ReadPointers(p) PROVE \E o \in Ports : WillSee(o, q)'
  <2> DEFINE h == hq[poll[p].i]
  <2>1. /\ poll[p].pc = "pointers" /\ UNCHANGED <<hq, raised, scheduled, stalled>>
        /\ Proceed(p, h.rd, h.wr) /\ h.rd \in Slots /\ h.wr \in Slots
    BY <1>0, <1>11, PollTypes DEF ReadPointers, At
  <2>2. Others(p)
    BY <1>0, <2>1, ProceedIs
  <2>3. ASSUME WillSee(p, q) PROVE WillSee(p, q)'
    <3>1. q \in Scans(p) /\ poll[p].i \in Scans(p)
      BY <1>0, <2>1, <2>3 DEF WillSee, OwnPoll
    <3>2. CASE p \in raised
      BY <1>4, <2>1, <3>1, <3>2 DEF WillSee
    <3>3. CASE p \notin raised
      <4>1. poll[p].i <= q
        BY <2>1, <2>3, <3>3 DEF WillSee, InHand
      <4>2. poll[p].i \in Nat /\ q \in Nat
        BY <1>0, PollTypes, Constants
      <4>3. poll[p].i < q \/ (poll[p].i = q /\ h.rd # h.wr /\ h.wr = hq'[q].wr)
        BY <1>1, <2>1, <4>1, <4>2
      <4> HIDE DEF h
      <4> QED BY <1>0, <2>1, <3>1, <4>3, WillSeeProceeds
    <3> QED BY <3>2, <3>3
  <2> QED BY <1>1, <1>3, <2>1, <2>2, <2>3
<1>12. ASSUME NEW p \in Ports, ReadDescriptor(p) \/ Packet(p) \/ ClearDescriptor(p)
       PROVE \E o \in Ports : WillSee(o, q)'
  <2>1. /\ UNCHANGED <<raised, scheduled, stalled>> /\ InHand(p)
        /\ hq'[q].rd = hq[q].rd /\ hq'[q].wr = hq[q].wr
    BY <1>0, <1>12, PointersKept DEF ReadDescriptor, Packet, ClearDescriptor, At, InHand
  <2>2. Others(p) /\ InHand(p)' /\ poll'[p].i = poll[p].i /\ poll'[p].wr = poll[p].wr
    <3>1. CASE ReadDescriptor(p)
      BY <1>0, <3>1, ReadDescriptorIs DEF InHand
    <3>2. CASE Packet(p)
      <4>1. PICK to \in Ports : Deliver(p, to)
        BY <1>0, <3>2, PacketIs
      <4> QED BY <1>0, <4>1, DeliverIs DEF InHand
    <3>3. CASE ClearDescriptor(p)
      <4>1. Others(p) /\ poll'[p] = [poll[p] EXCEPT !.pc = "move"]
        BY <1>0, <3>3, GotoIs DEF ClearDescriptor, Labels
      <4> QED BY <1>0, <4>1, PollTypes DEF PollState, InHand
    <3> QED BY <1>12, <3>1, <3>2, <3>3
  <2>3. WillSee(p, q) => WillSee(p, q)'
    BY <1>4, <2>1, <2>2 DEF WillSee, InHand
  <2> QED BY <1>1, <1>3, <2>1, <2>2, <2>3
<1>13. ASSUME NEW p \in Ports, PacketFails(p) PROVE \E o \in Ports : WillSee(o, q)'
  <2>1. /\ UNCHANGED <<hq, raised, scheduled>> /\ stalled' = stalled \cup Scans(p)
        /\ Others(p)
    BY <1>0, <1>13, GiveUpIs DEF PacketFails, GiveUp
  <2>2. ~WillSee(p, q)
    BY <1>1, <2>1 DEF WillSee
  <2> QED BY <1>1, <1>3, <2>1, <2>2
<1>14. ASSUME NEW p \in Ports, MovePointer(p) PROVE \E o \in Ports : WillSee(o, q)'
  <2> DEFINE c == poll[p]
  <2>1. /\ UNCHANGED <<raised, scheduled, stalled>> /\ InHand(p) /\ c.pc = "move"
    BY <1>14 DEF MovePointer, At, InHand
  <2>2. /\ c.upd \in Slots /\ c.wr \in Slots /\ c.i \in Queues /\ hq[c.i] \in HostQueue
        /\ hq[c.i].rd # hq[c.i].wr
    BY <1>0, <2>1, InHandIs
  <2>3. /\ hq'[c.i] = [hq[c.i] EXCEPT !.rd = c.upd]
        /\ \A o \in Queues : o # c.i => hq'[o] = hq[o]
    BY <1>0, <1>14, <2>2, MoveIs DEF MovePointer
  <2>4. hq'[q].wr = hq[q].wr /\ (q = c.i => hq'[q].rd = c.upd) /\ hq[q].rd # hq[q].wr
    BY <1>1, <2>2, <2>3 DEF HostQueue
  <2>5. CASE c.used >= Quota
    <3>1. Others(p) /\ poll'[p] = [c EXCEPT !.pc = "return"]
      BY <1>0, <1>14, <2>5, GotoIs DEF MovePointer, Labels
    <3>2. poll'[p].pc = "return" /\ poll'[p].used >= Quota
      BY <1>0, <2>5, <3>1, PollTypes DEF PollState
    <3>3. WillSee(p, q) => WillSee(p, q)'
      BY <1>4, <3>2 DEF WillSee
    <3> QED BY <1>3, <2>1, <2>4, <3>1, <3>3
  <2>6. CASE ~(c.used >= Quota)
    <3>1. Proceed(p, c.upd, c.wr)
      BY <1>14, <2>6 DEF MovePointer
    <3>2. Others(p)
      BY <1>0, <2>2, <3>1, ProceedIs
    <3>3. ASSUME WillSee(p, q) PROVE WillSee(p, q)'
      <4>1. q \in Scans(p) /\ c.i \in Scans(p)
        BY <1>0, <2>1, <3>3 DEF WillSee, OwnPoll
      <4>2. CASE p \in raised
        BY <1>4, <2>1, <4>1, <4>2 DEF WillSee
      <4>3. CASE p \notin raised
        <5>1. c.i < q \/ (c.i = q /\ c.wr = hq[q].wr)
          BY <2>1, <3>3, <4>3 DEF WillSee
        <5>2. c.i < q \/ (c.i = q /\ c.upd # c.wr /\ c.wr = hq'[q].wr)
          BY <1>1, <2>4, <5>1
        <5> QED BY <1>0, <2>2, <3>1, <4>1, <5>2, WillSeeProceeds
      <4> QED BY <4>2, <4>3
    <3> QED BY <1>3, <2>1, <2>4, <3>2, <3>3
  <2> QED BY <2>5, <2>6
<1>15. ASSUME NEW p \in Ports, Return(p) PROVE \E o \in Ports : WillSee(o, q)'
  <2>1. poll[p].pc = "return" /\ UNCHANGED <<hq, raised, stalled>> /\ p \in scheduled
    BY <1>0, <1>15 DEF Return, At, NapiState
  <2>2. CASE poll[p].used >= Quota /\ Goto(p, "idle") /\ scheduled' = scheduled
    <3>1. Others(p) /\ poll'[p].pc = "idle"
      BY <1>0, <2>2, GotoIs DEF Labels
    <3>2. WillSee(p, q) => WillSee(p, q)'
      BY <1>4, <2>1, <2>2, <3>1 DEF WillSee
    <3> QED BY <1>1, <1>3, <2>1, <2>2, <3>1, <3>2
  <2>3. CASE poll[p].used < Quota /\ Goto(p, "unmask") /\ scheduled' = scheduled \ {p}
    <3>1. Others(p) /\ poll'[p].pc = "unmask"
      BY <1>0, <2>3, GotoIs DEF Labels
    <3>2. ASSUME WillSee(p, q) PROVE p \in raised
      <4>1. poll[p].used \in Nat
        BY <1>0, PollTypes
      <4> QED BY <2>1, <2>3, <3>2, <4>1, Constants DEF WillSee, InHand
    <3>3. WillSee(p, q) => WillSee(p, q)'
      BY <1>4, <2>1, <3>2 DEF WillSee
    <3> QED BY <1>1, <1>3, <2>1, <2>3, <3>1, <3>3
  <2> QED BY <1>15, <2>2, <2>3 DEF Return
<1>16. ASSUME NEW p \in Ports, Unmask(p) PROVE \E o \in Ports : WillSee(o, q)'
  <2>1. /\ poll[p].pc = "unmask" /\ UNCHANGED <<hq, raised, scheduled, stalled>>
        /\ Others(p)
    BY <1>0, <1>16, GotoIs DEF Unmask, At, Labels
  <2>2. WillSee(p, q) => WillSee(p, q)'
    BY <1>4, <2>1 DEF WillSee, InHand
  <2> QED BY <1>1, <1>3, <2>1, <2>2
<1>17. CASE UNCHANGED vars
  BY <1>5, <1>17 DEF vars
<1> QED
  <2> USE DEF Next, Step
  <2> QED BY <1>6, <1>7, <1>8, <1>9, <1>10, <1>11, <1>12, <1>13, <1>14, <1>15, <1>16, <1>17

\* "The NAPI schedule function is called if more packets pending": on one
\* CPU no frame is left in a host queue without a poll that is running,
\* scheduled or about to be, unless -ENOMEM has left the queue and nothing
\* has come since (emac_napi_poll with emac_rx_irq).
THEOREM PollAlwaysToCome == ASSUME ~Smp PROVE Spec => []PollUnlessStalled
<1>1. Init => PollInv
  <2> SUFFICES ASSUME Init PROVE PollInv
    OBVIOUS
  <2>1. OwnPoll /\ NapiState
    BY DEF Init, OwnPoll, NapiState
  <2>2. \A q \in Queues : hq[q].rd = hq[q].wr
    BY DEF Init
  <2> QED BY <2>1, <2>2, FramesInit DEF PollInv, Seen
<1>2. PollInv /\ [Next]_vars => PollInv'
  BY FramesStep, OwnPollStep, NapiStep, SeenStep DEF PollInv
<1>3. PollInv => PollUnlessStalled
  <2> SUFFICES ASSUME PollInv, NEW q \in Queues, NEW p \in Ports, WillSee(p, q)
               PROVE  SomePoll(q)
    BY DEF PollInv, Seen, PollUnlessStalled
  <2>1. q \in Scans(p) /\ (p \in scheduled \cup raised \/ poll[p].pc \notin {"idle", "unmask"})
    BY DEF WillSee, InHand
  <2> QED BY <2>1 DEF SomePoll
<1> QED BY <1>1, <1>2, <1>3, PTL DEF Spec

(* --------------------------- rx_over_errors ---------------------------- *)


\* What is known of sums and counters.
LEMMA SumsAre ==
  ASSUME Typed, NEW f \in Sums
  PROVE  /\ f \in [0 .. NumQueues -> Nat] /\ f[0] = 0 /\ NumQueues \in Nat
         /\ \A n \in Queues : /\ f[n] = f[n - 1] + hq[n].overflow
                              /\ hq[n].overflow \in Nat
                              /\ n \in 0 .. NumQueues /\ n - 1 \in 0 .. NumQueues
         /\ \A m, n \in 0 .. NumQueues : m <= n => f[m] <= f[n]
<1>1. ASSUME NEW n \in Queues PROVE hq[n].overflow \in Nat
  <2>1. hq[n] \in HostQueue
    BY DEF Typed
  <2> QED BY <2>1 DEF HostQueue
<1>2. NumQueues \in Nat
  BY Constants
<1>3. \A n \in Queues : n \in 0 .. NumQueues /\ n - 1 \in 0 .. NumQueues
  BY <1>2 DEF Queues
<1> QED BY <1>1, <1>2, <1>3 DEF Sums

\* Adding one to a counter adds one to every sum behind it.
LEMMA SumsGrow ==
  ASSUME Typed, NEW f \in Sums, NEW q \in Queues, hq'[q].overflow = hq[q].overflow + 1,
         \A o \in Queues : o # q => hq'[o].overflow = hq[o].overflow
  PROVE  \E g \in Sums' : g[NumQueues] = f[NumQueues] + 1
<1> DEFINE g == [n \in 0 .. NumQueues |-> IF n >= q THEN f[n] + 1 ELSE f[n]]
<1>1. /\ f \in [0 .. NumQueues -> Nat] /\ f[0] = 0
      /\ \A n \in Queues : f[n] = f[n - 1] + hq[n].overflow
      /\ \A m, n \in 0 .. NumQueues : m <= n => f[m] <= f[n]
      /\ q \in Nat /\ q >= 1 /\ q <= NumQueues /\ NumQueues \in Nat
      /\ \A n \in Queues : hq[n].overflow \in Nat
  BY SumsAre DEF Queues
<1>2. g \in [0 .. NumQueues -> Nat] /\ g[0] = 0
  BY <1>1
<1>3. ASSUME NEW n \in Queues PROVE g[n] = g[n - 1] + hq'[n].overflow
  <2>1. /\ n \in 0 .. NumQueues /\ n - 1 \in 0 .. NumQueues /\ n \in Nat
        /\ f[n] \in Nat /\ f[n - 1] \in Nat /\ hq[n].overflow \in Nat
        /\ f[n] = f[n - 1] + hq[n].overflow
    BY <1>1 DEF Queues
  <2>2. CASE n < q
    BY <1>1, <2>1, <2>2
  <2>3. CASE n = q
    BY <1>1, <2>1, <2>3
  <2>4. CASE n > q
    <3>1. n >= q /\ n - 1 >= q
      BY <1>1, <2>1, <2>4
    <3>2. g[n] = f[n] + 1 /\ g[n - 1] = f[n - 1] + 1
      BY <2>1, <3>1
    <3>3. hq'[n].overflow = hq[n].overflow
      BY <1>1, <2>1, <2>4
    <3> QED BY <2>1, <3>2, <3>3
  <2> QED BY <1>1, <2>1, <2>2, <2>3, <2>4
<1>4. ASSUME NEW m \in 0 .. NumQueues, NEW n \in 0 .. NumQueues, m <= n PROVE g[m] <= g[n]
  BY <1>1, <1>4
<1>5. g[NumQueues] = f[NumQueues] + 1
  BY <1>1
<1> HIDE DEF g
<1>6. g \in Sums'
  BY <1>2, <1>3, <1>4 DEF Sums
<1> QED BY <1>5, <1>6

\* A counter that is reset is taken from the sums behind it.
LEMMA SumsShrink ==
  ASSUME Typed, NEW f \in Sums, NEW q \in Queues, hq'[q].overflow = 0,
         \A o \in Queues : o # q => hq'[o].overflow = hq[o].overflow
  PROVE  \E g \in Sums' : g[NumQueues] = f[NumQueues] - hq[q].overflow
<1> DEFINE cnt == hq[q].overflow
           g == [n \in 0 .. NumQueues |-> IF n >= q THEN f[n] - cnt ELSE f[n]]
<1>1. /\ f \in [0 .. NumQueues -> Nat] /\ f[0] = 0
      /\ \A n \in Queues : f[n] = f[n - 1] + hq[n].overflow
      /\ \A m, n \in 0 .. NumQueues : m <= n => f[m] <= f[n]
      /\ q \in Nat /\ q >= 1 /\ q <= NumQueues /\ NumQueues \in Nat
      /\ \A n \in Queues : hq[n].overflow \in Nat
      /\ cnt \in Nat
  <2>1. q \in Nat /\ q >= 1 /\ q <= NumQueues
    BY Constants DEF Queues
  <2> QED BY <2>1, SumsAre
<1>2. /\ q \in 0 .. NumQueues /\ q - 1 \in 0 .. NumQueues /\ f[q] \in Nat /\ f[q - 1] \in Nat
      /\ f[q] = f[q - 1] + cnt
  BY <1>1
<1> HIDE DEF cnt
<1>3. ASSUME NEW n \in 0 .. NumQueues
      PROVE  /\ n \in Nat /\ f[n] \in Nat
             /\ n >= q => f[n] - cnt \in Nat /\ f[n] - cnt >= f[q - 1]
             /\ n < q => f[n] <= f[q - 1]
  BY <1>1, <1>2
<1>4. g \in [0 .. NumQueues -> Nat] /\ g[0] = 0
  BY <1>1, <1>3
<1>5. ASSUME NEW n \in Queues PROVE g[n] = g[n - 1] + hq'[n].overflow
  <2>1. /\ n \in 0 .. NumQueues /\ n - 1 \in 0 .. NumQueues /\ n \in Nat
        /\ f[n] \in Nat /\ f[n - 1] \in Nat /\ hq[n].overflow \in Nat
        /\ f[n] = f[n - 1] + hq[n].overflow
    BY <1>1 DEF Queues
  <2>2. CASE n < q
    BY <1>1, <2>1, <2>2
  <2>3. CASE n = q
    <3>1. g[n] = f[q] - cnt /\ hq'[n].overflow = 0
      BY <2>1, <2>3
    <3>2. g[n - 1] = f[q - 1]
      BY <1>1, <2>1, <2>3
    <3>3. cnt \in Nat
      BY <1>1
    <3> HIDE DEF g
    <3> QED BY <1>2, <3>1, <3>2, <3>3
  <2>4. CASE n > q
    <3>1. n >= q /\ n # q
      BY <1>1, <2>1, <2>4
    <3>2. g[n] = f[n] - cnt
      BY <2>1, <3>1
    <3>3. hq'[n].overflow = hq[n].overflow
      BY <3>1
    <3>4. n - 1 >= q
      BY <1>1, <2>1, <2>4
    <3>5. g[n - 1] = f[n - 1] - cnt
      BY <2>1, <3>4
    <3> QED BY <1>1, <2>1, <3>2, <3>3, <3>5
  <2> QED BY <1>1, <2>1, <2>2, <2>3, <2>4
<1>6. ASSUME NEW m \in 0 .. NumQueues, NEW n \in 0 .. NumQueues, m <= n PROVE g[m] <= g[n]
  <2>1. f[m] <= f[n] /\ m \in Nat /\ n \in Nat
    BY <1>1, <1>6
  <2>0. q \in Nat /\ f[m] \in Nat /\ f[n] \in Nat /\ f[q - 1] \in Nat /\ cnt \in Nat
    BY <1>1, <1>2
  <2>2. CASE m >= q
    <3>1. g[m] = f[m] - cnt /\ g[n] = f[n] - cnt
      BY <1>6, <2>0, <2>1, <2>2
    <3> QED BY <2>0, <2>1, <3>1
  <2>3. CASE n < q
    BY <1>6, <2>0, <2>1, <2>3
  <2>4. CASE m < q /\ n >= q
    <3>1. g[m] = f[m] /\ g[n] = f[n] - cnt
      BY <2>0, <2>1, <2>4
    <3>2. f[m] <= f[q - 1] /\ f[n] - cnt >= f[q - 1]
      BY <1>3, <2>4
    <3> QED BY <2>0, <3>1, <3>2
  <2> QED BY <2>0, <2>1, <2>2, <2>3, <2>4
<1>7. g[NumQueues] = f[NumQueues] - cnt
  BY <1>1
<1> HIDE DEF g
<1>8. g \in Sums'
  BY <1>4, <1>5, <1>6 DEF Sums
<1> QED BY <1>7, <1>8 DEF cnt
LEMMA SumsKept ==
  ASSUME \A q \in Queues : hq'[q].overflow = hq[q].overflow
  PROVE  Sums' = Sums
  BY DEF Sums

\* Frames are handled without a look at the counters.
LEMMA HandlesIs ==
  ASSUME FramesInv, NEW p \in Ports, Handles(p)
  PROVE  /\ Others(p) /\ poll[p].pc \notin {"idle", "reset"} /\ poll'[p].pc # "reset"
         /\ UNCHANGED <<drops, overErrors>>
         /\ \A q \in Queues : hq'[q].overflow = hq[q].overflow
<1>0. Typed
  BY DEF FramesInv
<1>1. /\ poll[p].i \in Queues /\ poll[p].rd \in Slots /\ poll[p].wr \in Slots
      /\ poll[p].upd \in Slots /\ hq[poll[p].i] \in HostQueue
  BY <1>0, PollTypes
<1>2. CASE ReadDescriptor(p)
  BY <1>0, <1>2, ReadDescriptorIs DEF ReadDescriptor, At, history, tally
<1>3. CASE Packet(p)
  BY <1>0, <1>3, PacketIs, DeliverIs DEF Packet, At
<1>4. CASE ClearDescriptor(p)
  <2>1. /\ poll[p].pc = "clear" /\ poll'[p].pc = "move" /\ Others(p)
        /\ UNCHANGED <<drops, overErrors>>
        /\ hq' = [hq EXCEPT ![poll[p].i].len[poll[p].rd] = "zero"]
    BY <1>0, <1>4, GotoIs DEF ClearDescriptor, At, Labels, history, tally
  <2>2. /\ hq'[poll[p].i] = [hq[poll[p].i] EXCEPT !.len = [@ EXCEPT ![poll[p].rd] = "zero"]]
        /\ \A o \in Queues : o # poll[p].i => hq'[o] = hq[o]
    BY <1>0, <1>1, <2>1, ClearIs
  <2>3. hq'[poll[p].i].overflow = hq[poll[p].i].overflow
    BY <1>1, <2>2 DEF HostQueue
  <2> QED BY <2>1, <2>2, <2>3
<1>5. CASE MovePointer(p)
  <2>1. /\ poll[p].pc = "move" /\ UNCHANGED <<drops, overErrors>>
        /\ hq' = [hq EXCEPT ![poll[p].i].rd = poll[p].upd]
        /\ Goto(p, "return") \/ Proceed(p, poll[p].upd, poll[p].wr)
    BY <1>5 DEF MovePointer, At
  <2>2. Others(p) /\ poll'[p].pc # "reset"
    <3>1. CASE Goto(p, "return")
      BY <1>0, <3>1, GotoIs DEF Labels
    <3>2. CASE Proceed(p, poll[p].upd, poll[p].wr)
      BY <1>0, <1>1, <3>2, ProceedIs
    <3> QED BY <2>1, <3>1, <3>2
  <2>3. /\ hq'[poll[p].i] = [hq[poll[p].i] EXCEPT !.rd = poll[p].upd]
        /\ \A o \in Queues : o # poll[p].i => hq'[o] = hq[o]
    BY <1>0, <1>1, <2>1, MoveIs
  <2>4. hq'[poll[p].i].overflow = hq[poll[p].i].overflow
    BY <1>1, <2>3 DEF HostQueue
  <2> QED BY <2>1, <2>2, <2>3, <2>4
<1> QED BY <1>2, <1>3, <1>4, <1>5 DEF Handles

\* Every step keeps the account of the frames without room.
LEMMA CountedStep ==
  ASSUME ~Smp, FramesInv, Counted, [Next]_vars
  PROVE  Counted'
<1>0. Typed /\ drops \in Nat /\ overErrors \in Nat
  BY DEF FramesInv, Counted
<1>1. PICK f \in Sums :
        /\ (\A p \in Ports : poll[p].pc # "reset") => f[NumQueues] + overErrors <= drops
        /\ \A p \in Ports : poll[p].pc = "reset" =>
             /\ poll[p].count <= hq[poll[p].i].overflow
             /\ f[NumQueues] + overErrors <= drops + poll[p].count
  BY DEF Counted
<1>2. f[NumQueues] \in Nat /\ \A q \in Queues : hq[q].overflow \in Nat
  BY <1>0, Constants DEF Sums, Typed, HostQueue
<1> USE DEF history, tally, napi
<1>3. ASSUME \A q \in Queues : hq'[q].overflow = hq[q].overflow, UNCHANGED <<drops, overErrors>>,
             poll' = poll \/ \E p \in Ports : /\ Alone(p) /\ poll[p].pc # "reset"
                                              /\ poll'[p].pc # "reset"
      PROVE  Counted'
  <2>1. Sums' = Sums
    BY <1>3, SumsKept
  <2>2. CASE poll' = poll
    <3>1. \A p \in Ports : poll[p].i \in Queues
      BY <1>0, PollTypes
    <3> QED BY <1>0, <1>1, <1>3, <2>1, <2>2, <3>1 DEF Counted
  <2>3. ASSUME NEW p \in Ports, Alone(p), poll[p].pc # "reset", poll'[p].pc # "reset"
        PROVE  Counted'
    <3>1. \A o \in Ports : poll[o].pc # "reset" /\ poll'[o].pc # "reset"
      BY <2>3 DEF Alone, Others
    <3> QED BY <1>0, <1>1, <1>3, <2>1, <3>1 DEF Counted
  <2> QED BY <1>3, <2>2, <2>3
<1>4. ASSUME NEW p \in Ports, NEW q \in Queues, Receive(p, q) PROVE Counted'
  <2>1. poll' = poll /\ overErrors' = overErrors
    BY <1>4 DEF Receive
  <2>2. CASE Succ(hq[q].wr) = hq[q].rd
    <3>1. hq' = [hq EXCEPT ![q].overflow = hq[q].overflow + 1] /\ drops' = drops + 1
      BY <1>4, <2>2 DEF Receive
    <3>2. /\ hq'[q] = [hq[q] EXCEPT !.overflow = hq[q].overflow + 1] /\ hq[q] \in HostQueue
          /\ \A o \in Queues : o # q => hq'[o] = hq[o]
      BY <1>0, <1>2, <3>1, CountIs DEF Typed
    <3>3. /\ hq'[q].overflow = hq[q].overflow + 1
          /\ \A o \in Queues : o # q => hq'[o].overflow = hq[o].overflow
      BY <3>2 DEF HostQueue
    <3>4. PICK g \in Sums' : g[NumQueues] = f[NumQueues] + 1
      BY <1>0, <3>3, SumsGrow
    <3>5. ASSUME NEW o \in Ports, poll[o].pc = "reset"
          PROVE  /\ poll[o].count <= hq'[poll[o].i].overflow
                 /\ g[NumQueues] + overErrors <= drops + 1 + poll[o].count
      <4>1. poll[o].i \in Queues /\ poll[o].count \in Nat
        BY <1>0 DEF Typed, PollState
      <4>2. hq'[poll[o].i].overflow \in {hq[poll[o].i].overflow, hq[poll[o].i].overflow + 1}
        BY <3>3, <4>1
      <4>3. hq[poll[o].i].overflow \in Nat
        BY <1>2, <4>1
      <4>4. poll[o].count <= hq[poll[o].i].overflow
            /\ f[NumQueues] + overErrors <= drops + poll[o].count
        BY <1>1, <3>5
      <4> QED BY <1>0, <1>2, <3>4, <4>1, <4>2, <4>3, <4>4
    <3>6. (\A o \in Ports : poll[o].pc # "reset") => g[NumQueues] + overErrors <= drops + 1
      BY <1>0, <1>1, <1>2, <3>4
    <3>7. drops' \in Nat
      BY <1>0, <3>1
    <3> QED BY <1>0, <2>1, <3>1, <3>5, <3>6, <3>7 DEF Counted
  <2>3. CASE Succ(hq[q].wr) # hq[q].rd
    <3>1. drops' = drops
      BY <1>4, <2>3 DEF Receive
    <3>2. \A o \in Queues : hq'[o].overflow = hq[o].overflow
      BY <1>0, <1>4, <2>3, ReceiveIs
    <3> QED BY <1>3, <2>1, <3>1, <3>2
  <2> QED BY <2>2, <2>3
<1>5. ASSUME NEW p \in Ports, ReadOverflow(p) PROVE Counted'
  <2> DEFINE cnt == hq[poll[p].i].overflow
  <2>1. /\ poll[p].pc = "overflow" /\ overErrors' = overErrors + cnt
        /\ UNCHANGED <<hq, drops>>
    BY <1>5 DEF ReadOverflow, At
  <2>2. /\ Others(p) /\ poll'[p].i = poll[p].i /\ poll'[p].count = cnt
        /\ poll'[p].pc = "reset" <=> cnt > 0
    BY <1>0, <1>5, ReadOverflowIs
  <2>3. poll[p].i \in Queues /\ cnt \in Nat
    BY <1>0, <1>2, PollTypes
  <2>4. \A o \in Ports : poll[o].pc # "reset" /\ (o # p => poll'[o].pc # "reset")
    BY <2>1, <2>2 DEF FramesInv, PollAlone, Others
  <2>5. f[NumQueues] + overErrors <= drops
    BY <1>1, <2>4
  <2>6. Sums' = Sums
    BY <2>1, SumsKept
  <2>7. poll'[p].pc = "reset" =>
          /\ poll'[p].count <= hq'[poll'[p].i].overflow
          /\ f[NumQueues] + overErrors' <= drops' + poll'[p].count
    BY <1>0, <1>2, <2>1, <2>2, <2>3, <2>5
  <2>8. poll'[p].pc # "reset" => f[NumQueues] + overErrors' <= drops'
    BY <1>0, <1>2, <2>1, <2>2, <2>3, <2>5
  <2>9. overErrors' \in Nat /\ drops' \in Nat
    BY <1>0, <2>1, <2>3
  <2> HIDE DEF cnt
  <2> QED BY <2>4, <2>6, <2>7, <2>8, <2>9 DEF Counted
<1>6. ASSUME NEW p \in Ports, ResetOverflow(p) PROVE Counted'
  <2>1. /\ poll[p].pc = "reset" /\ UNCHANGED <<drops, overErrors>>
        /\ Others(p) /\ poll'[p].pc = "pointers"
    BY <1>0, <1>6, GotoIs DEF ResetOverflow, At, Labels
  <2>2. poll[p].i \in Queues /\ hq[poll[p].i] \in HostQueue /\ poll[p].count \in Nat
    BY <1>0, PollTypes DEF PollState
  <2>3. /\ hq'[poll[p].i] = [hq[poll[p].i] EXCEPT !.overflow = 0]
        /\ \A o \in Queues : o # poll[p].i => hq'[o] = hq[o]
    BY <1>0, <1>6, <2>2, CountIs DEF ResetOverflow
  <2>4. hq'[poll[p].i].overflow = 0
    BY <2>2, <2>3 DEF HostQueue
  <2>5. PICK g \in Sums' : g[NumQueues] = f[NumQueues] - hq[poll[p].i].overflow
    <3>1. \A o \in Queues : o # poll[p].i => hq'[o].overflow = hq[o].overflow
      BY <2>3
    <3> QED BY <1>0, <2>2, <2>4, <3>1, SumsShrink
  <2>6. \A o \in Ports : poll'[o].pc # "reset"
    BY <2>1 DEF FramesInv, PollAlone, Others
  <2>7. g[NumQueues] + overErrors <= drops
    <3>1. /\ poll[p].count <= hq[poll[p].i].overflow
          /\ f[NumQueues] + overErrors <= drops + poll[p].count
      BY <1>1, <2>1
    <3> QED BY <1>0, <1>2, <2>2, <2>5, <3>1
  <2> QED BY <1>0, <2>1, <2>5, <2>6, <2>7 DEF Counted
<1>7. ASSUME NEW p \in Ports, Alone(p), Handles(p) PROVE Counted'
  <2>1. poll[p].pc # "reset" /\ poll'[p].pc # "reset"
    BY <1>0, <1>7, HandlesIs
  <2>2. /\ \A q \in Queues : hq'[q].overflow = hq[q].overflow
        /\ UNCHANGED <<drops, overErrors>>
    BY <1>0, <1>7, HandlesIs
  <2> QED BY <1>3, <1>7, <2>1, <2>2
<1>8. ASSUME NEW p \in Ports, poll[p].pc # "idle", Others(p) PROVE Alone(p)
  BY <1>8 DEF FramesInv, PollAlone, Alone
<1>9. ASSUME NEW p \in Ports, RxIrq(p) PROVE Counted'
  BY <1>3, <1>9 DEF RxIrq
<1>10. ASSUME NEW p \in Ports, Poll(p) PROVE Counted'
  <2>1. Alone(p)
    BY <1>0, <1>10, PollIs DEF Poll, Alone, At
  <2>2. poll'[p].pc = "overflow" /\ poll[p].pc = "idle"
    BY <1>0, <1>10, PollIs, PollTypes DEF Poll, At, PollState
  <2> QED BY <1>3, <1>10, <2>1, <2>2 DEF Poll
<1>11. ASSUME NEW p \in Ports, ReadPointers(p) PROVE Counted'
  <2>1. Others(p) /\ poll[p].pc = "pointers" /\ poll'[p].pc # "reset"
    BY <1>0, <1>11, PollTypes, ProceedIs DEF ReadPointers, At
  <2> QED BY <1>3, <1>8, <1>11, <2>1 DEF ReadPointers
<1>12. ASSUME NEW p \in Ports, PacketFails(p) PROVE Counted'
  <2>1. Others(p) /\ poll[p].pc = "packet" /\ poll'[p].pc = "return"
    BY <1>0, <1>12, GiveUpIs, PollTypes DEF PacketFails, GiveUp, At, PollState
  <2> QED BY <1>3, <1>8, <1>12, <2>1 DEF PacketFails
<1>13. ASSUME NEW p \in Ports, Return(p) PROVE Counted'
  <2>1. poll[p].pc = "return" /\ (Goto(p, "idle") \/ Goto(p, "unmask"))
    BY <1>13 DEF Return, At
  <2>2. Others(p) /\ poll'[p].pc # "reset"
    BY <1>0, <2>1, GotoIs DEF Labels
  <2> QED BY <1>3, <1>8, <1>13, <2>1, <2>2 DEF Return
<1>14. ASSUME NEW p \in Ports, Unmask(p) PROVE Counted'
  <2>1. Others(p) /\ poll[p].pc = "unmask" /\ poll'[p].pc = "idle"
    BY <1>0, <1>14, GotoIs DEF Unmask, At, Labels
  <2> QED BY <1>3, <1>8, <1>14, <2>1 DEF Unmask
<1>15. CASE UNCHANGED vars
  BY <1>3, <1>15 DEF vars
<1>16. ASSUME NEW p \in Ports, Handles(p) PROVE Counted'
  <2>1. poll[p].pc # "idle" /\ Others(p)
    BY <1>0, <1>16, HandlesIs
  <2> QED BY <1>7, <1>8, <1>16, <2>1
<1> QED
  <2> USE DEF Next, Step, Handles
  <2> QED BY <1>4, <1>5, <1>6, <1>9, <1>10, <1>11, <1>12, <1>13, <1>14, <1>15, <1>16

\* rx_over_errors, into which emac_rx_packets() adds up the overflow_cnt of
\* the host queues, never counts a frame that the firmware had room for.
THEOREM NeverOvercountsAlways == ASSUME ~Smp PROVE Spec => []NeverOvercounts
<1>1. Init => FramesInv
  BY FramesInit
<1>2. Init => Counted
  <2> SUFFICES ASSUME Init PROVE Counted
    OBVIOUS
  <2> DEFINE f == [n \in 0 .. NumQueues |-> 0]
  <2>1. \A q \in Queues : hq[q].overflow = 0
    BY DEF Init
  <2>2. NumQueues \in Nat
    BY Constants
  <2>3. f \in Sums /\ f[NumQueues] = 0
    BY <2>1, <2>2 DEF Sums, Queues
  <2>4. \A p \in Ports : poll[p].pc = "idle"
    BY DEF Init
  <2>5. drops = 0 /\ overErrors = 0
    BY DEF Init
  <2> HIDE DEF f
  <2> QED BY <2>3, <2>4, <2>5 DEF Counted
<1>3. FramesInv /\ Counted /\ [Next]_vars => (FramesInv /\ Counted)'
  BY FramesStep, CountedStep
<1>4. FramesInv /\ Counted => NeverOvercounts
  <2> SUFFICES ASSUME FramesInv, Counted PROVE NeverOvercounts
    OBVIOUS
  <2>1. PICK f \in Sums :
          /\ (\A p \in Ports : poll[p].pc # "reset") => f[NumQueues] + overErrors <= drops
          /\ \A p \in Ports : poll[p].pc = "reset" =>
               /\ poll[p].count <= hq[poll[p].i].overflow
               /\ f[NumQueues] + overErrors <= drops + poll[p].count
    BY DEF Counted
  <2>2. /\ NumQueues \in Nat /\ f[NumQueues] \in Nat /\ drops \in Nat /\ overErrors \in Nat
        /\ \A n \in 0 .. NumQueues : f[n] \in Nat /\ f[n] <= f[NumQueues]
    BY Constants DEF Sums, Counted
  <2>3. CASE \A p \in Ports : poll[p].pc # "reset"
    BY <2>1, <2>2, <2>3 DEF NeverOvercounts
  <2>4. ASSUME NEW p \in Ports, poll[p].pc = "reset" PROVE NeverOvercounts
    <3> DEFINE i == poll[p].i
    <3>1. i \in Queues /\ poll[p].count \in Nat /\ hq[i].overflow \in Nat
      <4>1. i \in Queues /\ poll[p] \in PollState /\ hq[i] \in HostQueue
        BY PollTypes DEF FramesInv
      <4> QED BY <4>1 DEF PollState, HostQueue
    <3>2. i \in 0 .. NumQueues /\ i - 1 \in 0 .. NumQueues /\ f[i] = f[i - 1] + hq[i].overflow
      <4>1. i \in Queues /\ f[i] = f[i - 1] + hq[i].overflow BY <3>1 DEF Sums
      <4> HIDE DEF i
      <4>2. i \in 0 .. NumQueues /\ i - 1 \in 0 .. NumQueues BY <2>2, <4>1 DEF Queues
      <4> QED BY <4>1, <4>2
    <3>3. poll[p].count <= hq[i].overflow /\ f[NumQueues] + overErrors <= drops + poll[p].count
      BY <2>1, <2>4
    <3>4. f[i] \in Nat /\ f[i - 1] \in Nat /\ f[i] <= f[NumQueues]
      BY <2>2, <3>2
    <3> HIDE DEF i
    <3> QED BY <2>2, <3>1, <3>2, <3>3, <3>4 DEF NeverOvercounts
  <2> QED BY <2>3, <2>4
<1> QED BY <1>1, <1>2, <1>3, <1>4, PTL DEF Spec
=============================================================================

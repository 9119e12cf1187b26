---------------------------- MODULE Small_proofs -----------------------------
(***************************************************************************)
(* The proofs about four components that need few: the transmit path above *)
(* the rings (EmacXmit), the copying of frames (PruethFrameCopy), the echo *)
(* server (EchoServer) and the binding of the driver to its device         *)
(* (PruethProbe).  They have nothing to do with each other.                *)
(***************************************************************************)
EXTENDS EmacXmit, PruethFrameCopy, EchoServer, PruethProbe, FiniteSetTheorems, TLAPS

-----------------------------------------------------------------------------
(* EmacXmit: the transmit path above the rings, for every set of frames,   *)
(* every set of rings of any size, and every choice of interrupts.         *)

\* The types that need no argument: all but the number of times a frame has
\* been freed.
Typed ==
  /\ qdisc \in Seq(Skbs)
  /\ pc \in {"idle", "link", "enqueue", "free", "nobufs"}
  /\ skb \in Skbs
  /\ {link, adjust, carrier, stopped} \subseteq BOOLEAN
  /\ hw \in [Queues -> Seq(Skbs)]
  /\ requested \subseteq Irqs
  /\ irq \subseteq requested
  /\ why \in {"none", "full", "link"}
  /\ fate \in [Skbs -> Fates]
  /\ freed \in [Skbs -> Nat]
  /\ padFailed \subseteq Skbs

USE XmitAssumption

\* What ReturnBusy does to the queue of the stack: the frame is the first one
\* and the others are one place further back.
LEMMA PutBack ==
  ASSUME NEW S, NEW s \in S, NEW q \in Seq(S)
  PROVE  LET r == <<s>> \o q
         IN /\ r \in Seq(S)
            /\ Len(r) = Len(q) + 1
            /\ r[1] = s
            /\ \A i \in 1 .. Len(q) : r[i + 1] = q[i]
<1>1. <<s>> \in Seq(S) /\ Len(<<s>>) = 1 /\ <<s>>[1] = s
  OBVIOUS
<1> QED BY <1>1

\* Every variable of the transmit path keeps its type (weakly).
LEMMA Typing == Spec => []Typed
<1>1. Init => Typed
  <2> SUFFICES ASSUME Init PROVE Typed
    OBVIOUS
  <2>1. <<>> \in Seq(Skbs)
    OBVIOUS
  <2>2. hw \in [Queues -> Seq(Skbs)]
    BY <2>1 DEF Init
  <2>3. fate \in [Skbs -> Fates] /\ freed \in [Skbs -> Nat]
    BY DEF Init, Fates
  <2> QED BY <2>1, <2>2, <2>3 DEF Init, Typed
<1>2. Typed /\ [Next]_vars => Typed'
  <2> SUFFICES ASSUME Typed, [Next]_vars PROVE Typed'
    OBVIOUS
  <2> USE DEF Typed, stack, flow, config, device, frames, Fates
  <2>1. ASSUME NEW s \in Skbs, Send(s) PROVE Typed'
    BY <2>1 DEF Send
  <2>2. CASE StartXmit
    BY <2>2 DEF StartXmit
  <2>3. CASE CheckLink
    BY <2>3 DEF CheckLink, ReturnDone
  <2>4. CASE Enqueue
    <3>1. QueueOf[skb] \in Queues /\ hw[QueueOf[skb]] \in Seq(Skbs)
      OBVIOUS
    <3>2. Append(hw[QueueOf[skb]], skb) \in Seq(Skbs)
      BY <3>1
    <3> QED BY <2>4, <3>1, <3>2 DEF Enqueue
  <2>5. CASE PadFails
    <3>1. freed' \in [Skbs -> Nat] /\ padFailed' \subseteq Skbs
      BY <2>5 DEF PadFails
    <3>2. fate' \in [Skbs -> Fates]
      BY <2>5 DEF PadFails
    <3>3. pc' \in {"idle", "free", "nobufs"} /\ UNCHANGED <<qdisc, skb, flow, device>>
      BY <2>5 DEF PadFails, ReturnDone
    <3> QED BY <3>1, <3>2, <3>3
  <2>6. CASE FreeSkb
    BY <2>6 DEF FreeSkb, ReturnDone
  <2>7. CASE NoBufs
    <3>1. qdisc' \in Seq(Skbs)
      BY <2>7, PutBack DEF NoBufs, ReturnBusy
    <3> QED BY <2>7, <3>1 DEF NoBufs, ReturnBusy, StopQueue
  <2>8. ASSUME NEW q \in Queues, FwTransmit(q) PROVE Typed'
    BY <2>8, SMTT(20) DEF FwTransmit
  <2>9. ASSUME NEW i \in Irqs, TxIrq(i) PROVE Typed'
    BY <2>9 DEF TxIrq, WakeQueue
  <2>10. ASSUME NEW up \in BOOLEAN, LinkState(up) PROVE Typed'
    BY <2>10 DEF LinkState
  <2>11. CASE LinkQueue
    BY <2>11 DEF LinkQueue, WakeQueue, StopQueue
  <2>12. CASE TxTimeout
    BY <2>12 DEF TxTimeout, WakeQueue
  <2>13. CASE UNCHANGED vars
    BY <2>13 DEF vars
  <2> QED BY <2>1, <2>2, <2>3, <2>4, <2>5, <2>6, <2>7, <2>8, <2>9, <2>10, <2>11,
             <2>12, <2>13 DEF Next
<1> QED BY <1>1, <1>2, PTL DEF Spec

-----------------------------------------------------------------------------
\* The stack queues a new frame.
LEMMA SendKeeps ==
  ASSUME Typed, FrameInv, NEW x \in Skbs, Send(x)
  PROVE  FrameInv'
<1> USE DEF Typed, FrameInv, flow, device, config
<1>1. /\ Len(qdisc) \in Nat
      /\ DOMAIN qdisc = 1 .. Len(qdisc)
      /\ DOMAIN qdisc' = 1 .. Len(qdisc) + 1
      /\ qdisc'[Len(qdisc) + 1] = x
      /\ \A i \in 1 .. Len(qdisc) : qdisc'[i] = qdisc[i]
  BY DEF Send
<1> HIDE DEF Typed
<1>2. ~InQdisc(x) /\ ~Current(x) /\ ~InHw(x) /\ x \notin padFailed
  BY DEF Send, NewInv
<1>3. QdiscInv'
  <2>1. \A i \in DOMAIN qdisc : qdisc[i] # x
    BY <1>2 DEF InQdisc
  <2>2. ASSUME NEW i \in DOMAIN qdisc', NEW j \in DOMAIN qdisc', qdisc'[i] = qdisc'[j]
        PROVE  i = j
    <3>1. CASE i \in DOMAIN qdisc /\ j \in DOMAIN qdisc
      BY <1>1, <2>2, <3>1 DEF QdiscInv
    <3>2. CASE i \notin DOMAIN qdisc
      <4>1. i = Len(qdisc) + 1
        BY <1>1, <3>2
      <4> QED BY <1>1, <2>1, <2>2, <4>1
    <3>3. CASE j \notin DOMAIN qdisc
      <4>1. j = Len(qdisc) + 1
        BY <1>1, <3>3
      <4> QED BY <1>1, <2>1, <2>2, <4>1
    <3> QED BY <3>1, <3>2, <3>3
  <2>3. \A s : Current(s)' <=> Current(s)
    BY DEF Current, Send
  <2>4. ASSUME NEW i \in DOMAIN qdisc' PROVE ~Current(qdisc'[i])
    <3>1. CASE i \in DOMAIN qdisc
      BY <1>1, <3>1 DEF QdiscInv
    <3>2. CASE i \notin DOMAIN qdisc
      <4>1. i = Len(qdisc) + 1
        BY <1>1, <3>2
      <4> QED BY <1>1, <1>2, <4>1
    <3> QED BY <3>1, <3>2
  <2> QED BY <2>2, <2>3, <2>4 DEF QdiscInv, Current
<1>4. HwInv'
  BY DEF HwInv, Send
<1>5. ASSUME NEW s \in Skbs
      PROVE  NewInv(s)' /\ PlaceInv(s)' /\ FreedInv(s)'
  <2>1. InQdisc(s)' <=> InQdisc(s) \/ s = x
    <3>1. InQdisc(s) => InQdisc(s)'
      BY <1>1 DEF InQdisc
    <3>2. InQdisc(x)'
      <4>1. Len(qdisc) + 1 \in DOMAIN qdisc'
        BY <1>1
      <4> QED BY <1>1, <4>1 DEF InQdisc
    <3>3. ASSUME NEW i \in DOMAIN qdisc', qdisc'[i] = s, s # x PROVE InQdisc(s)
      <4>1. i \in 1 .. Len(qdisc)
        BY <1>1, <3>3
      <4> QED BY <1>1, <3>3, <4>1 DEF InQdisc
    <3> QED BY <3>1, <3>2, <3>3 DEF InQdisc
  <2>2. (Current(s)' <=> Current(s)) /\ (InHw(s)' <=> InHw(s))
    BY DEF Current, InHw, Send
  <2>3. fate'[s] = IF s = x THEN "waiting" ELSE fate[s]
    BY DEF Send, Typed
  <2>4. NewInv(s) /\ PlaceInv(s) /\ FreedInv(s) /\ NewInv(x) /\ FreedInv(x)
    OBVIOUS
  <2>5. fate[x] = "new" /\ UNCHANGED <<freed, padFailed, pc>>
    BY DEF Send
  <2> QED BY <1>2, <2>1, <2>2, <2>3, <2>4, <2>5 DEF NewInv, PlaceInv, FreedInv, Given
<1> QED BY <1>3, <1>4, <1>5

\* start_xmit is called with the first frame of the queue.
LEMMA StartXmitKeeps ==
  ASSUME Typed, FrameInv, StartXmit
  PROVE  FrameInv'
<1> USE DEF Typed, FrameInv, flow, device, config, frames
<1>1. /\ Len(qdisc) \in Nat \ {0}
      /\ DOMAIN qdisc = 1 .. Len(qdisc)
      /\ DOMAIN qdisc' = 1 .. Len(qdisc) - 1
      /\ skb' = qdisc[1] /\ skb' \in Skbs
      /\ \A i \in 1 .. Len(qdisc) - 1 : qdisc'[i] = qdisc[i + 1]
  BY DEF StartXmit
<1> HIDE DEF Typed
<1>2. pc = "idle" /\ pc' = "link" /\ UNCHANGED <<hw, fate, freed, padFailed>>
  BY DEF StartXmit
<1>3. QdiscInv'
  <2>1. \A i, j \in DOMAIN qdisc' : qdisc'[i] = qdisc'[j] => i = j
    <3> SUFFICES ASSUME NEW i \in DOMAIN qdisc', NEW j \in DOMAIN qdisc',
                        qdisc'[i] = qdisc'[j]
                 PROVE  i = j
      OBVIOUS
    <3>1. i \in Nat /\ j \in Nat /\ i + 1 \in DOMAIN qdisc /\ j + 1 \in DOMAIN qdisc
      BY <1>1
    <3>2. qdisc[i + 1] = qdisc[j + 1]
      BY <1>1
    <3>3. i + 1 = j + 1
      BY <3>1, <3>2 DEF QdiscInv
    <3> QED BY <3>1, <3>3
  <2>2. \A i \in DOMAIN qdisc' : qdisc'[i] # skb'
    <3> SUFFICES ASSUME NEW i \in DOMAIN qdisc', qdisc'[i] = skb'
                 PROVE  FALSE
      OBVIOUS
    <3>1. i \in Nat \ {0} /\ i + 1 \in DOMAIN qdisc /\ 1 \in DOMAIN qdisc
      BY <1>1
    <3>2. qdisc[i + 1] = qdisc[1]
      BY <1>1
    <3>3. i + 1 = 1
      BY <3>1, <3>2 DEF QdiscInv
    <3> QED BY <3>1, <3>3
  <2> QED BY <2>1, <2>2 DEF QdiscInv, Current
<1>4. HwInv'
  BY <1>2 DEF HwInv
<1>5. ASSUME NEW s \in Skbs
      PROVE  NewInv(s)' /\ PlaceInv(s)' /\ FreedInv(s)'
  <2>1. InQdisc(s) <=> InQdisc(s)' \/ s = skb'
    <3>1. ASSUME NEW i \in DOMAIN qdisc', qdisc'[i] = s PROVE InQdisc(s)
      <4>1. i + 1 \in DOMAIN qdisc
        BY <1>1
      <4> QED BY <1>1, <3>1, <4>1 DEF InQdisc
    <3>2. s = skb' => InQdisc(s)
      <4>1. 1 \in DOMAIN qdisc
        BY <1>1
      <4> QED BY <1>1, <4>1 DEF InQdisc
    <3>3. ASSUME NEW i \in DOMAIN qdisc, qdisc[i] = s, s # skb'
          PROVE  InQdisc(s)'
      <4>1. i # 1 /\ i \in Nat
        BY <1>1, <3>3
      <4>2. i - 1 \in DOMAIN qdisc' /\ (i - 1) + 1 = i
        BY <1>1, <4>1
      <4> QED BY <1>1, <3>3, <4>2 DEF InQdisc
    <3> QED BY <3>1, <3>2, <3>3 DEF InQdisc
  <2>2. ~Current(s) /\ (Current(s)' <=> s = skb') /\ (InHw(s)' <=> InHw(s))
    BY <1>2 DEF Current, InHw
  <2>3. NewInv(s) /\ PlaceInv(s) /\ FreedInv(s)
    OBVIOUS
  <2> QED BY <1>2, <2>1, <2>2, <2>3 DEF NewInv, PlaceInv, FreedInv, Given
<1> QED BY <1>3, <1>4, <1>5

\* What the steps of start_xmit that leave queue and rings alone have in
\* common: only the frame in its hands changes.
LEMMA HandsOnly ==
  ASSUME Typed, FrameInv, pc # "idle",
         UNCHANGED <<qdisc, skb, hw>>, padFailed \subseteq padFailed',
         NewInv(skb)', PlaceInv(skb)', FreedInv(skb)',
         \A s \in Skbs \ {skb} : /\ fate'[s] = fate[s] /\ freed'[s] = freed[s]
                                 /\ s \in padFailed' <=> s \in padFailed
  PROVE  FrameInv'
<1> USE DEF Typed, FrameInv
<1>1. QdiscInv'
  BY DEF QdiscInv, Current
<1>2. HwInv'
  BY DEF HwInv
<1>3. ASSUME NEW s \in Skbs \ {skb}
      PROVE  NewInv(s)' /\ PlaceInv(s)' /\ FreedInv(s)'
  <2>1. ~Current(s) /\ ~Current(s)'
    BY DEF Current
  <2>2. (InQdisc(s)' <=> InQdisc(s)) /\ (InHw(s)' <=> InHw(s))
    BY DEF InQdisc, InHw
  <2>3. NewInv(s) /\ PlaceInv(s) /\ FreedInv(s)
    OBVIOUS
  <2> QED BY <2>1, <2>2, <2>3 DEF NewInv, PlaceInv, FreedInv, Given
<1> QED BY <1>1, <1>2, <1>3

\* Without a link the frame is dropped and never freed.
LEMMA CheckLinkKeeps ==
  ASSUME Typed, FrameInv, CheckLink
  PROVE  FrameInv'
<1> USE DEF Typed, flow, device, config
<1>1. /\ pc = "link" /\ pc' \in {"enqueue", "idle"}
      /\ UNCHANGED <<qdisc, skb, hw, freed, padFailed>>
      /\ fate' = IF pc' = "enqueue" THEN fate ELSE [fate EXCEPT ![skb] = "dropped"]
  BY DEF CheckLink, ReturnDone
<1>2. NewInv(skb) /\ PlaceInv(skb) /\ FreedInv(skb) /\ Current(skb)
  BY <1>1 DEF FrameInv, Current
<1>3. (InQdisc(skb)' <=> InQdisc(skb)) /\ (InHw(skb)' <=> InHw(skb))
  BY <1>1 DEF InQdisc, InHw
<1>4. ~InQdisc(skb)
  BY <1>2 DEF FrameInv, QdiscInv, InQdisc
<1>5. NewInv(skb)' /\ PlaceInv(skb)' /\ FreedInv(skb)'
  BY <1>1, <1>2, <1>3, <1>4 DEF NewInv, PlaceInv, FreedInv, Given, Current
<1> QED BY <1>1, <1>5, HandsOnly

\* A frame that fits goes to its ring and is accepted.
LEMMA EnqueueKeeps ==
  ASSUME Typed, FrameInv, Enqueue
  PROVE  FrameInv'
<1> USE DEF Typed, flow, config
<1> DEFINE q == QueueOf[skb]
<1>1. /\ pc = "enqueue" /\ q \in Queues
      /\ UNCHANGED <<qdisc, skb, freed, padFailed>>
  BY DEF Enqueue
<1>2. NewInv(skb) /\ PlaceInv(skb) /\ FreedInv(skb) /\ Current(skb) /\ ~InQdisc(skb)
  BY <1>1 DEF FrameInv, Current, QdiscInv, InQdisc
<1>3. CASE pc' = "nobufs" /\ UNCHANGED <<hw, fate>>
  <2>1. (InQdisc(skb)' <=> InQdisc(skb)) /\ (InHw(skb)' <=> InHw(skb))
    BY <1>1, <1>3 DEF InQdisc, InHw
  <2>2. NewInv(skb)' /\ PlaceInv(skb)' /\ FreedInv(skb)'
    BY <1>1, <1>2, <1>3, <2>1 DEF NewInv, PlaceInv, FreedInv, Given, Current
  <2> QED BY <1>1, <1>3, <2>2, HandsOnly
<1>4. CASE /\ hw' = [hw EXCEPT ![q] = Append(@, skb)]
           /\ fate' = [fate EXCEPT ![skb] = "accepted"]
           /\ pc' = "free"
  <2> DEFINE old == hw[q]
             new == hw'[q]
  <2>1. /\ Len(old) \in Nat
        /\ DOMAIN old = 1 .. Len(old)
        /\ DOMAIN new = 1 .. Len(old) + 1
        /\ new[Len(old) + 1] = skb
        /\ \A i \in 1 .. Len(old) : new[i] = old[i]
        /\ \A p \in Queues \ {q} : hw'[p] = hw[p]
    BY <1>1, <1>4
  <2> HIDE DEF Typed, old, new
  <2>2. QdiscInv'
    BY <1>1, <1>4 DEF FrameInv, QdiscInv, Current
  <2>3. skb \in padFailed \/ \A i \in DOMAIN old : old[i] # skb
    BY <1>1, <1>2 DEF PlaceInv, Current, InHw, old
  <2>4. ASSUME NEW p \in Queues, NEW i \in DOMAIN hw'[p]
        PROVE  QueueOf[hw'[p][i]] = p
    <3>1. CASE p # q
      BY <2>1, <3>1 DEF FrameInv, HwInv
    <3>2. CASE p = q /\ i \in 1 .. Len(old)
      BY <1>1, <2>1, <3>2 DEF FrameInv, HwInv, old, new
    <3>3. CASE p = q /\ i = Len(old) + 1
      BY <2>1, <3>3 DEF new
    <3> QED BY <2>1, <3>1, <3>2, <3>3 DEF new
  <2>5. ASSUME NEW p \in Queues, NEW i \in DOMAIN hw'[p], NEW j \in DOMAIN hw'[p],
               hw'[p][i] = hw'[p][j], hw'[p][i] \notin padFailed
        PROVE  i = j
    <3>1. CASE p # q
      BY <2>1, <2>5, <3>1 DEF FrameInv, HwInv
    <3>2. CASE p = q /\ i \in DOMAIN old /\ j \in DOMAIN old
      BY <1>1, <2>1, <2>5, <3>2 DEF FrameInv, HwInv, old, new
    <3>3. CASE p = q /\ i \notin DOMAIN old
      <4>1. i = Len(old) + 1 /\ new[i] = skb
        BY <2>1, <3>3 DEF new
      <4>2. new[j] = skb /\ skb \notin padFailed
        BY <2>5, <3>3, <4>1 DEF new
      <4>3. j \notin 1 .. Len(old)
        BY <2>1, <2>3, <4>2
      <4> QED BY <2>1, <2>5, <3>3, <4>1, <4>3 DEF new
    <3>4. CASE p = q /\ j \notin DOMAIN old
      <4>1. j = Len(old) + 1 /\ new[j] = skb
        BY <2>1, <3>4 DEF new
      <4>2. new[i] = skb /\ skb \notin padFailed
        BY <2>5, <3>4, <4>1 DEF new
      <4>3. i \notin 1 .. Len(old)
        BY <2>1, <2>3, <4>2
      <4> QED BY <2>1, <2>5, <3>4, <4>1, <4>3 DEF new
    <3> QED BY <3>1, <3>2, <3>3, <3>4
  <2>6. HwInv'
    BY <1>1, <2>4, <2>5 DEF HwInv
  <2>7. ASSUME NEW s \in Skbs
        PROVE  NewInv(s)' /\ PlaceInv(s)' /\ FreedInv(s)'
    <3>1. InHw(s)' => InHw(s) \/ s = skb
      <4> SUFFICES ASSUME NEW p \in Queues, NEW i \in DOMAIN hw'[p], hw'[p][i] = s,
                          s # skb
                   PROVE  InHw(s)
        BY DEF InHw
      <4>1. CASE p # q
        BY <2>1, <4>1 DEF InHw
      <4>2. CASE p = q
        <5>1. i \in 1 .. Len(old)
          BY <2>1, <4>2 DEF new
        <5> QED BY <1>1, <2>1, <4>2, <5>1 DEF InHw, old, new
      <4> QED BY <4>1, <4>2
    <3>2. (InQdisc(s)' <=> InQdisc(s)) /\ (Current(s)' <=> Current(s))
      BY <1>1, <1>4 DEF InQdisc, Current
    <3>3. fate'[s] = IF s = skb THEN "accepted" ELSE fate[s]
      BY <1>4 DEF Typed
    <3>4. Current(s) <=> s = skb
      BY <1>1 DEF Current
    <3>5. NewInv(s) /\ PlaceInv(s) /\ FreedInv(s)
      BY DEF FrameInv
    <3> QED BY <1>1, <1>2, <1>4, <3>1, <3>2, <3>3, <3>4, <3>5
            DEF NewInv, PlaceInv, FreedInv, Given
  <2> QED BY <2>2, <2>6, <2>7 DEF FrameInv
<1> QED BY <1>3, <1>4 DEF Enqueue

\* A frame that eth_skb_pad() fails for has been freed, whatever its caller
\* takes the value returned for.
LEMMA PadFailsKeeps ==
  ASSUME Typed, FrameInv, PadFails
  PROVE  FrameInv'
<1> USE DEF Typed, flow, device, config
<1>1. /\ pc = "enqueue" /\ pc' \in {"free", "nobufs", "idle"}
      /\ UNCHANGED <<qdisc, skb, hw>>
      /\ skb \notin padFailed /\ padFailed' = padFailed \cup {skb}
      /\ freed' = [freed EXCEPT ![skb] = freed[skb] + 1]
      /\ fate'[skb] \in {fate[skb], "dropped"}
      /\ \A s \in Skbs \ {skb} : fate'[s] = fate[s] /\ freed'[s] = freed[s]
  BY DEF PadFails, ReturnDone
<1>2. NewInv(skb) /\ PlaceInv(skb) /\ FreedInv(skb) /\ Current(skb) /\ ~InQdisc(skb)
  BY <1>1 DEF FrameInv, Current, QdiscInv, InQdisc
<1>3. fate[skb] = "waiting" /\ freed[skb] = 0 /\ freed'[skb] = 1
  BY <1>1, <1>2 DEF PlaceInv, FreedInv, Given
<1>4. NewInv(skb)' /\ PlaceInv(skb)' /\ FreedInv(skb)'
  BY <1>1, <1>3 DEF NewInv, PlaceInv, FreedInv
<1> QED BY <1>1, <1>4, HandsOnly

\* The frame in the hands of start_xmit is freed.
LEMMA FreeSkbKeeps ==
  ASSUME Typed, FrameInv, FreeSkb
  PROVE  FrameInv'
<1> USE DEF Typed, flow, device, config
<1>1. /\ pc = "free" /\ pc' = "idle"
      /\ UNCHANGED <<qdisc, skb, hw, fate, padFailed>>
      /\ freed'[skb] = freed[skb] + 1
      /\ \A s \in Skbs \ {skb} : freed'[s] = freed[s]
  BY DEF FreeSkb, ReturnDone
<1>2. NewInv(skb) /\ PlaceInv(skb) /\ FreedInv(skb) /\ Current(skb) /\ ~InQdisc(skb)
  BY <1>1 DEF FrameInv, Current, QdiscInv, InQdisc
<1>3. ~InQdisc(skb)' /\ ~Current(skb)' /\ (InHw(skb)' <=> InHw(skb))
  BY <1>1, <1>2 DEF InQdisc, InHw, Current
<1>4. freed[skb] = IF skb \in padFailed THEN 1 ELSE 0
  BY <1>2 DEF FreedInv
<1>5. skb \notin padFailed => fate[skb] \in Given
  BY <1>1, <1>2 DEF PlaceInv
<1>6. freed'[skb] = IF skb \in padFailed THEN 2 ELSE 1
  BY <1>1, <1>4
<1>7. NewInv(skb)' /\ PlaceInv(skb)' /\ FreedInv(skb)'
  BY <1>1, <1>2, <1>3, <1>5, <1>6 DEF NewInv, PlaceInv, FreedInv, Given
<1> QED BY <1>1, <1>7, HandsOnly

\* A frame that does not fit is put back, first in the queue.
LEMMA NoBufsKeeps ==
  ASSUME Typed, FrameInv, NoBufs
  PROVE  FrameInv'
<1> USE DEF Typed, FrameInv, device, config, frames
<1>1. /\ pc = "nobufs" /\ pc' = "idle"
      /\ UNCHANGED <<skb, hw, fate, freed, padFailed>>
      /\ qdisc' = <<skb>> \o qdisc
  BY DEF NoBufs, ReturnBusy
<1>2. /\ Len(qdisc) \in Nat
      /\ DOMAIN qdisc = 1 .. Len(qdisc)
      /\ DOMAIN qdisc' = 1 .. Len(qdisc) + 1
      /\ qdisc'[1] = skb
      /\ \A i \in 1 .. Len(qdisc) : qdisc'[i + 1] = qdisc[i]
  BY <1>1, PutBack
<1> HIDE DEF Typed
<1>3. Current(skb) /\ ~InQdisc(skb)
  BY <1>1 DEF Current, QdiscInv, InQdisc
<1>4. ASSUME NEW i \in DOMAIN qdisc', i # 1
      PROVE  i - 1 \in DOMAIN qdisc /\ i \in Nat /\ qdisc'[i] = qdisc[i - 1]
  <2>1. i - 1 \in 1 .. Len(qdisc) /\ (i - 1) + 1 = i /\ i \in Nat
    BY <1>2, <1>4
  <2> QED BY <1>2, <2>1
<1>5. QdiscInv'
  <2>1. ASSUME NEW i \in DOMAIN qdisc', i # 1 PROVE qdisc'[i] # skb
    BY <1>3, <1>4, <2>1 DEF InQdisc
  <2>2. ASSUME NEW i \in DOMAIN qdisc', NEW j \in DOMAIN qdisc', qdisc'[i] = qdisc'[j]
        PROVE  i = j
    <3>1. CASE i = 1 \/ j = 1
      BY <1>2, <2>1, <2>2, <3>1
    <3>2. CASE i # 1 /\ j # 1
      <4>1. i - 1 = j - 1
        BY <1>4, <2>2, <3>2 DEF QdiscInv
      <4> QED BY <1>4, <3>2, <4>1
    <3> QED BY <3>1, <3>2
  <2> QED BY <1>1, <2>2 DEF QdiscInv, Current
<1>6. HwInv'
  BY <1>1 DEF HwInv
<1>7. ASSUME NEW s \in Skbs
      PROVE  NewInv(s)' /\ PlaceInv(s)' /\ FreedInv(s)'
  <2>1. InQdisc(s)' <=> InQdisc(s) \/ s = skb
    <3>1. InQdisc(s)' => InQdisc(s) \/ s = skb
      BY <1>2, <1>4 DEF InQdisc
    <3>2. InQdisc(skb)'
      <4>1. 1 \in DOMAIN qdisc'
        BY <1>2
      <4> QED BY <1>1, <1>2, <4>1 DEF InQdisc
    <3>3. ASSUME NEW i \in DOMAIN qdisc, qdisc[i] = s PROVE InQdisc(s)'
      <4>1. i + 1 \in DOMAIN qdisc'
        BY <1>2
      <4> QED BY <1>2, <3>3, <4>1 DEF InQdisc
    <3> QED BY <1>1, <3>1, <3>2, <3>3 DEF InQdisc
  <2>2. (Current(s) <=> s = skb) /\ ~Current(s)' /\ (InHw(s)' <=> InHw(s))
    BY <1>1 DEF Current, InHw
  <2>3. NewInv(s) /\ PlaceInv(s) /\ FreedInv(s)
    OBVIOUS
  <2> QED BY <1>1, <2>1, <2>2, <2>3 DEF NewInv, PlaceInv, FreedInv, Given
<1> QED BY <1>5, <1>6, <1>7

\* The firmware takes the first frame of a ring.
LEMMA FwTransmitKeeps ==
  ASSUME Typed, FrameInv, NEW q \in Queues, FwTransmit(q)
  PROVE  FrameInv'
<1> USE DEF Typed, stack, flow, config
<1> DEFINE x   == Head(hw[q])
           old == hw[q]
           new == hw'[q]
<1>1. /\ Len(old) \in Nat \ {0} /\ DOMAIN old = 1 .. Len(old)
      /\ DOMAIN new = 1 .. Len(old) - 1
      /\ x = old[1] /\ x \in Skbs
      /\ \A i \in 1 .. Len(old) - 1 : new[i] = old[i + 1]
      /\ \A p \in Queues \ {q} : hw'[p] = hw[p]
  BY DEF FwTransmit
<1>2. /\ fate' = [fate EXCEPT ![x] = "transmitted"]
      /\ UNCHANGED <<qdisc, pc, skb, freed, padFailed>>
  BY DEF FwTransmit
<1>3. QdiscInv'
  BY <1>2 DEF FrameInv, QdiscInv, Current
<1> HIDE DEF Typed, x, old, new
<1>4. ASSUME NEW i \in DOMAIN new
      PROVE  i \in Nat \ {0} /\ i + 1 \in DOMAIN old /\ new[i] = old[i + 1]
  BY <1>1
<1>5. HwInv'
  <2>1. ASSUME NEW p \in Queues, NEW i \in DOMAIN hw'[p]
        PROVE  QueueOf[hw'[p][i]] = p
    <3>1. CASE p # q
      BY <1>1, <3>1 DEF FrameInv, HwInv
    <3>2. CASE p = q
      BY <1>4, <3>2 DEF FrameInv, HwInv, old, new
    <3> QED BY <3>1, <3>2
  <2>2. ASSUME NEW p \in Queues, NEW i \in DOMAIN hw'[p], NEW j \in DOMAIN hw'[p],
               hw'[p][i] = hw'[p][j], hw'[p][i] \notin padFailed
        PROVE  i = j
    <3>1. CASE p # q
      BY <1>1, <2>2, <3>1 DEF FrameInv, HwInv
    <3>2. CASE p = q
      <4>1. i + 1 = j + 1
        BY <1>2, <1>4, <2>2, <3>2 DEF FrameInv, HwInv, old, new
      <4> QED BY <1>4, <3>2, <4>1 DEF new
    <3> QED BY <3>1, <3>2
  <2> QED BY <1>2, <2>1, <2>2 DEF HwInv
<1>6. InHw(x) /\ QueueOf[x] = q
  <2>1. 1 \in DOMAIN old
    BY <1>1
  <2> QED BY <1>1, <2>1 DEF InHw, FrameInv, HwInv, old
<1>7. ASSUME NEW s \in Skbs, s = x, s \notin padFailed
      PROVE  ~InHw(s)'
  <2> SUFFICES ASSUME NEW p \in Queues, NEW i \in DOMAIN hw'[p], hw'[p][i] = x
               PROVE  FALSE
    BY <1>7 DEF InHw
  <2> x \notin padFailed
    BY <1>7
  <2>1. CASE p # q
    BY <1>1, <1>6, <2>1 DEF FrameInv, HwInv
  <2>2. CASE p = q
    <3>1. 1 \in DOMAIN old /\ old[1] = x
      BY <1>1
    <3>2. i + 1 \in DOMAIN old /\ old[i + 1] = x
      BY <1>4, <2>2 DEF new
    <3>3. i + 1 = 1
      BY <3>1, <3>2 DEF FrameInv, HwInv, old
    <3> QED BY <1>4, <2>2, <3>3 DEF new
  <2> QED BY <2>1, <2>2
<1>8. ASSUME NEW s \in Skbs
      PROVE  NewInv(s)' /\ PlaceInv(s)' /\ FreedInv(s)'
  <2>1. InHw(s)' => InHw(s)
    <3> SUFFICES ASSUME NEW p \in Queues, NEW i \in DOMAIN hw'[p], hw'[p][i] = s
                 PROVE  InHw(s)
      BY DEF InHw
    <3>1. CASE p # q
      BY <1>1, <3>1 DEF InHw
    <3>2. CASE p = q
      BY <1>4, <3>2 DEF InHw, old, new
    <3> QED BY <3>1, <3>2
  <2>2. (InQdisc(s)' <=> InQdisc(s)) /\ (Current(s)' <=> Current(s))
    BY <1>2 DEF InQdisc, Current
  <2>3. fate'[s] = IF s = x THEN "transmitted" ELSE fate[s]
    BY <1>2 DEF Typed
  <2>4. NewInv(s) /\ PlaceInv(s) /\ FreedInv(s) /\ PlaceInv(x) /\ NewInv(x)
    BY <1>1 DEF FrameInv
  <2>5. UNCHANGED <<pc, freed, padFailed>>
    BY <1>2
  <2>6. CASE s # x
    BY <2>1, <2>2, <2>3, <2>4, <2>5, <2>6 DEF NewInv, PlaceInv, FreedInv, Given
  <2>7. CASE s = x
    BY <1>6, <1>7, <2>2, <2>3, <2>4, <2>5, <2>7 DEF NewInv, PlaceInv, FreedInv, Given
  <2> QED BY <2>6, <2>7
<1> QED BY <1>3, <1>5, <1>8 DEF FrameInv

\* Interrupts, the link and the watchdog touch neither a frame nor the place
\* it is in.
LEMMA OthersKeep ==
  ASSUME FrameInv, UNCHANGED <<stack, hw, frames>>
  PROVE  FrameInv'
BY DEF FrameInv, QdiscInv, HwInv, NewInv, PlaceInv, FreedInv, InQdisc, Current, InHw,
       stack, frames

\* Where a frame is says what has become of it and how often it has been
\* freed: a frame goes from the queue of the stack through the hands of
\* emac_ndo_start_xmit() to one ring, or back, and never is in two places.
THEOREM FrameInvariant == Spec => []FrameInv
<1>1. Init => FrameInv
  <2> SUFFICES ASSUME Init PROVE FrameInv
    OBVIOUS
  <2>1. qdisc = <<>> /\ pc = "idle" /\ hw = [q \in Queues |-> <<>>]
    BY DEF Init
  <2>2. QdiscInv /\ HwInv
    BY <2>1 DEF QdiscInv, HwInv
  <2>3. ASSUME NEW s \in Skbs
        PROVE  ~InQdisc(s) /\ ~Current(s) /\ ~InHw(s)
    BY <2>1 DEF InQdisc, Current, InHw
  <2>4. ASSUME NEW s \in Skbs
        PROVE  fate[s] = "new" /\ freed[s] = 0 /\ padFailed = {}
    BY DEF Init
  <2> QED BY <2>2, <2>3, <2>4 DEF FrameInv, NewInv, PlaceInv, FreedInv, Given
<1>2. Typed /\ FrameInv /\ [Next]_vars => FrameInv'
  <2> SUFFICES ASSUME Typed, FrameInv, [Next]_vars PROVE FrameInv'
    OBVIOUS
  <2>1. ASSUME NEW i \in Irqs, TxIrq(i) PROVE FrameInv'
    BY <2>1, OthersKeep DEF TxIrq
  <2>2. ASSUME NEW up \in BOOLEAN, LinkState(up) PROVE FrameInv'
    BY <2>2, OthersKeep DEF LinkState, device
  <2>3. CASE LinkQueue
    BY <2>3, OthersKeep DEF LinkQueue, device
  <2>4. CASE TxTimeout
    BY <2>4, OthersKeep DEF TxTimeout, device
  <2>5. CASE UNCHANGED vars
    BY <2>5, OthersKeep DEF vars, device
  <2> QED BY <2>1, <2>2, <2>3, <2>4, <2>5, SendKeeps, StartXmitKeeps, CheckLinkKeeps,
             EnqueueKeeps, PadFailsKeeps, FreeSkbKeeps, NoBufsKeeps, FwTransmitKeeps
          DEF Next
<1> QED BY <1>1, <1>2, Typing, PTL DEF Spec

\* Every variable has its type; a frame is never freed more than twice, and
\* that only after eth_skb_pad() has failed for it.
THEOREM TypeCorrect == Spec => []TypeOK
<1>1. Typed /\ FrameInv => TypeOK
  <2> SUFFICES ASSUME Typed, FrameInv PROVE TypeOK
    OBVIOUS
  <2>1. \A s \in Skbs : freed[s] \in 0 .. 2
    BY DEF FrameInv, FreedInv
  <2>2. freed \in [Skbs -> 0 .. 2]
    BY <2>1 DEF Typed
  <2> QED BY <2>2 DEF Typed, TypeOK
<1> QED BY <1>1, Typing, FrameInvariant, PTL

\* A set of which any two members are equal has at most one.
LEMMA AtMostOne ==
  ASSUME NEW S, \A i, j \in S : i = j
  PROVE  IsFiniteSet(S) /\ Cardinality(S) <= 1
<1>1. CASE S = {}
  BY <1>1, FS_EmptySet
<1>2. CASE S # {}
  <2>1. PICK x : S = {x}
    BY <1>2
  <2> QED BY <2>1, FS_Singleton
<1> QED BY <1>1, <1>2

\* A frame that goes back to the stack with NETDEV_TX_BUSY, and any other the
\* stack still has to send, is in its queue at most once, has not been freed
\* and is in no ring (emac_ndo_start_xmit).
THEOREM RetryNeverDuplicates == Spec => []RetryIsSafe
<1>1. Typed /\ FrameInv => RetryIsSafe
  <2> SUFFICES ASSUME Typed, FrameInv, NEW s \in Skbs \ padFailed, fate[s] = "waiting"
               PROVE  freed[s] = 0 /\ ~InHw(s) /\ Copies(s) <= 1
    BY DEF RetryIsSafe
  <2>1. freed[s] = 0 /\ ~InHw(s)
    BY DEF FrameInv, PlaceInv, FreedInv, Given
  <2>2. Copies(s) <= 1
    <3> DEFINE places == {i \in DOMAIN qdisc : qdisc[i] = s}
    <3>1. \A i, j \in places : i = j
      BY DEF FrameInv, QdiscInv
    <3> HIDE DEF places
    <3>2. Cardinality(places) <= 1
      BY <3>1, AtMostOne
    <3> QED BY <3>2 DEF places, Copies
  <2> QED BY <2>1, <2>2
<1> QED BY <1>1, Typing, FrameInvariant, PTL

\* Once emac_ndo_start_xmit() has returned for good, an accepted frame has
\* been freed exactly once and one refused without a link never.
THEOREM AcceptedIsFreedOnce == Spec => []FreedOnce
<1>1. Typed /\ FrameInv => FreedOnce
  <2> SUFFICES ASSUME Typed, FrameInv, NEW s \in Skbs \ padFailed, Settled(s)
               PROVE  freed[s] = IF fate[s] = "dropped" THEN 0 ELSE 1
    BY DEF FreedOnce
  <2>1. fate[s] \in {"accepted", "transmitted", "dropped"} /\ ~Current(s)
    BY DEF Settled, Held, Current, Typed, Fates
  <2>2. FreedInv(s)
    BY DEF FrameInv
  <2> QED BY <2>1, <2>2 DEF FreedInv, Given
<1> QED BY <1>1, Typing, FrameInvariant, PTL

(* -------------------- nothing waits without a reason ------------------- *)

\* No frame gets lost on its way: what the stack has not got rid of is in its
\* queue or with start_xmit, and what the driver has accepted is in a ring.
HasPlace(s) ==
  s \notin padFailed =>
    /\ fate[s] = "waiting" => InQdisc(s) \/ Current(s)
    /\ fate[s] = "accepted" => InHw(s)

\* A stopped queue was stopped for a full ring by a driver that has a "tx"
\* interrupt, and the carrier is on, so that the watchdog looks after it; or
\* there is no link; or emac_adjust_link() is about to look at the queue.
StopLifted ==
  /\ ~adjust => carrier = link
  /\ stopped => (why = "full" /\ tx_irq) \/ (why = "link" /\ ~carrier)

NothingLost == StopLifted /\ \A s \in Skbs : HasPlace(s)

\* Places do not change, and neither does what has become of the frames.
LEMMA PlacesStay ==
  ASSUME UNCHANGED <<stack, hw, fate, padFailed>>, \A s \in Skbs : HasPlace(s)
  PROVE  \A s \in Skbs : HasPlace(s)'
BY DEF HasPlace, InQdisc, Current, InHw, stack

LEMMA SendFinds ==
  ASSUME Typed, NEW x \in Skbs, Send(x), NEW s \in Skbs, HasPlace(s)
  PROVE  HasPlace(s)'
<1>1. /\ Len(qdisc) \in Nat
      /\ DOMAIN qdisc = 1 .. Len(qdisc)
      /\ DOMAIN qdisc' = 1 .. Len(qdisc) + 1
      /\ qdisc'[Len(qdisc) + 1] = x
      /\ \A i \in 1 .. Len(qdisc) : qdisc'[i] = qdisc[i]
  BY DEF Send, Typed
<1>2. UNCHANGED <<pc, skb, hw, padFailed>> /\ fate' = [fate EXCEPT ![x] = "waiting"]
  BY DEF Send, device
<1>3. fate \in [Skbs -> Fates]
  BY DEF Typed
<1>4. CASE s = x
  <2>1. Len(qdisc) + 1 \in DOMAIN qdisc' /\ fate'[s] = "waiting"
    BY <1>1, <1>2, <1>3, <1>4
  <2>2. InQdisc(s)'
    BY <1>1, <1>4, <2>1 DEF InQdisc
  <2> QED BY <2>1, <2>2 DEF HasPlace
<1>5. CASE s # x
  <2>1. fate'[s] = fate[s]
    BY <1>2, <1>3, <1>5
  <2>2. InQdisc(s) => InQdisc(s)'
    BY <1>1 DEF InQdisc
  <2> QED BY <1>2, <2>1, <2>2 DEF HasPlace, Current, InHw
<1> QED BY <1>4, <1>5

LEMMA StartXmitFinds ==
  ASSUME Typed, StartXmit, NEW s \in Skbs, HasPlace(s)
  PROVE  HasPlace(s)'
<1>1. /\ Len(qdisc) \in Nat \ {0}
      /\ DOMAIN qdisc = 1 .. Len(qdisc)
      /\ DOMAIN qdisc' = 1 .. Len(qdisc) - 1
      /\ skb' = qdisc[1]
      /\ \A i \in 1 .. Len(qdisc) - 1 : qdisc'[i] = qdisc[i + 1]
  BY DEF StartXmit, Typed
<1>2. pc = "idle" /\ pc' = "link" /\ UNCHANGED <<hw, fate, padFailed>>
  BY DEF StartXmit, device, frames
<1>3. ASSUME NEW i \in DOMAIN qdisc, qdisc[i] = s PROVE InQdisc(s)' \/ Current(s)'
  <2>1. CASE i = 1
    BY <1>1, <1>2, <1>3, <2>1 DEF Current
  <2>2. CASE i # 1
    <3>1. i - 1 \in 1 .. Len(qdisc) - 1 /\ (i - 1) + 1 = i
      BY <1>1, <2>2
    <3> QED BY <1>1, <1>3, <3>1 DEF InQdisc
  <2> QED BY <2>1, <2>2
<1> QED BY <1>2, <1>3 DEF HasPlace, InQdisc, Current, InHw

LEMMA EnqueueFinds ==
  ASSUME Typed, Enqueue, NEW s \in Skbs, HasPlace(s)
  PROVE  HasPlace(s)'
<1> DEFINE q == QueueOf[skb]
<1>1. pc = "enqueue" /\ UNCHANGED <<qdisc, skb, padFailed>> /\ pc' \in {"free", "nobufs"}
  BY DEF Enqueue
<1>2. fate \in [Skbs -> Fates] /\ hw \in [Queues -> Seq(Skbs)] /\ skb \in Skbs /\ q \in Queues
  BY XmitAssumption DEF Typed
<1>3. CASE hw' = [hw EXCEPT ![q] = Append(@, skb)] /\ fate' = [fate EXCEPT ![skb] = "accepted"]
  <2>1. /\ Len(hw[q]) \in Nat /\ DOMAIN hw[q] = 1 .. Len(hw[q])
        /\ DOMAIN hw'[q] = 1 .. Len(hw[q]) + 1
        /\ hw'[q][Len(hw[q]) + 1] = skb
        /\ \A i \in 1 .. Len(hw[q]) : hw'[q][i] = hw[q][i]
    BY <1>2, <1>3
  <2>2. ASSUME InHw(s) PROVE InHw(s)'
    <3>1. PICK r \in Queues : \E i \in DOMAIN hw[r] : hw[r][i] = s
      BY <2>2 DEF InHw
    <3>2. CASE r = q
      <4> HIDE DEF q
      <4>1. PICK i \in DOMAIN hw[q] : hw[q][i] = s
        BY <3>1, <3>2
      <4>2. i \in 1 .. Len(hw[q])
        BY <2>1, <4>1
      <4>3. i \in DOMAIN hw'[q]
        BY <2>1, <4>2
      <4>4. hw'[q][i] = s
        BY <2>1, <4>1, <4>2
      <4> QED BY <1>2, <4>3, <4>4 DEF InHw
    <3>3. CASE r # q
      <4>1. hw'[r] = hw[r]
        BY <1>2, <1>3, <3>3
      <4> QED BY <3>1, <4>1 DEF InHw
    <3> QED BY <3>2, <3>3
  <2>3. CASE s = skb
    <3>1. fate'[s] = "accepted"
      BY <1>2, <1>3, <2>3
    <3>2. Len(hw[q]) + 1 \in DOMAIN hw'[q] /\ hw'[q][Len(hw[q]) + 1] = s
      BY <2>1, <2>3
    <3>3. InHw(s)'
      <4> HIDE DEF q
      <4> QED BY <1>2, <3>2 DEF InHw
    <3> QED BY <3>1, <3>3 DEF HasPlace
  <2>4. CASE s # skb
    <3>1. fate'[s] = fate[s] /\ ~Current(s)
      BY <1>2, <1>3, <2>4 DEF Current
    <3>2. InQdisc(s)' <=> InQdisc(s)
      BY <1>1 DEF InQdisc
    <3> QED BY <1>1, <2>2, <3>1, <3>2 DEF HasPlace
  <2> QED BY <2>3, <2>4
<1>4. CASE UNCHANGED <<hw, fate>>
  BY <1>1, <1>4 DEF HasPlace, InQdisc, Current, InHw
<1> QED BY <1>3, <1>4 DEF Enqueue

LEMMA NoBufsFinds ==
  ASSUME Typed, NoBufs, NEW s \in Skbs, HasPlace(s)
  PROVE  HasPlace(s)'
<1>1. /\ pc = "nobufs" /\ pc' = "idle" /\ UNCHANGED <<skb, hw, fate, padFailed>>
      /\ qdisc' = <<skb>> \o qdisc
  BY DEF NoBufs, ReturnBusy, device, frames
<1>2. /\ DOMAIN qdisc = 1 .. Len(qdisc) /\ Len(qdisc) \in Nat
      /\ DOMAIN qdisc' = 1 .. Len(qdisc) + 1
      /\ qdisc'[1] = skb
      /\ \A i \in 1 .. Len(qdisc) : qdisc'[i + 1] = qdisc[i]
  BY <1>1, PutBack DEF Typed
<1>3. InQdisc(s) => InQdisc(s)'
  <2> SUFFICES ASSUME NEW i \in DOMAIN qdisc, qdisc[i] = s PROVE InQdisc(s)'
    BY DEF InQdisc
  <2>1. i \in 1 .. Len(qdisc) /\ i + 1 \in DOMAIN qdisc'
    BY <1>2
  <2> QED BY <1>2, <2>1 DEF InQdisc
<1>4. Current(s) => InQdisc(s)'
  <2>1. 1 \in DOMAIN qdisc'
    BY <1>2
  <2> QED BY <1>2, <2>1 DEF Current, InQdisc
<1> QED BY <1>1, <1>3, <1>4 DEF HasPlace, InHw

LEMMA FwTransmitFinds ==
  ASSUME Typed, FrameInv, NEW q \in Queues, FwTransmit(q), NEW s \in Skbs, HasPlace(s)
  PROVE  HasPlace(s)'
<1> DEFINE h == Head(hw[q])
<1>1. fate \in [Skbs -> Fates] /\ hw \in [Queues -> Seq(Skbs)]
  BY DEF Typed
<1>2. /\ hw[q] # <<>> /\ hw' = [hw EXCEPT ![q] = Tail(@)]
      /\ fate' = [fate EXCEPT ![h] = "transmitted"]
      /\ UNCHANGED <<qdisc, pc, skb, padFailed>>
  BY DEF FwTransmit, stack
<1>3. /\ Len(hw[q]) \in Nat \ {0} /\ DOMAIN hw[q] = 1 .. Len(hw[q])
      /\ h = hw[q][1] /\ h \in Skbs
      /\ DOMAIN hw'[q] = 1 .. Len(hw[q]) - 1
      /\ \A i \in 1 .. Len(hw[q]) - 1 : hw'[q][i] = hw[q][i + 1]
  BY <1>1, <1>2
<1> HIDE DEF h
<1>4. CASE s = h
  <2>1. fate'[s] = "transmitted"
    BY <1>1, <1>2, <1>3, <1>4
  <2> QED BY <2>1 DEF HasPlace
<1>5. CASE s # h
  <2>1. fate'[s] = fate[s]
    BY <1>1, <1>2, <1>3, <1>5
  <2>2. ASSUME InHw(s) PROVE InHw(s)'
    <3>1. PICK r \in Queues : \E i \in DOMAIN hw[r] : hw[r][i] = s
      BY <2>2 DEF InHw
    <3>2. CASE r = q
      <4>1. PICK i \in DOMAIN hw[q] : hw[q][i] = s
        BY <3>1, <3>2
      <4>2. i # 1
        BY <1>3, <1>5, <4>1
      <4>3. i - 1 \in 1 .. Len(hw[q]) - 1 /\ (i - 1) + 1 = i
        BY <1>3, <4>2
      <4>4. i - 1 \in DOMAIN hw'[q] /\ hw'[q][i - 1] = s
        BY <1>3, <4>1, <4>3
      <4> QED BY <4>4 DEF InHw
    <3>3. CASE r # q
      <4>1. hw'[r] = hw[r]
        BY <1>1, <1>2, <3>3
      <4> QED BY <3>1, <4>1 DEF InHw
    <3> QED BY <3>2, <3>3
  <2>3. (InQdisc(s)' <=> InQdisc(s)) /\ (Current(s)' <=> Current(s))
    BY <1>2 DEF InQdisc, Current
  <2> QED BY <1>2, <2>1, <2>2, <2>3 DEF HasPlace
<1> QED BY <1>4, <1>5

\* The other steps of start_xmit: whoever is dropped or freed is not waiting.
LEMMA ReturnFinds ==
  ASSUME Typed, FrameInv, CheckLink \/ PadFails \/ FreeSkb, NEW s \in Skbs, HasPlace(s)
  PROVE  HasPlace(s)'
<1>1. fate \in [Skbs -> Fates] /\ skb \in Skbs
  BY DEF Typed
<1>2. CASE CheckLink
  <2>1. UNCHANGED <<qdisc, skb, hw, padFailed>> /\ pc = "link"
    BY <1>2 DEF CheckLink, ReturnDone, device
  <2>2. \/ pc' = "enqueue" /\ UNCHANGED fate
        \/ pc' = "idle" /\ fate' = [fate EXCEPT ![skb] = "dropped"]
    BY <1>2 DEF CheckLink, ReturnDone
  <2>3. CASE s = skb
    BY <1>1, <2>1, <2>2, <2>3 DEF HasPlace, InQdisc, Current, InHw
  <2>4. CASE s # skb
    BY <1>1, <2>1, <2>2, <2>4 DEF HasPlace, InQdisc, Current, InHw
  <2> QED BY <2>3, <2>4
<1>3. CASE PadFails
  <2>1. UNCHANGED <<qdisc, skb, hw>> /\ padFailed' = padFailed \cup {skb}
    BY <1>3 DEF PadFails, ReturnDone, device
  <2>2. UNCHANGED fate \/ fate' = [fate EXCEPT ![skb] = "dropped"]
    BY <1>3 DEF PadFails
  <2>3. CASE s = skb
    BY <2>1, <2>3 DEF HasPlace
  <2>4. CASE s # skb
    <3>1. fate'[s] = fate[s]
      BY <1>1, <2>2, <2>4
    <3> QED BY <2>1, <2>4, <3>1 DEF HasPlace, InQdisc, Current, InHw
  <2> QED BY <2>3, <2>4
<1>4. CASE FreeSkb
  <2>1. pc = "free" /\ UNCHANGED <<qdisc, skb, hw, padFailed, fate>>
    BY <1>4 DEF FreeSkb, ReturnDone, device
  <2>2. s \notin padFailed /\ Current(s) => fate[s] # "waiting"
    BY <2>1 DEF FrameInv, PlaceInv, Given
  <2> QED BY <2>1, <2>2 DEF HasPlace, InQdisc, Current, InHw
<1> QED BY <1>2, <1>3, <1>4

\* The link and the reasons for which a queue is stopped.
LEMMA StopKeeps ==
  ASSUME Typed, StopLifted, [Next]_vars
  PROVE  StopLifted'
<1>1. stopped \in BOOLEAN /\ link \in BOOLEAN /\ carrier \in BOOLEAN /\ adjust \in BOOLEAN
  BY DEF Typed
<1>2. CASE NoBufs
  BY <1>2 DEF NoBufs, StopQueue, StopLifted, device, config
<1>3. ASSUME NEW i \in Irqs, TxIrq(i) PROVE StopLifted'
  BY <1>3 DEF TxIrq, WakeQueue, StopLifted, config
<1>4. ASSUME NEW up \in BOOLEAN, LinkState(up) PROVE StopLifted'
  BY <1>4 DEF LinkState, StopLifted, device, config
<1>5. CASE LinkQueue
  <2>1. ~adjust' /\ carrier' = link /\ link' = link /\ tx_irq' = tx_irq
    BY <1>5 DEF LinkQueue, device, config
  <2>2. CASE link
    BY <1>5, <2>1, <2>2 DEF LinkQueue, WakeQueue, StopLifted
  <2>3. CASE ~link
    BY <1>5, <2>1, <2>3 DEF LinkQueue, StopQueue, StopLifted
  <2> QED BY <2>2, <2>3
<1>6. CASE TxTimeout
  BY <1>6 DEF TxTimeout, WakeQueue, StopLifted, device, config
<1>7. CASE UNCHANGED <<flow, tx_irq>>
  BY <1>7 DEF flow, StopLifted
<1>8. CASE \/ \E s \in Skbs : Send(s)
           \/ StartXmit \/ CheckLink \/ Enqueue \/ PadFails \/ FreeSkb
           \/ \E q \in Queues : FwTransmit(q)
           \/ UNCHANGED vars
  BY <1>7, <1>8 DEF Send, StartXmit, CheckLink, Enqueue, PadFails, FreeSkb, FwTransmit, vars,
                    device, config
<1> QED BY <1>2, <1>3, <1>4, <1>5, <1>6, <1>8 DEF Next

\* With the link up, and emac_adjust_link() not at work, a queue is stopped only
\* by a driver that has a "tx" interrupt and under the eyes of the watchdog; and
\* a frame that waits is with the stack or start_xmit, one that was accepted in a
\* ring: the safety half of NoStall, in every instance.
THEOREM NothingLostAlways == Spec => []NothingLost
<1>1. Init => NothingLost
  BY DEF Init, NothingLost, StopLifted, HasPlace
<1>2. Typed /\ FrameInv /\ NothingLost /\ [Next]_vars => NothingLost'
  <2> SUFFICES ASSUME Typed, FrameInv, NothingLost, [Next]_vars PROVE NothingLost'
    OBVIOUS
  <2>1. StopLifted'
    BY StopKeeps DEF NothingLost
  <2>2. \A s \in Skbs : HasPlace(s)
    BY DEF NothingLost
  <2>3. ASSUME NEW x \in Skbs, Send(x) PROVE \A s \in Skbs : HasPlace(s)'
    BY <2>2, <2>3, SendFinds
  <2>4. ASSUME StartXmit PROVE \A s \in Skbs : HasPlace(s)'
    BY <2>2, <2>4, StartXmitFinds
  <2>5. ASSUME CheckLink \/ PadFails \/ FreeSkb PROVE \A s \in Skbs : HasPlace(s)'
    BY <2>2, <2>5, ReturnFinds
  <2>6. ASSUME Enqueue PROVE \A s \in Skbs : HasPlace(s)'
    BY <2>2, <2>6, EnqueueFinds
  <2>7. ASSUME NoBufs PROVE \A s \in Skbs : HasPlace(s)'
    BY <2>2, <2>7, NoBufsFinds
  <2>8. ASSUME NEW q \in Queues, FwTransmit(q) PROVE \A s \in Skbs : HasPlace(s)'
    BY <2>2, <2>8, FwTransmitFinds
  <2>9. ASSUME \/ \E i \in Irqs : TxIrq(i)
               \/ \E up \in BOOLEAN : LinkState(up)
               \/ LinkQueue \/ TxTimeout \/ UNCHANGED vars
        PROVE  \A s \in Skbs : HasPlace(s)'
    BY <2>2, <2>9, PlacesStay DEF TxIrq, LinkState, LinkQueue, TxTimeout, vars, device, frames
  <2>10. \A s \in Skbs : HasPlace(s)'
    BY <2>3, <2>4, <2>5, <2>6, <2>7, <2>8, <2>9 DEF Next
  <2> QED BY <2>1, <2>10 DEF NothingLost
<1> QED BY <1>1, <1>2, Typing, FrameInvariant, PTL DEF Spec

-----------------------------------------------------------------------------
(* EchoServer: the parent keeps no connection, for any number of clients,  *)
(* messages and signals.                                                   *)

(* NoSocketKept says nothing of the parent between accept() and the end of *)
(* its work for a connection; there it holds this one and no other.        *)
HoldsOne == fds = IF parent \in {"handshake", "fork"} THEN {conn} ELSE {}

LEMMA HoldsInit == EchoInit => HoldsOne
  BY DEF EchoInit, HoldsOne

(* The loop of the parent: every way back to select() closes the           *)
(* connection, with a child or without.                                    *)
LEMMA ParentHolds ==
  ASSUME HoldsOne, ParentStep
  PROVE  HoldsOne'
  <1>1. CASE Test BY <1>1 DEF Test, HoldsOne
  <1>2. CASE Select BY <1>2 DEF Select, HoldsOne
  <1>3. CASE Accept
    <2>1. fds = {} BY <1>3 DEF Accept, HoldsOne
    <2>2. fds' = {conn'} /\ parent' = "handshake" BY <1>3, <2>1 DEF Accept
    <2> QED BY <2>2 DEF HoldsOne
  <1>4. CASE Handshake BY <1>4 DEF Handshake, HoldsOne
  <1>5. CASE HandshakeFails
    <2>1. fds = {conn} BY <1>5 DEF HandshakeFails, HoldsOne
    <2>2. fds' = {} /\ parent' = "test" BY <1>5, <2>1 DEF HandshakeFails
    <2> QED BY <2>2 DEF HoldsOne
  <1>6. CASE HandshakeKills BY <1>6 DEF HandshakeKills, End, HoldsOne
  <1>7. CASE Fork \/ ForkFails
    <2>1. fds = {conn} BY <1>7 DEF Fork, ForkFails, HoldsOne
    <2>2. fds' = {} /\ parent' = "test" BY <1>7, <2>1 DEF Fork, ForkFails
    <2> QED BY <2>2 DEF HoldsOne
  <1>8. CASE Cleanup BY <1>8 DEF Cleanup, HoldsOne
  <1>9. CASE WaitForChildren BY <1>9 DEF WaitForChildren, End, HoldsOne
  <1> QED BY <1>1, <1>2, <1>3, <1>4, <1>5, <1>6, <1>7, <1>8, <1>9 DEF ParentStep

(* A signal moves the parent out of select() or ends it, with all its      *)
(* descriptors.                                                            *)
LEMMA SignalHolds ==
  ASSUME HoldsOne, NEW everybody \in BOOLEAN, Signal(everybody)
  PROVE  HoldsOne'
  <1>1. SignalParent BY DEF Signal
  <1>2. CASE ~running BY <1>1, <1>2 DEF SignalParent, End, HoldsOne
  <1>3. CASE running
    <2>1. UNCHANGED <<conn, fds>> BY <1>1, <1>3 DEF SignalParent
    <2>2. parent' = parent \/ (parent = "select" /\ parent' = "test") BY <1>1, <1>3 DEF SignalParent
    <2> QED BY <2>1, <2>2 DEF HoldsOne
  <1> QED BY <1>2, <1>3

(* Children and clients have descriptors of their own.                     *)
LEMMA OthersHold ==
  ASSUME HoldsOne, NEW c \in Clients,
         ChildStep(c) \/ ClientStep(c) \/ Connect(c) \/ Say(c) \/ Leaves(c)
  PROVE  HoldsOne'
  <1>1. UNCHANGED <<parent, conn, fds>>
    <2>1. CASE ChildStep(c)
      BY <2>1 DEF ChildStep, ChildReads, ChildWrites, ChildWriteFails, ChildShutsDown,
                  ChildDrains, server
    <2>2. CASE ClientStep(c)
      BY <2>2 DEF ClientStep, SslConnect, Hears, IsCut, Leave, server
    <2>3. CASE Connect(c) BY <2>3 DEF Connect
    <2>4. CASE Say(c) \/ Leaves(c) BY <2>4 DEF Say, Leaves, Leave, server
    <2> QED BY <2>1, <2>2, <2>3, <2>4
  <1> QED BY <1>1 DEF HoldsOne

LEMMA HoldsNext == HoldsOne /\ [EchoNext]_echoVars => HoldsOne'
  <1> SUFFICES ASSUME HoldsOne, [EchoNext]_echoVars PROVE HoldsOne'
    OBVIOUS
  <1>1. CASE ParentStep BY <1>1, ParentHolds
  <1>2. CASE \E c \in Clients :
               ChildStep(c) \/ ClientStep(c) \/ Connect(c) \/ Say(c) \/ Leaves(c)
    BY <1>2, OthersHold
  <1>3. CASE \E everybody \in BOOLEAN : Signal(everybody) BY <1>3, SignalHolds
  <1>4. CASE UNCHANGED echoVars BY <1>4 DEF echoVars, server, HoldsOne
  <1> QED BY <1>1, <1>2, <1>3, <1>4 DEF EchoNext

(* Whatever fails between accept() and fork(), and whenever a signal comes, *)
(* the parent is back at select() without a client_fd (main() of           *)
(* tcp/ex2/server/s.c).                                                    *)
THEOREM NoSocketKeptAlways == EchoSpec => []NoSocketKept
  <1>1. HoldsOne => NoSocketKept BY DEF HoldsOne, NoSocketKept
  <1> QED BY <1>1, HoldsInit, HoldsNext, PTL DEF EchoSpec

(* --------------------------- nobody is stuck --------------------------- *)

EchoTyped ==
  /\ parent \in {"test", "select", "accept", "handshake", "fork", "cleanup", "wait", "gone"}
  /\ running \in BOOLEAN
  /\ conn \in Clients \cup {None}
  /\ backlog \in Seq(Clients)
  /\ child \in [Clients -> {"none", "read", "write", "close", "drain", "gone"}]
  /\ goes_on \in [Clients -> BOOLEAN]
  /\ client \in [Clients -> {"start", "tcp", "connect", "type", "wait", "gone"}]
  /\ said \in [Clients -> Nat]
  /\ toServer \in [Clients -> Seq(Nat)]
  /\ toClient \in [Clients -> Seq(Nat)]

\* The client is in the backlog.
Waits(c) == \E i \in DOMAIN backlog : backlog[i] = c

\* What the parent does between select() and accept(), and who is behind it in
\* the backlog.
BacklogInv ==
  /\ parent = "accept" => backlog # <<>>
  /\ parent \in {"wait", "gone"} => backlog = <<>>
  /\ parent \in {"handshake", "fork"} => conn \in Clients
  /\ \A i, j \in DOMAIN backlog : backlog[i] = backlog[j] => i = j

\* Where a connection is, in the backlog, with the parent or with a child, says
\* how far the client has come.
Where(c) ==
  /\ client[c] = "start" => child[c] = "none" /\ ~Waits(c) /\ c \notin fds
  /\ Waits(c) => child[c] = "none" /\ client[c] \in {"tcp", "connect", "gone"} /\ c \notin fds
  /\ c \in fds =>
       /\ child[c] = "none"
       /\ client[c] \in IF parent = "handshake" THEN {"tcp", "connect", "gone"}
                        ELSE {"type", "wait", "gone"}
  /\ Alive(c) => client[c] \in {"type", "wait", "gone"}

EndsWithBye(q) == q # <<>> /\ q[Len(q)] = Bye

\* A child that writes has read a message.  A client that has left has said
\* goodbye, and so has a child that waits for it to say so.  A client that waits
\* has asked, or is answered.
Talk(c) ==
  /\ child[c] = "write" => toServer[c] # <<>> /\ Head(toServer[c]) # Bye
  /\ client[c] = "gone" /\ (Waits(c) \/ c \in fds \/ Alive(c)) => EndsWithBye(toServer[c])
  /\ child[c] = "drain" /\ client[c] \in {"type", "wait"} => EndsWithBye(toClient[c])
  /\ client[c] = "wait" /\ (child[c] = "read" \/ c \in fds) =>
       toServer[c] # <<>> \/ toClient[c] # <<>>

EchoInv ==
  /\ EchoTyped /\ HoldsOne /\ BacklogInv
  /\ \A c \in Clients : Where(c) /\ Talk(c)

\* Whoever has to wait waits for something that is on its way: the client for the
\* parent, while it does its handshake; for its child, the answer or the end of
\* the connection, while it waits for an answer; and a child whose client is gone
\* finds its goodbye.
NobodyStuck ==
  \A c \in Clients :
    /\ client[c] = "connect" /\ Connected(c) =>
         Waits(c) \/ (parent = "handshake" /\ conn = c)
    /\ client[c] = "wait" /\ Connected(c) =>
         \/ toClient[c] # <<>> \/ child[c] \in {"write", "close"}
         \/ toServer[c] # <<>> /\ (child[c] = "read" \/ (parent = "fork" /\ conn = c))
    /\ client[c] = "gone" /\ child[c] \in {"read", "drain"} => toServer[c] # <<>>

(* The tail of a sequence.                                                 *)
LEMMA TailIs ==
  ASSUME NEW S, NEW q \in Seq(S), q # <<>>
  PROVE  /\ Len(q) \in Nat \ {0} /\ Head(q) = q[1]
         /\ Tail(q) \in Seq(S) /\ Len(Tail(q)) = Len(q) - 1
         /\ \A i \in 1 .. Len(q) - 1 : Tail(q)[i] = q[i + 1]
  <1>1. Len(q) \in Nat \ {0} /\ Head(q) = q[1] OBVIOUS
  <1>2. Tail(q) \in Seq(S) /\ Len(Tail(q)) = Len(q) - 1 OBVIOUS
  <1>3. \A i \in 1 .. Len(q) - 1 : Tail(q)[i] = q[i + 1] BY <1>1
  <1> QED BY <1>1, <1>2, <1>3

(* What is said last stays last.                                           *)
LEMMA ByeLast ==
  ASSUME NEW q \in Seq(Nat)
  PROVE  /\ EndsWithBye(Append(q, Bye))
         /\ EndsWithBye(q) /\ Head(q) # Bye => EndsWithBye(Tail(q))
  <1>1. EndsWithBye(Append(q, Bye))
    <2>1. Append(q, Bye) # <<>> /\ Len(Append(q, Bye)) = Len(q) + 1
          /\ Append(q, Bye)[Len(q) + 1] = Bye
      BY DEF Bye
    <2> QED BY <2>1 DEF EndsWithBye
  <1>2. ASSUME EndsWithBye(q), Head(q) # Bye PROVE EndsWithBye(Tail(q))
    <2>1. q # <<>> /\ q[Len(q)] = Bye BY <1>2 DEF EndsWithBye
    <2>2. Len(q) \in Nat /\ Len(q) # 0 /\ Head(q) = q[1] BY <2>1
    <2>3. Len(q) # 1 BY <1>2, <2>1, <2>2
    <2>4. /\ Tail(q) \in Seq(Nat) /\ Len(Tail(q)) = Len(q) - 1
          /\ \A i \in 1 .. Len(q) - 1 : Tail(q)[i] = q[i + 1]
      BY <2>1, TailIs
    <2>5. Len(q) - 1 \in 1 .. Len(q) - 1 /\ (Len(q) - 1) + 1 = Len(q)
      <3>1. ASSUME NEW n \in Nat, n # 0, n # 1 PROVE n - 1 \in 1 .. n - 1 /\ (n - 1) + 1 = n
        BY <3>1
      <3> QED BY ONLY <2>2, <2>3, <3>1
    <2>6. Tail(q)[Len(Tail(q))] = Bye BY <2>1, <2>4, <2>5
    <2>7. Tail(q) # <<>>
      <3>1. Len(<<>>) = 0 OBVIOUS
      <3>2. ASSUME NEW t, Len(t) # 0 PROVE t # <<>> BY <3>1, <3>2, Zenon
      <3>3. Len(Tail(q)) # 0 BY <2>2, <2>3, <2>4
      <3> QED BY <3>2, <3>3, Zenon
    <2> QED BY <2>6, <2>7 DEF EndsWithBye
  <1> QED BY <1>1, <1>2

(* An arrival does not change who is first.                                *)
LEMMA FirstStays ==
  ASSUME NEW q \in Seq(Nat), NEW x \in Nat
  PROVE  Append(q, x) # <<>> /\ (q # <<>> => Head(Append(q, x)) = Head(q))
  OBVIOUS

LEMMA EchoTypes ==
  ASSUME EchoInv, [EchoNext]_echoVars
  PROVE  EchoTyped'
  <1> USE DEF EchoTyped
  <1>0. EchoTyped /\ BacklogInv BY DEF EchoInv
  <1>1. CASE Test BY <1>0, <1>1 DEF Test, children, clients, wires
  <1>2. CASE Select BY <1>0, <1>2 DEF Select, children, clients, wires
  <1>3. CASE Accept
    <2>1. backlog # <<>> BY <1>0, <1>3 DEF Accept, BacklogInv
    <2>2. Head(backlog) \in Clients /\ Tail(backlog) \in Seq(Clients) BY <1>0, <2>1
    <2> QED BY <1>0, <1>3, <2>2 DEF Accept, children, clients, wires
  <1>4. CASE Handshake BY <1>0, <1>4 DEF Handshake, children, wires
  <1>5. CASE HandshakeFails BY <1>0, <1>5 DEF HandshakeFails, children, clients, wires
  <1>6. CASE HandshakeKills \/ WaitForChildren
    <2>1. <<>> \in Seq(Clients) OBVIOUS
    <2>2. End /\ UNCHANGED <<running, children, clients, wires>>
      BY <1>6 DEF HandshakeKills, WaitForChildren
    <2> QED BY <1>0, <2>1, <2>2 DEF End, children, clients, wires
  <1>7. CASE Fork BY <1>0, <1>7 DEF Fork, clients, wires
  <1>8. CASE ForkFails BY <1>0, <1>8 DEF ForkFails, children, clients, wires
  <1>9. CASE Cleanup BY <1>0, <1>9 DEF Cleanup, children, clients, wires
  <1>10. ASSUME NEW c \in Clients,
                ChildReads(c) \/ ChildShutsDown(c) \/ ChildDrains(c)
         PROVE  EchoTyped'
    <2>1. Append(toClient[c], Bye) \in Seq(Nat) BY <1>0 DEF Bye
    <2> QED BY <1>0, <1>10, <2>1
        DEF ChildReads, ChildShutsDown, ChildDrains, server, clients, wires
  <1>11. ASSUME NEW c \in Clients, ChildWrites(c) \/ ChildWriteFails(c) PROVE EchoTyped'
    <2>1. child[c] = "write" BY <1>11 DEF ChildWrites, ChildWriteFails
    <2>2. toServer[c] # <<>> BY <2>1 DEF EchoInv, Talk
    <2>3. Tail(toServer[c]) \in Seq(Nat) /\ Head(toServer[c]) \in Nat BY <1>0, <2>2
    <2>4. Append(toClient[c], Head(toServer[c])) \in Seq(Nat) BY <1>0, <2>3
    <2>5. toServer' = [toServer EXCEPT ![c] = Tail(toServer[c])]
      BY <1>11 DEF ChildWrites, ChildWriteFails
    <2>6. toServer' \in [Clients -> Seq(Nat)] BY <1>0, <2>3, <2>5
    <2>7. toClient' \in [Clients -> Seq(Nat)]
      BY <1>0, <1>11, <2>4 DEF ChildWrites, ChildWriteFails
    <2>8. child' \in [Clients -> {"none", "read", "write", "close", "drain", "gone"}]
      BY <1>0, <1>11 DEF ChildWrites, ChildWriteFails
    <2> QED BY <1>0, <1>11, <2>6, <2>7, <2>8 DEF ChildWrites, ChildWriteFails, server, clients
  <1>12. ASSUME NEW c \in Clients, Connect(c) PROVE EchoTyped'
    <2>1. Append(backlog, c) \in Seq(Clients) BY <1>0
    <2> QED BY <1>0, <1>12, <2>1 DEF Connect, children, wires
  <1>13. ASSUME NEW c \in Clients, SslConnect(c) PROVE EchoTyped'
    BY <1>0, <1>13 DEF SslConnect, server, children, wires
  <1>14. ASSUME NEW c \in Clients, Say(c) PROVE EchoTyped'
    <2>1. said[c] + 1 \in Nat BY <1>0
    <2>2. said' = [said EXCEPT ![c] = said[c] + 1] BY <1>14 DEF Say
    <2>3. said' \in [Clients -> Nat] /\ said'[c] \in Nat BY <1>0, <2>1, <2>2
    <2>4. Append(toServer[c], said'[c]) \in Seq(Nat) BY <1>0, <2>3
    <2> QED BY <1>0, <1>14, <2>3, <2>4 DEF Say, server, children
  <1>15. ASSUME NEW c \in Clients, Leave(c) PROVE EchoTyped'
    <2>1. Append(toServer[c], Bye) \in Seq(Nat) BY <1>0 DEF Bye
    <2> QED BY <1>0, <1>15, <2>1 DEF Leave, server, children
  <1>16. ASSUME NEW c \in Clients, Hears(c) PROVE EchoTyped'
    <2>1. CASE Leave(c) BY <1>15, <2>1
    <2>2. CASE ~Leave(c)
      <3>1. Tail(toClient[c]) \in Seq(Nat) BY <1>0, <1>16 DEF Hears
      <3> QED BY <1>0, <1>16, <2>2, <3>1 DEF Hears, server, children
    <2> QED BY <2>1, <2>2
  <1>17. ASSUME NEW everybody \in BOOLEAN, Signal(everybody) PROVE EchoTyped'
    <2>1. SignalParent /\ UNCHANGED <<clients, wires>> BY <1>17 DEF Signal
    <2>2. /\ child' \in [Clients -> {"none", "read", "write", "close", "drain", "gone"}]
          /\ goes_on' \in [Clients -> BOOLEAN]
      BY <1>0, <1>17 DEF Signal, children
    <2>3. /\ parent' \in {"test", "select", "accept", "handshake", "fork", "cleanup", "wait", "gone"}
          /\ running' \in BOOLEAN /\ conn' \in Clients \cup {None} /\ backlog' \in Seq(Clients)
      <3>1. <<>> \in Seq(Clients) OBVIOUS
      <3>2. CASE running
        BY <1>0, <2>1, <3>2 DEF SignalParent
      <3>3. CASE ~running
        <4>1. End /\ running' = running BY <2>1, <3>3 DEF SignalParent
        <4> QED BY <1>0, <3>1, <4>1 DEF End
      <3> QED BY <3>2, <3>3
    <2> QED BY <1>0, <2>1, <2>2, <2>3 DEF clients, wires
  <1>18. CASE UNCHANGED echoVars
    BY <1>0, <1>18 DEF echoVars, server, children, clients, wires
  <1> HIDE DEF EchoTyped
  <1> QED
    BY <1>1, <1>2, <1>3, <1>4, <1>5, <1>6, <1>7, <1>8, <1>9, <1>10, <1>11, <1>12, <1>13,
       <1>14, <1>15, <1>16, <1>17, <1>18
    DEF EchoNext, ParentStep, ChildStep, ClientStep, IsCut, Leaves

(* A connection that nothing happens to, but that the parent may let go.   *)
LEMMA NothingHappens ==
  ASSUME NEW c \in Clients, Where(c), Talk(c),
         client'[c] = client[c], child'[c] = child[c],
         toServer'[c] = toServer[c], toClient'[c] = toClient[c],
         Waits(c)' => Waits(c),
         c \in fds' => c \in fds /\ parent' = parent
  PROVE  Where(c)' /\ Talk(c)'
  <1>1. Alive(c)' <=> Alive(c) BY DEF Alive
  <1>2. Where(c)' BY <1>1 DEF Where
  <1>3. Talk(c)' BY <1>1 DEF Talk, EndsWithBye
  <1> QED BY <1>2, <1>3

(* Nor to one whose child ends.                                            *)
LEMMA ChildGone ==
  ASSUME NEW c \in Clients, Where(c), Talk(c), Alive(c),
         client'[c] = client[c], child'[c] = "gone",
         Waits(c)' => Waits(c),
         c \in fds' => c \in fds
  PROVE  Where(c)' /\ Talk(c)'
  <1>1. ~Alive(c)' BY DEF Alive
  <1>2. ~Waits(c)' /\ c \notin fds' BY DEF Where, Alive
  <1>3. client[c] # "start" BY DEF Where
  <1> QED BY <1>1, <1>2, <1>3 DEF Where, Talk

(* The backlog as a whole when the parent lets go of it or keeps it.       *)
LEMMA BacklogLess ==
  ASSUME BacklogInv, backlog' = backlog \/ backlog' = <<>>,
         parent' = "accept" => backlog' # <<>>,
         parent' \in {"wait", "gone"} => backlog' = <<>>,
         parent' \in {"handshake", "fork"} => conn' \in Clients
  PROVE  BacklogInv' /\ \A c : Waits(c)' => Waits(c)
  <1>1. CASE backlog' = backlog BY <1>1 DEF BacklogInv, Waits
  <1>2. CASE backlog' = <<>>
    <2>1. DOMAIN backlog' = {} BY <1>2
    <2> QED BY <2>1 DEF BacklogInv, Waits
  <1> QED BY <1>1, <1>2

(* The steps of the parent in which it lets go of a connection, or of none.*)
LEMMA ParentLetsGo ==
  ASSUME EchoInv, HoldsOne',
         Test \/ Select \/ HandshakeFails \/ HandshakeKills \/ ForkFails \/ Cleanup
           \/ WaitForChildren
  PROVE  BacklogInv' /\ \A c \in Clients : Where(c)' /\ Talk(c)'
  <1>1. BacklogInv /\ HoldsOne /\ \A c \in Clients : Where(c) /\ Talk(c) BY DEF EchoInv
  <1>2. UNCHANGED <<children, clients, wires>>
    BY DEF Test, Select, HandshakeFails, HandshakeKills, ForkFails, Cleanup, WaitForChildren, End
  <1>3. backlog' = backlog \/ backlog' = <<>>
    BY DEF Test, Select, HandshakeFails, HandshakeKills, ForkFails, Cleanup, WaitForChildren, End
  <1>4. parent' \in {"select", "cleanup", "accept", "test", "gone", "wait"}
    BY DEF Test, Select, HandshakeFails, HandshakeKills, ForkFails, Cleanup, WaitForChildren, End
  <1>5. (parent' = "accept" => backlog' # <<>>) /\ (parent' \in {"wait", "gone"} => backlog' = <<>>)
    BY DEF Test, Select, HandshakeFails, HandshakeKills, ForkFails, Cleanup, WaitForChildren, End
  <1>6. BacklogInv' /\ \A c : Waits(c)' => Waits(c) BY <1>1, <1>3, <1>4, <1>5, BacklogLess
  <1>7. fds' = {} BY <1>4 DEF HoldsOne
  <1>8. ASSUME NEW c \in Clients PROVE Where(c)' /\ Talk(c)'
    BY <1>1, <1>2, <1>6, <1>7, NothingHappens DEF children, clients, wires
  <1> QED BY <1>6, <1>8

(* accept() takes the first connection out of the backlog.                 *)
LEMMA AcceptGoesOn ==
  ASSUME EchoInv, Accept
  PROVE  BacklogInv' /\ \A c \in Clients : Where(c)' /\ Talk(c)'
  <1>1. EchoTyped /\ BacklogInv /\ HoldsOne /\ \A c \in Clients : Where(c) /\ Talk(c)
    BY DEF EchoInv
  <1>2. /\ parent = "accept" /\ parent' = "handshake" /\ UNCHANGED <<children, clients, wires>>
        /\ conn' = Head(backlog) /\ backlog' = Tail(backlog) /\ fds' = fds \cup {conn'}
    BY DEF Accept
  <1>3. fds = {} /\ backlog # <<>> /\ backlog \in Seq(Clients)
    BY <1>1, <1>2 DEF HoldsOne, BacklogInv, EchoTyped
  <1>4. /\ Len(backlog) \in Nat \ {0} /\ DOMAIN backlog = 1 .. Len(backlog)
        /\ conn' = backlog[1] /\ conn' \in Clients
        /\ DOMAIN backlog' = 1 .. Len(backlog) - 1
        /\ \A i \in 1 .. Len(backlog) - 1 : backlog'[i] = backlog[i + 1]
    BY <1>2, <1>3
  <1>5. \A i \in DOMAIN backlog' : i \in Nat /\ i + 1 \in DOMAIN backlog /\ i + 1 # 1
                                   /\ backlog'[i] = backlog[i + 1]
    BY <1>4
  <1>first. PICK h \in Clients : h = conn' BY <1>4
  <1>6. Waits(h) /\ ~Waits(h)'
    <2>1. 1 \in DOMAIN backlog BY <1>4
    <2>2. \A i \in DOMAIN backlog' : backlog'[i] # h
      BY <1>1, <1>4, <1>5, <1>first, <2>1 DEF BacklogInv
    <2> QED BY <1>4, <1>first, <2>1, <2>2 DEF Waits
  <1>7. \A c : Waits(c)' => Waits(c) BY <1>5 DEF Waits
  <1>8. BacklogInv'
    <2>1. ASSUME NEW i \in DOMAIN backlog', NEW j \in DOMAIN backlog', backlog'[i] = backlog'[j]
          PROVE  i = j
      <3>1. i + 1 = j + 1 BY <1>1, <1>5, <2>1 DEF BacklogInv
      <3> QED BY <1>5, <3>1
    <2> QED BY <1>2, <1>4, <2>1 DEF BacklogInv
  <1>9. ASSUME NEW c \in Clients PROVE Where(c)' /\ Talk(c)'
    <2>1. client' = client /\ child' = child /\ toServer' = toServer /\ toClient' = toClient
      BY <1>2 DEF children, clients, wires
    <2>2. CASE c = h
      <3>1. child[c] = "none" /\ client[c] \in {"tcp", "connect", "gone"}
        BY <1>1, <1>6, <2>2 DEF Where
      <3>2. ~Alive(c)' /\ ~Waits(c)' BY <1>6, <2>1, <2>2, <3>1 DEF Alive
      <3>3. client[c] = "gone" => EndsWithBye(toServer[c]) BY <1>1, <1>6, <2>2 DEF Talk
      <3>4. Where(c)' BY <1>2, <2>1, <3>1, <3>2 DEF Where, Alive
      <3>5. Talk(c)' BY <2>1, <3>1, <3>2, <3>3 DEF Talk, EndsWithBye
      <3> QED BY <3>4, <3>5
    <2>3. CASE c # h
      <3>1. c \notin fds' BY <1>2, <1>3, <1>first, <2>3
      <3> QED BY <1>1, <1>7, <2>1, <3>1, NothingHappens
    <2> QED BY <2>2, <2>3
  <1> QED BY <1>8, <1>9

(* After the handshake the client types, while the parent forks.           *)
LEMMA HandshakeGoesOn ==
  ASSUME EchoInv, Handshake
  PROVE  BacklogInv' /\ \A c \in Clients : Where(c)' /\ Talk(c)'
  <1>1. EchoTyped /\ BacklogInv /\ HoldsOne /\ \A c \in Clients : Where(c) /\ Talk(c)
    BY DEF EchoInv
  <1>2. /\ parent = "handshake" /\ parent' = "fork"
        /\ client' = [client EXCEPT ![conn] = "type"]
        /\ UNCHANGED <<conn, backlog, fds, child, toServer, toClient>>
        /\ client[conn] = "connect"
    BY DEF Handshake, children, wires
  <1>3. conn \in Clients /\ fds = {conn} BY <1>1, <1>2 DEF BacklogInv, HoldsOne
  <1>4. BacklogInv' /\ \A c : Waits(c)' => Waits(c) BY <1>1, <1>2, <1>3, BacklogLess
  <1>5. ASSUME NEW c \in Clients PROVE Where(c)' /\ Talk(c)'
    <2>1. CASE c = conn
      <3>1. child[c] = "none" /\ ~Waits(c) BY <1>1, <1>3, <2>1 DEF Where
      <3>2. client'[c] = "type" /\ child'[c] = "none" /\ ~Waits(c)'
        BY <1>1, <1>2, <1>4, <2>1, <3>1 DEF EchoTyped
      <3>3. ~Alive(c)' BY <3>2 DEF Alive
      <3>4. Where(c)' BY <1>2, <3>2, <3>3 DEF Where
      <3>5. Talk(c)' BY <3>2 DEF Talk
      <3> QED BY <3>4, <3>5
    <2>2. CASE c # conn
      <3>1. client'[c] = client[c] /\ c \notin fds' BY <1>1, <1>2, <1>3, <2>2 DEF EchoTyped
      <3> QED BY <1>1, <1>2, <1>4, <3>1, NothingHappens
    <2> QED BY <2>1, <2>2
  <1> QED BY <1>4, <1>5

(* fork() gives the connection to the child.                               *)
LEMMA ForkGoesOn ==
  ASSUME EchoInv, HoldsOne', Fork
  PROVE  BacklogInv' /\ \A c \in Clients : Where(c)' /\ Talk(c)'
  <1>1. EchoTyped /\ BacklogInv /\ HoldsOne /\ \A c \in Clients : Where(c) /\ Talk(c)
    BY DEF EchoInv
  <1>2. /\ parent = "fork" /\ parent' = "test"
        /\ child' = [child EXCEPT ![conn] = "read"]
        /\ UNCHANGED <<backlog, client, toServer, toClient>>
    BY DEF Fork, clients, wires
  <1>3. conn \in Clients /\ fds = {conn} /\ fds' = {}
    BY <1>1, <1>2 DEF BacklogInv, HoldsOne
  <1>4. BacklogInv' /\ \A c : Waits(c)' => Waits(c) BY <1>1, <1>2, BacklogLess
  <1>5. ASSUME NEW c \in Clients PROVE Where(c)' /\ Talk(c)'
    <2>1. CASE c = conn
      <3>1. child[c] = "none" /\ client[c] \in {"type", "wait", "gone"} /\ ~Waits(c)
        BY <1>1, <1>2, <1>3, <2>1 DEF Where
      <3>2. child'[c] = "read" /\ client'[c] = client[c] /\ ~Waits(c)' /\ c \notin fds'
        BY <1>1, <1>2, <1>3, <1>4, <2>1, <3>1 DEF EchoTyped
      <3>3. Where(c)' BY <3>1, <3>2 DEF Where
      <3>4. /\ client[c] = "gone" => EndsWithBye(toServer[c])
            /\ client[c] = "wait" => toServer[c] # <<>> \/ toClient[c] # <<>>
        BY <1>1, <1>3, <2>1 DEF Talk
      <3>5. Talk(c)' BY <1>2, <3>2, <3>4 DEF Talk, EndsWithBye
      <3> QED BY <3>3, <3>5
    <2>2. CASE c # conn
      <3>1. child'[c] = child[c] /\ c \notin fds' BY <1>1, <1>2, <1>3, <2>2 DEF EchoTyped
      <3> QED BY <1>1, <1>2, <1>4, <3>1, NothingHappens
    <2> QED BY <2>1, <2>2
  <1> QED BY <1>4, <1>5

(* A signal ends processes or lets them go on.                             *)
LEMMA SignalGoesOn ==
  ASSUME EchoInv, NEW everybody \in BOOLEAN, Signal(everybody)
  PROVE  BacklogInv' /\ \A c \in Clients : Where(c)' /\ Talk(c)'
  <1>1. EchoTyped /\ BacklogInv /\ HoldsOne /\ \A c \in Clients : Where(c) /\ Talk(c)
    BY DEF EchoInv
  <1>2. SignalParent /\ UNCHANGED <<clients, wires>> BY DEF Signal
  <1>3. \/ parent' = "gone" /\ backlog' = <<>> /\ fds' = {}
        \/ /\ UNCHANGED <<conn, backlog, fds>>
           /\ UNCHANGED parent \/ (parent = "select" /\ parent' = "test")
    BY <1>2 DEF SignalParent, End
  <1>4. BacklogInv' /\ \A c : Waits(c)' => Waits(c)
    <2>1. CASE parent' = "gone" /\ backlog' = <<>> /\ fds' = {} BY <1>1, <2>1, BacklogLess
    <2>2. CASE /\ UNCHANGED <<conn, backlog, fds>>
               /\ UNCHANGED parent \/ (parent = "select" /\ parent' = "test")
      <3>1. /\ parent' = "accept" => backlog' # <<>>
            /\ parent' \in {"wait", "gone"} => backlog' = <<>>
            /\ parent' \in {"handshake", "fork"} => conn' \in Clients
        BY <1>1, <2>2 DEF BacklogInv
      <3> QED BY <1>1, <2>2, <3>1, BacklogLess
    <2> QED BY <1>3, <2>1, <2>2
  <1>5. \A c : c \in fds' => c \in fds /\ parent' = parent
    <2>1. parent = "select" => fds = {} BY <1>1 DEF HoldsOne
    <2> QED BY <1>3, <2>1
  <1>6. ASSUME NEW c \in Clients PROVE Where(c)' /\ Talk(c)'
    <2>1. child'[c] = child[c] \/ (Alive(c) /\ child'[c] = "gone")
      BY DEF Signal, children
    <2>2. client' = client /\ toServer' = toServer /\ toClient' = toClient
      BY <1>2 DEF clients, wires
    <2>3. CASE child'[c] = child[c] BY <1>1, <1>4, <1>5, <2>2, <2>3, NothingHappens
    <2>4. CASE Alive(c) /\ child'[c] = "gone" BY <1>1, <1>4, <1>5, <2>2, <2>4, ChildGone
    <2> QED BY <2>1, <2>3, <2>4
  <1> QED BY <1>4, <1>6

(* What happens to one connection leaves the others alone.                 *)
LEMMA OneOfMany ==
  ASSUME EchoInv, NEW c \in Clients, UNCHANGED <<parent, conn, backlog, fds>>,
         \A d \in Clients \ {c} :
           /\ client'[d] = client[d] /\ child'[d] = child[d]
           /\ toServer'[d] = toServer[d] /\ toClient'[d] = toClient[d],
         Where(c)' /\ Talk(c)'
  PROVE  BacklogInv' /\ \A d \in Clients : Where(d)' /\ Talk(d)'
  <1>1. BacklogInv /\ \A d \in Clients : Where(d) /\ Talk(d) BY DEF EchoInv
  <1>2. BacklogInv' BY <1>1 DEF BacklogInv
  <1>3. \A d : Waits(d)' => Waits(d) BY DEF Waits
  <1>4. ASSUME NEW d \in Clients, d # c PROVE Where(d)' /\ Talk(d)'
    BY <1>1, <1>3, <1>4, NothingHappens
  <1> QED BY <1>2, <1>4

LEMMA ChildGoesOn ==
  ASSUME EchoInv, NEW c \in Clients, ChildStep(c)
  PROVE  BacklogInv' /\ \A d \in Clients : Where(d)' /\ Talk(d)'
  <1>1. EchoTyped /\ Where(c) /\ Talk(c) BY DEF EchoInv
  <1>2. UNCHANGED <<parent, conn, backlog, fds, client>> /\ child[c] \in {"read", "write", "close", "drain"}
    BY DEF ChildStep, ChildReads, ChildWrites, ChildWriteFails, ChildShutsDown, ChildDrains,
           server, clients
  <1>3. \A d \in Clients \ {c} :
          /\ client'[d] = client[d] /\ child'[d] = child[d]
          /\ toServer'[d] = toServer[d] /\ toClient'[d] = toClient[d]
    BY <1>1 DEF EchoTyped, ChildStep, ChildReads, ChildWrites, ChildWriteFails, ChildShutsDown,
                ChildDrains, clients, wires
  <1>4. Alive(c) /\ ~Waits(c) /\ ~Waits(c)' /\ c \notin fds /\ c \notin fds'
        /\ client[c] \in {"type", "wait", "gone"}
    BY <1>1, <1>2 DEF Where, Alive, Waits
  <1>5. Where(c)' BY <1>2, <1>4 DEF Where
  <1>6. toServer[c] \in Seq(Nat) /\ toClient[c] \in Seq(Nat) BY <1>1 DEF EchoTyped
  <1>7. client[c] = "gone" => EndsWithBye(toServer[c]) BY <1>1, <1>4 DEF Talk
  <1>8. Talk(c)'
    <2>1. CASE ChildReads(c)
      <3>1. /\ toServer[c] # <<>> /\ UNCHANGED <<toServer, toClient>>
            /\ child'[c] = IF Head(toServer[c]) = Bye THEN "close" ELSE "write"
        BY <1>1, <2>1 DEF ChildReads, EchoTyped, wires
      <3> QED BY <1>2, <1>4, <1>7, <3>1 DEF Talk, EndsWithBye
    <2>2. CASE ChildWrites(c)
      <3>1. toServer[c] # <<>> /\ Head(toServer[c]) # Bye BY <1>1, <2>2 DEF ChildWrites, Talk
      <3>2. /\ toServer'[c] = Tail(toServer[c])
            /\ toClient'[c] = Append(toClient[c], Head(toServer[c]))
            /\ child'[c] \in {"read", "close"}
        BY <1>1, <2>2 DEF ChildWrites, EchoTyped
      <3>3. Head(toServer[c]) \in Nat BY <1>6, <3>1
      <3>4. toClient'[c] # <<>>
        <4>1. Append(toClient[c], Head(toServer[c])) # <<>> BY <1>6, <3>3, FirstStays, Zenon
        <4> QED BY <3>2, <4>1, Zenon
      <3>5. EndsWithBye(toServer[c]) => EndsWithBye(Tail(toServer[c])) BY <1>6, <3>1, ByeLast
      <3>6. client[c] = "gone" => EndsWithBye(toServer'[c]) BY <1>7, <3>2, <3>5
      <3> QED BY <1>2, <3>2, <3>4, <3>6 DEF Talk, EndsWithBye
    <2>3. CASE ChildWriteFails(c)
      <3>1. toServer[c] # <<>> /\ Head(toServer[c]) # Bye BY <1>1, <2>3 DEF ChildWriteFails, Talk
      <3>2. /\ toServer'[c] = Tail(toServer[c]) /\ client[c] = "gone"
            /\ child'[c] \in {"close", "gone"}
        BY <1>1, <2>3 DEF ChildWriteFails, EchoTyped
      <3>3. EndsWithBye(toServer'[c]) BY <1>6, <1>7, <3>1, <3>2, ByeLast
      <3> QED BY <1>2, <3>2, <3>3 DEF Talk, EndsWithBye
    <2>4. CASE ChildShutsDown(c)
      <3>1. /\ toClient'[c] = Append(toClient[c], Bye) /\ toServer' = toServer
            /\ child'[c] \in {"gone", "drain"}
        BY <1>1, <2>4 DEF ChildShutsDown, EchoTyped
      <3>2. EndsWithBye(toClient'[c]) BY <1>6, <3>1, ByeLast
      <3> QED BY <1>2, <1>4, <1>7, <3>1, <3>2 DEF Talk, EndsWithBye
    <2>5. CASE ChildDrains(c)
      <3>1. child'[c] = "gone" BY <1>1, <2>5 DEF ChildDrains, EchoTyped
      <3>2. ~Alive(c)' BY <3>1 DEF Alive
      <3> QED BY <1>4, <3>1, <3>2 DEF Talk
    <2> QED BY <2>1, <2>2, <2>3, <2>4, <2>5 DEF ChildStep
  <1> QED BY <1>2, <1>3, <1>5, <1>8, OneOfMany

(* A client that leaves says so.                                           *)
LEMMA LeaveGoesOn ==
  ASSUME EchoInv, NEW c \in Clients, client[c] # "start", Leave(c)
  PROVE  BacklogInv' /\ \A d \in Clients : Where(d)' /\ Talk(d)'
  <1>1. EchoTyped /\ Where(c) /\ Talk(c) BY DEF EchoInv
  <1>2. /\ UNCHANGED <<parent, conn, backlog, fds, child, toClient>>
        /\ client' = [client EXCEPT ![c] = "gone"]
        /\ toServer' = [toServer EXCEPT ![c] = Append(toServer[c], Bye)]
    BY DEF Leave, server, children
  <1>3. \A d \in Clients \ {c} :
          /\ client'[d] = client[d] /\ child'[d] = child[d]
          /\ toServer'[d] = toServer[d] /\ toClient'[d] = toClient[d]
    BY <1>1, <1>2 DEF EchoTyped
  <1>4. client'[c] = "gone" /\ toServer'[c] = Append(toServer[c], Bye)
    BY <1>1, <1>2 DEF EchoTyped
  <1>5. (Waits(c)' <=> Waits(c)) /\ (Alive(c)' <=> Alive(c)) BY <1>2 DEF Waits, Alive
  <1>6. Where(c)' BY <1>1, <1>2, <1>4, <1>5 DEF Where
  <1>7. toServer[c] \in Seq(Nat) /\ Bye \in Nat BY <1>1 DEF EchoTyped, Bye
  <1>8. EndsWithBye(toServer'[c]) BY <1>4, <1>7, ByeLast
  <1>9. child[c] = "write" => toServer'[c] # <<>> /\ Head(toServer'[c]) # Bye
    BY <1>1, <1>4, <1>7, FirstStays DEF Talk
  <1>10. Talk(c)' BY <1>2, <1>4, <1>8, <1>9 DEF Talk, EndsWithBye
  <1> QED BY <1>2, <1>3, <1>6, <1>10, OneOfMany

LEMMA ClientGoesOn ==
  ASSUME EchoInv, NEW c \in Clients, ClientStep(c) \/ Say(c) \/ Leaves(c)
  PROVE  BacklogInv' /\ \A d \in Clients : Where(d)' /\ Talk(d)'
  <1>1. EchoTyped /\ Where(c) /\ Talk(c) BY DEF EchoInv
  <1>2. toServer[c] \in Seq(Nat) /\ toClient[c] \in Seq(Nat) BY <1>1 DEF EchoTyped
  <1>3. CASE SslConnect(c)
    <2>1. /\ UNCHANGED <<parent, conn, backlog, fds, child, toServer, toClient>>
          /\ client[c] = "tcp" /\ client' = [client EXCEPT ![c] = "connect"]
      BY <1>3 DEF SslConnect, server, children, wires
    <2>2. client'[c] = "connect" /\ \A d \in Clients \ {c} : client'[d] = client[d]
      BY <1>1, <2>1 DEF EchoTyped
    <2>3. (Waits(c)' <=> Waits(c)) /\ (Alive(c)' <=> Alive(c)) BY <2>1 DEF Waits, Alive
    <2>4. Where(c)' BY <1>1, <2>1, <2>2, <2>3 DEF Where
    <2>5. Talk(c)' BY <1>1, <2>1, <2>2 DEF Talk
    <2> QED BY <2>1, <2>2, <2>4, <2>5, OneOfMany
  <1>4. CASE Say(c)
    <2>1. /\ UNCHANGED <<parent, conn, backlog, fds, child, toClient>>
          /\ client[c] = "type" /\ client' = [client EXCEPT ![c] = "wait"]
          /\ said' = [said EXCEPT ![c] = said[c] + 1]
          /\ toServer' = [toServer EXCEPT ![c] = Append(toServer[c], said'[c])]
      BY <1>4 DEF Say, server, children
    <2>2. client'[c] = "wait" /\ toServer'[c] = Append(toServer[c], said'[c])
      BY <1>1, <2>1 DEF EchoTyped
    <2>3. \A d \in Clients \ {c} : client'[d] = client[d] /\ toServer'[d] = toServer[d]
      BY <1>1, <2>1 DEF EchoTyped
    <2>4. said'[c] \in Nat BY <1>1, <2>1 DEF EchoTyped
    <2>5. toServer'[c] # <<>> /\ (toServer[c] # <<>> => Head(toServer'[c]) = Head(toServer[c]))
      BY <1>2, <2>2, <2>4, FirstStays
    <2>6. (Waits(c)' <=> Waits(c)) /\ (Alive(c)' <=> Alive(c)) BY <2>1 DEF Waits, Alive
    <2>7. Where(c)' BY <1>1, <2>1, <2>2, <2>6 DEF Where
    <2>8. Talk(c)' BY <1>1, <2>1, <2>2, <2>5 DEF Talk, EndsWithBye
    <2> QED BY <2>1, <2>3, <2>7, <2>8, OneOfMany
  <1>5. CASE Leaves(c) BY <1>5, LeaveGoesOn DEF Leaves
  <1>6. CASE IsCut(c) BY <1>6, LeaveGoesOn DEF IsCut
  <1>7. CASE Hears(c)
    <2>1. CASE Head(toClient[c]) = Bye BY <1>7, <2>1, LeaveGoesOn DEF Hears
    <2>2. CASE Head(toClient[c]) # Bye
      <3>1. /\ UNCHANGED <<parent, conn, backlog, fds, child, toServer>>
            /\ client[c] = "wait" /\ client' = [client EXCEPT ![c] = "type"]
            /\ toClient[c] # <<>> /\ toClient' = [toClient EXCEPT ![c] = Tail(toClient[c])]
        BY <1>7, <2>2 DEF Hears, server, children
      <3>2. client'[c] = "type" /\ toClient'[c] = Tail(toClient[c])
        BY <1>1, <3>1 DEF EchoTyped
      <3>3. \A d \in Clients \ {c} : client'[d] = client[d] /\ toClient'[d] = toClient[d]
        BY <1>1, <3>1 DEF EchoTyped
      <3>4. EndsWithBye(toClient[c]) => EndsWithBye(toClient'[c]) BY <1>2, <2>2, <3>2, ByeLast
      <3>5. (Waits(c)' <=> Waits(c)) /\ (Alive(c)' <=> Alive(c)) BY <3>1 DEF Waits, Alive
      <3>6. Where(c)' BY <1>1, <3>1, <3>2, <3>5 DEF Where
      <3>7. Talk(c)' BY <1>1, <3>1, <3>2, <3>4 DEF Talk, EndsWithBye
      <3> QED BY <3>1, <3>3, <3>6, <3>7, OneOfMany
    <2> QED BY <2>1, <2>2
  <1> QED BY <1>3, <1>4, <1>5, <1>6, <1>7 DEF ClientStep

(* A client that connects comes last in the backlog, or is refused.        *)
LEMMA ConnectGoesOn ==
  ASSUME EchoInv, NEW c \in Clients, Connect(c)
  PROVE  BacklogInv' /\ \A d \in Clients : Where(d)' /\ Talk(d)'
  <1>1. EchoTyped /\ BacklogInv /\ \A d \in Clients : Where(d) /\ Talk(d) BY DEF EchoInv
  <1>2. UNCHANGED <<parent, conn, fds, child, toServer, toClient>> /\ client[c] = "start"
    BY DEF Connect, children, wires
  <1>3. child[c] = "none" /\ ~Waits(c) /\ c \notin fds BY <1>1, <1>2 DEF Where
  <1>4. ~Alive(c)' BY <1>2, <1>3 DEF Alive
  <1>5. CASE parent \in {"wait", "gone"}
    <2>1. client' = [client EXCEPT ![c] = "gone"] /\ backlog' = backlog BY <1>5 DEF Connect
    <2>2. client'[c] = "gone" /\ \A d \in Clients \ {c} : client'[d] = client[d]
      BY <1>1, <2>1 DEF EchoTyped
    <2>3. ~Waits(c)' BY <1>3, <2>1 DEF Waits
    <2>4. Where(c)' BY <1>2, <1>3, <1>4, <2>2, <2>3 DEF Where
    <2>5. Talk(c)' BY <1>2, <1>3, <1>4, <2>2, <2>3 DEF Talk
    <2> QED BY <1>2, <2>1, <2>2, <2>4, <2>5, OneOfMany
  <1>6. CASE parent \notin {"wait", "gone"}
    <2>1. client' = [client EXCEPT ![c] = "tcp"] /\ backlog' = Append(backlog, c)
      BY <1>6 DEF Connect
    <2>2. client'[c] = "tcp" /\ \A d \in Clients \ {c} : client'[d] = client[d]
      BY <1>1, <2>1 DEF EchoTyped
    <2>3. /\ Len(backlog) \in Nat /\ DOMAIN backlog = 1 .. Len(backlog)
          /\ DOMAIN backlog' = 1 .. Len(backlog) + 1
          /\ backlog'[Len(backlog) + 1] = c
          /\ \A i \in 1 .. Len(backlog) : backlog'[i] = backlog[i]
      BY <1>1, <2>1 DEF EchoTyped
    <2>4. \A i \in DOMAIN backlog' :
            \/ i \in DOMAIN backlog /\ backlog'[i] = backlog[i]
            \/ i = Len(backlog) + 1 /\ backlog'[i] = c
      BY <2>3
    <2>5. \A i \in DOMAIN backlog : backlog[i] # c BY <1>3 DEF Waits
    <2>6. BacklogInv'
      <3>1. backlog' # <<>> BY <2>3
      <3>2. \A i, j \in DOMAIN backlog' : backlog'[i] = backlog'[j] => i = j
        BY <1>1, <2>4, <2>5 DEF BacklogInv
      <3> QED BY <1>1, <1>2, <1>6, <3>1, <3>2 DEF BacklogInv
    <2>7. \A d \in Clients \ {c} : Waits(d)' => Waits(d) BY <2>4 DEF Waits
    <2>8. Where(c)' BY <1>2, <1>3, <1>4, <2>2 DEF Where
    <2>9. Talk(c)' BY <1>2, <1>3, <2>2 DEF Talk
    <2>10. ASSUME NEW d \in Clients, d # c PROVE Where(d)' /\ Talk(d)'
      BY <1>1, <1>2, <2>2, <2>7, <2>10, NothingHappens
    <2> QED BY <2>6, <2>8, <2>9, <2>10
  <1> QED BY <1>5, <1>6

LEMMA EchoInvNext == EchoInv /\ [EchoNext]_echoVars => EchoInv'
  <1> SUFFICES ASSUME EchoInv, [EchoNext]_echoVars PROVE EchoInv'
    OBVIOUS
  <1>1. EchoTyped' BY EchoTypes
  <1>2. HoldsOne' BY HoldsNext DEF EchoInv
  <1>3. BacklogInv' /\ \A c \in Clients : Where(c)' /\ Talk(c)'
    <2>1. CASE ParentStep
      BY <1>2, <2>1, ParentLetsGo, AcceptGoesOn, HandshakeGoesOn, ForkGoesOn DEF ParentStep
    <2>2. CASE \E c \in Clients :
                 ChildStep(c) \/ ClientStep(c) \/ Connect(c) \/ Say(c) \/ Leaves(c)
      BY <2>2, ChildGoesOn, ClientGoesOn, ConnectGoesOn
    <2>3. CASE \E everybody \in BOOLEAN : Signal(everybody) BY <2>3, SignalGoesOn
    <2>4. CASE UNCHANGED echoVars
      <3>1. BacklogInv /\ \A c \in Clients : Where(c) /\ Talk(c) BY DEF EchoInv
      <3>2. UNCHANGED <<parent, conn, backlog, fds, child, client, toServer, toClient>>
        BY <2>4 DEF echoVars, server, children, clients, wires
      <3>3. BacklogInv' BY <3>1, <3>2 DEF BacklogInv
      <3>4. \A c : Waits(c)' => Waits(c) BY <3>2 DEF Waits
      <3>5. ASSUME NEW c \in Clients PROVE Where(c)' /\ Talk(c)'
        BY <3>1, <3>2, <3>4, NothingHappens
      <3> QED BY <3>3, <3>5
    <2> QED BY <2>1, <2>2, <2>3, <2>4 DEF EchoNext
  <1> QED BY <1>1, <1>2, <1>3 DEF EchoInv

LEMMA EchoInvInit == EchoInit => EchoInv
  <1> SUFFICES ASSUME EchoInit PROVE EchoInv
    OBVIOUS
  <1>1. EchoTyped
    <2>1. <<>> \in Seq(Clients) /\ <<>> \in Seq(Nat) /\ 0 \in Nat
      OBVIOUS
    <2> QED BY <2>1 DEF EchoInit, EchoTyped
  <1>2. HoldsOne BY HoldsInit
  <1>3. BacklogInv BY DEF EchoInit, BacklogInv
  <1>4. ASSUME NEW c \in Clients PROVE Where(c) /\ Talk(c)
    <2>1. child[c] = "none" /\ client[c] = "start" /\ ~Waits(c) /\ c \notin fds
      BY DEF EchoInit, Waits
    <2> QED BY <2>1 DEF Where, Talk, Alive
  <1> QED BY <1>1, <1>2, <1>3, <1>4 DEF EchoInv

(* Where every connection is and what has been said on it.                 *)
THEOREM EchoInvariant == EchoSpec => []EchoInv
  BY EchoInvInit, EchoInvNext, PTL DEF EchoSpec

(* Whatever fails, whoever leaves and whenever signals come: no client does *)
(* its half of a handshake and no client waits for an answer without a     *)
(* process of the server, or the end of the connection, to go on with, and *)
(* no child waits for a client that is gone and has not said so.  This is  *)
(* the safety half of AnswerOrEnd and of ChildEnds.                        *)
THEOREM NobodyStuckAlways == EchoSpec => []NobodyStuck
  <1>1. EchoInv => NobodyStuck
    <2> SUFFICES ASSUME EchoInv, NEW c \in Clients
                 PROVE  /\ client[c] = "connect" /\ Connected(c) =>
                             Waits(c) \/ (parent = "handshake" /\ conn = c)
                        /\ client[c] = "wait" /\ Connected(c) =>
                             \/ toClient[c] # <<>> \/ child[c] \in {"write", "close"}
                             \/ /\ toServer[c] # <<>>
                                /\ child[c] = "read" \/ (parent = "fork" /\ conn = c)
                        /\ client[c] = "gone" /\ child[c] \in {"read", "drain"} =>
                             toServer[c] # <<>>
      BY DEF NobodyStuck
    <2>1. EchoTyped /\ HoldsOne /\ Where(c) /\ Talk(c) BY DEF EchoInv
    <2>2. Connected(c) <=> Alive(c) \/ c \in fds \/ Waits(c) BY DEF Connected, Waits
    <2>3. c \in fds => parent \in {"handshake", "fork"} /\ conn = c BY <2>1 DEF HoldsOne
    <2>4. ASSUME client[c] = "connect", Connected(c)
          PROVE  Waits(c) \/ (parent = "handshake" /\ conn = c)
      BY <2>1, <2>2, <2>3, <2>4 DEF Where
    <2>5. ASSUME client[c] = "wait", Connected(c)
          PROVE  \/ toClient[c] # <<>> \/ child[c] \in {"write", "close"}
                 \/ /\ toServer[c] # <<>>
                    /\ child[c] = "read" \/ (parent = "fork" /\ conn = c)
      <3>1. ~Waits(c) BY <2>1, <2>5 DEF Where
      <3>2. CASE c \in fds
        BY <2>1, <2>3, <2>5, <3>2 DEF Where, Talk
      <3>3. CASE Alive(c)
        <4>1. child[c] \in {"read", "write", "close", "drain"}
          BY <2>1, <3>3 DEF EchoTyped, Alive
        <4> QED BY <2>1, <2>5, <4>1 DEF Talk, EndsWithBye
      <3> QED BY <2>2, <2>5, <3>1, <3>2, <3>3
    <2>6. ASSUME client[c] = "gone", child[c] \in {"read", "drain"} PROVE toServer[c] # <<>>
      <3>1. Alive(c) BY <2>6 DEF Alive
      <3> QED BY <2>1, <2>6, <3>1 DEF Talk, EndsWithBye
    <2> QED BY <2>4, <2>5, <2>6
  <1> QED BY <1>1, EchoInvariant, PTL

-----------------------------------------------------------------------------
(* PruethFrameCopy: every byte to its place, for every size of a block, of *)
(* the ring and of the tag, and every shortest frame.                      *)

LEMMA BlockSizes ==
  /\ BlockSize \in Nat \ {0} /\ NumBds \in Nat \ {0} /\ TagSize \in Nat \ {0}
  /\ MinLength \in Nat \ {0} /\ TagSize < BlockSize /\ TagSize < MinLength
  BY CopyAssumption

LEMMA TimesMonotone ==
  ASSUME NEW i \in Nat, NEW j \in Nat, NEW a \in Nat, i <= j
  PROVE  i * a <= j * a
  OBVIOUS

LEMMA DivFloor ==
  ASSUME NEW n \in Nat, NEW a \in Nat \ {0}
  PROVE  n \div a \in Nat /\ (n \div a) * a <= n /\ n < (n \div a) * a + a
  OBVIOUS

(* DIV_ROUND_UP counts the blocks that n bytes begin.                      *)
LEMMA BlocksCover ==
  ASSUME NEW n \in Nat
  PROVE  /\ DivRoundUp(n, BlockSize) \in Nat
         /\ n <= DivRoundUp(n, BlockSize) * BlockSize
         /\ DivRoundUp(n, BlockSize) * BlockSize < n + BlockSize
  <1> DEFINE m == n + BlockSize - 1
             q == m \div BlockSize
  <1>1. m \in Nat BY BlockSizes
  <1>2. q = DivRoundUp(n, BlockSize) BY DEF DivRoundUp
  <1>3. q \in Nat /\ q * BlockSize <= m /\ m < q * BlockSize + BlockSize
    <2> HIDE DEF m
    <2> QED BY <1>1, BlockSizes, DivFloor
  <1>4. q * BlockSize \in Nat BY <1>3, BlockSizes
  <1> HIDE DEF q
  <1> QED BY <1>2, <1>3, <1>4, BlockSizes

(* And no other number does.                                               *)
LEMMA BlocksUnique ==
  ASSUME NEW n \in Nat, NEW q \in Nat, n <= q * BlockSize, q * BlockSize < n + BlockSize
  PROVE  DivRoundUp(n, BlockSize) = q
  <1> DEFINE r == DivRoundUp(n, BlockSize)
  <1>1. r \in Nat /\ n <= r * BlockSize /\ r * BlockSize < n + BlockSize BY BlocksCover
  <1> HIDE DEF r
  <1>2. ~(r <= q - 1)
    <2> SUFFICES ASSUME r <= q - 1 PROVE FALSE
      OBVIOUS
    <2>1. q - 1 \in Nat BY <1>1
    <2>2. r * BlockSize <= (q - 1) * BlockSize BY <1>1, <2>1, BlockSizes, TimesMonotone
    <2>3. (q - 1) * BlockSize = q * BlockSize - BlockSize BY BlockSizes
    <2>4. r * BlockSize \in Nat /\ q * BlockSize \in Nat BY <1>1, BlockSizes
    <2> QED BY <1>1, <2>2, <2>3, <2>4, BlockSizes
  <1>3. ~(q <= r - 1)
    <2> SUFFICES ASSUME q <= r - 1 PROVE FALSE
      OBVIOUS
    <2>1. r - 1 \in Nat BY <1>1
    <2>2. q * BlockSize <= (r - 1) * BlockSize BY <1>1, <2>1, BlockSizes, TimesMonotone
    <2>3. (r - 1) * BlockSize = r * BlockSize - BlockSize BY <1>1, BlockSizes
    <2>4. r * BlockSize \in Nat /\ q * BlockSize \in Nat BY <1>1, BlockSizes
    <2> QED BY <1>1, <2>2, <2>3, <2>4, BlockSizes
  <1>4. r = q BY <1>1, <1>2, <1>3
  <1> QED BY <1>4 DEF r

(* What is at least i blocks long ends in a block of its own.              *)
LEMMA RoundUpShifts ==
  ASSUME NEW n \in Nat, NEW i \in Nat
  PROVE  RoundUp(i * BlockSize + n, BlockSize) = i * BlockSize + RoundUp(n, BlockSize)
  <1> DEFINE q == DivRoundUp(n, BlockSize)
             m == i * BlockSize + n
  <1>1. q \in Nat /\ n <= q * BlockSize /\ q * BlockSize < n + BlockSize BY BlocksCover
  <1>2. i * BlockSize \in Nat /\ q * BlockSize \in Nat BY <1>1, BlockSizes
  <1>3. m \in Nat BY <1>2
  <1> HIDE DEF q
  <1>4. (i + q) * BlockSize = i * BlockSize + q * BlockSize BY <1>1, BlockSizes
  <1>5. i + q \in Nat /\ m <= (i + q) * BlockSize /\ (i + q) * BlockSize < m + BlockSize
    BY <1>1, <1>2, <1>4, BlockSizes
  <1>6. DivRoundUp(m, BlockSize) = i + q
    <2> HIDE DEF m
    <2> QED BY <1>3, <1>5, BlocksUnique
  <1>7. RoundUp(m, BlockSize) = BlockSize * (i + q) BY <1>6 DEF RoundUp
  <1>8. RoundUp(n, BlockSize) = BlockSize * q BY DEF RoundUp, q
  <1>9. BlockSize * (i + q) = i * BlockSize + BlockSize * q BY <1>1, BlockSizes
  <1> QED BY <1>7, <1>8, <1>9 DEF m

(* Where block b of the ring is, in bytes.                                 *)
LEMMA BlockBytes ==
  ASSUME NEW b \in 0 .. NumBds - 1
  PROVE  /\ RingBytes \in Nat \ {0}
         /\ b * BlockSize \in Nat /\ b * BlockSize + BlockSize <= RingBytes
         /\ (NumBds - b) * BlockSize = RingBytes - b * BlockSize
  <1>1. b \in Nat /\ b + 1 \in Nat /\ b + 1 <= NumBds BY BlockSizes
  <1>2. (b + 1) * BlockSize <= NumBds * BlockSize BY <1>1, BlockSizes, TimesMonotone
  <1>3. (b + 1) * BlockSize = b * BlockSize + BlockSize BY BlockSizes
  <1>4. b * BlockSize \in Nat /\ NumBds * BlockSize \in Nat BY <1>1, BlockSizes
  <1>5. (NumBds - b) * BlockSize = NumBds * BlockSize - b * BlockSize BY BlockSizes
  <1> QED BY <1>2, <1>3, <1>4, <1>5, BlockSizes DEF RingBytes

(* Before the end of the ring and behind it.                               *)
LEMMA RingByteIs ==
  ASSUME NEW b \in 0 .. NumBds - 1, NEW k \in 0 .. RingBytes - 1
  PROVE  RingByte(b, k) = IF b * BlockSize + k < RingBytes THEN b * BlockSize + k
                          ELSE b * BlockSize + k - RingBytes
  <1> DEFINE s == b * BlockSize
             r == RingBytes
  <1>1. s \in Nat /\ r \in Nat \ {0} /\ s < r BY BlockBytes, BlockSizes
  <1>2. k \in Nat /\ k < r BY <1>1
  <1>3. RingByte(b, k) = (s + k) % r BY DEF RingByte
  <1> HIDE DEF s, r
  <1>4. (s + k) % r = IF s + k < r THEN s + k ELSE s + k - r BY <1>1, <1>2
  <1> QED BY <1>3, <1>4 DEF s, r

(* A frame of q blocks at block b that does not reach the end of the ring, *)
(* and one that does.                                                      *)
LEMMA EndOfFrame ==
  ASSUME NEW b \in 0 .. NumBds - 1, NEW n \in Nat
  PROVE  LET q == DivRoundUp(n, BlockSize)
         IN /\ b + q < NumBds => b * BlockSize + n < RingBytes
            /\ b + q > NumBds => b * BlockSize + n > RingBytes
            /\ b + q = NumBds => b * BlockSize + n <= RingBytes
  <1> DEFINE q == DivRoundUp(n, BlockSize)
  <1>1. q \in Nat /\ n <= q * BlockSize /\ q * BlockSize < n + BlockSize BY BlocksCover
  <1>2. b * BlockSize \in Nat /\ q * BlockSize \in Nat /\ RingBytes \in Nat
    BY <1>1, BlockBytes, BlockSizes
  <1> HIDE DEF q
  <1>3. (b + q) * BlockSize = b * BlockSize + q * BlockSize BY <1>1, BlockSizes
  <1>4. ASSUME b + q < NumBds PROVE b * BlockSize + n < RingBytes
    <2>1. b + q \in Nat /\ b + q \in 0 .. NumBds - 1 BY <1>1, <1>4, BlockSizes
    <2>2. (b + q) * BlockSize + BlockSize <= RingBytes BY <2>1, BlockBytes
    <2> QED BY <1>1, <1>2, <1>3, <2>2, BlockSizes
  <1>5. ASSUME b + q > NumBds PROVE b * BlockSize + n > RingBytes
    <2>1. NumBds + 1 \in Nat /\ b + q \in Nat /\ NumBds + 1 <= b + q BY <1>1, <1>5, BlockSizes
    <2>2. (NumBds + 1) * BlockSize <= (b + q) * BlockSize BY <2>1, BlockSizes, TimesMonotone
    <2>3. (NumBds + 1) * BlockSize = RingBytes + BlockSize BY BlockSizes DEF RingBytes
    <2> QED BY <1>1, <1>2, <1>3, <2>2, <2>3, BlockSizes
  <1>6. ASSUME b + q = NumBds PROVE b * BlockSize + n <= RingBytes
    BY <1>1, <1>2, <1>3, <1>6, BlockSizes DEF RingBytes
  <1> QED BY <1>4, <1>5, <1>6 DEF q

(* A memcpy() in two parts, of m bytes and the rest, copies what one of n  *)
(* bytes does, if the parts meet on both sides.                            *)
LEMMA CopyJoins ==
  ASSUME NEW dst \in Int, NEW src \in Int, NEW n \in Nat, NEW m \in 0 .. n
  PROVE  Memcpy(dst, src, m) \cup Memcpy(dst + m, src + m, n - m) = Memcpy(dst, src, n)
  <1>1. ASSUME NEW k \in 0 .. m - 1
        PROVE  <<dst + k, src + k>> \in Memcpy(dst, src, n)
    <2>1. k \in 0 .. n - 1 OBVIOUS
    <2> QED BY <2>1 DEF Memcpy
  <1>2. ASSUME NEW k \in 0 .. n - m - 1
        PROVE  <<(dst + m) + k, (src + m) + k>> \in Memcpy(dst, src, n)
    <2>1. m + k \in 0 .. n - 1 OBVIOUS
    <2>2. (dst + m) + k = dst + (m + k) /\ (src + m) + k = src + (m + k) OBVIOUS
    <2> QED BY <2>1, <2>2 DEF Memcpy
  <1>3. ASSUME NEW k \in 0 .. n - 1
        PROVE  <<dst + k, src + k>> \in Memcpy(dst, src, m) \cup Memcpy(dst + m, src + m, n - m)
    <2>1. CASE k < m
      <3>1. k \in 0 .. m - 1 BY <2>1
      <3> QED BY <3>1 DEF Memcpy
    <2>2. CASE ~(k < m)
      <3>1. k - m \in 0 .. n - m - 1 BY <2>2
      <3>2. dst + k = (dst + m) + (k - m) /\ src + k = (src + m) + (k - m) OBVIOUS
      <3> QED BY <3>1, <3>2 DEF Memcpy
    <2> QED BY <2>1, <2>2
  <1> QED BY <1>1, <1>2, <1>3 DEF Memcpy

(* The bytes of a frame of n bytes at block b: those before the end of the *)
(* ring, and those that are at its beginning.                              *)
LEMMA FrameInRing ==
  ASSUME NEW b \in 0 .. NumBds - 1, NEW n \in 0 .. RingBytes
  PROVE  LET room == (NumBds - b) * BlockSize
             first == Least(n, room)
         IN /\ room \in Nat /\ BlockSize <= room
            /\ first \in Nat /\ first <= n
            /\ \A k \in 0 .. first - 1 : RingByte(b, k) = b * BlockSize + k
            /\ \A k \in first .. n - 1 : RingByte(b, k) = k - first
  <1> DEFINE room == (NumBds - b) * BlockSize
             first == Least(n, room)
             s == b * BlockSize
             r == RingBytes
  <1>1. r \in Nat \ {0} /\ s \in Nat /\ s + BlockSize <= r /\ room = r - s
    BY BlockBytes
  <1>2. n \in Nat /\ n <= r BY <1>1
  <1>3. first = IF n < room THEN n ELSE room BY DEF Least
  <1>4. ASSUME NEW k \in 0 .. n - 1
        PROVE  RingByte(b, k) = IF s + k < r THEN s + k ELSE s + k - r
    <2>1. k \in 0 .. RingBytes - 1 BY <1>1, <1>2
    <2> QED BY <2>1, RingByteIs
  <1> HIDE DEF room, first, s, r
  <1>5. room \in Nat /\ BlockSize <= room BY <1>1, BlockSizes
  <1>6. first \in Nat /\ first <= n BY <1>2, <1>3, <1>5
  <1>7. ASSUME NEW k \in 0 .. first - 1 PROVE RingByte(b, k) = s + k
    <2>1. k \in 0 .. n - 1 /\ s + k < r BY <1>1, <1>2, <1>3, <1>5
    <2> QED BY <1>4, <2>1
  <1>8. ASSUME NEW k \in first .. n - 1 PROVE RingByte(b, k) = k - first
    <2>1. k \in 0 .. n - 1 BY <1>2, <1>6
    <2>2. first = room /\ ~(s + k < r) /\ s + k - r = k - first BY <1>1, <1>2, <1>3, <1>5, <1>6
    <2> QED BY <1>4, <2>1, <2>2
  <1> QED BY <1>5, <1>6, <1>7, <1>8 DEF room, first, s

(* prueth_tx_enqueue() puts every byte in its place.                       *)
LEMMA TxCopyIs ==
  ASSUME NEW b \in 0 .. NumBds - 1, NEW n \in MinLength .. RingBytes
  PROVE  TxCopy(b, n) = {<<RingByte(b, k), k>> : k \in 0 .. n - 1}
  <1> DEFINE S == {<<RingByte(b, k), k>> : k \in 0 .. n - 1}
             s == b * BlockSize
             q == DivRoundUp(n, BlockSize)
             first == Least(n, (NumBds - b) * BlockSize)
  <1>1. n \in Nat /\ n \in 0 .. RingBytes /\ s \in Nat /\ RingBytes \in Nat
    BY BlockSizes, BlockBytes
  <1>2. CASE Wrapped(b, q)
    <2>1. TxCopy(b, n) = Memcpy(s, 0, first) \cup Memcpy(0, first, n - first)
      BY <1>2 DEF TxCopy
    <2>2. /\ first \in Nat /\ first <= n
          /\ \A k \in 0 .. first - 1 : RingByte(b, k) = s + k
          /\ \A k \in first .. n - 1 : RingByte(b, k) = k - first
      BY <1>1, FrameInRing
    <2> HIDE DEF s, first, q
    <2>3. ASSUME NEW k \in 0 .. first - 1 PROVE <<s + k, 0 + k>> \in S
      <3>1. k \in 0 .. n - 1 /\ 0 + k = k /\ RingByte(b, k) = s + k BY <1>1, <2>2
      <3> QED BY <3>1
    <2>4. ASSUME NEW k \in 0 .. n - first - 1 PROVE <<0 + k, first + k>> \in S
      <3>1. first + k \in 0 .. n - 1 /\ first + k \in first .. n - 1
            /\ 0 + k = (first + k) - first
        BY <1>1, <2>2
      <3>2. RingByte(b, first + k) = 0 + k BY <2>2, <3>1
      <3> QED BY <3>1, <3>2
    <2>5. ASSUME NEW k \in 0 .. n - 1
          PROVE  <<RingByte(b, k), k>> \in Memcpy(s, 0, first) \cup Memcpy(0, first, n - first)
      <3>1. CASE k < first
        <4>1. k \in 0 .. first - 1 /\ 0 + k = k BY <2>2, <3>1
        <4> QED BY <2>2, <4>1 DEF Memcpy
      <3>2. CASE ~(k < first)
        <4>1. k \in first .. n - 1 /\ k - first \in 0 .. n - first - 1
              /\ 0 + (k - first) = k - first /\ first + (k - first) = k
          BY <1>1, <2>2, <3>2
        <4>2. RingByte(b, k) = k - first BY <2>2, <4>1
        <4> QED BY <4>1, <4>2 DEF Memcpy
      <3> QED BY <3>1, <3>2
    <2> HIDE DEF S
    <2>6. S \subseteq Memcpy(s, 0, first) \cup Memcpy(0, first, n - first) BY <2>5 DEF S
    <2>7. Memcpy(s, 0, first) \subseteq S BY <2>3 DEF Memcpy
    <2>8. Memcpy(0, first, n - first) \subseteq S BY <2>4 DEF Memcpy
    <2> QED BY <2>1, <2>6, <2>7, <2>8 DEF S
  <1>3. CASE ~Wrapped(b, q)
    <2>1. TxCopy(b, n) = Memcpy(s, 0, n) BY <1>3 DEF TxCopy
    <2>2. q \in Nat BY <1>1, BlocksCover
    <2>3. b + q < NumBds BY <1>3, <2>2, BlockSizes DEF Wrapped
    <2>4. s + n < RingBytes BY <1>1, <2>3, EndOfFrame
    <2> HIDE DEF s, q
    <2>5. ASSUME NEW k \in 0 .. n - 1 PROVE RingByte(b, k) = s + k /\ 0 + k = k
      <3>1. k \in 0 .. RingBytes - 1 /\ s + k < RingBytes BY <1>1, <2>4
      <3> QED BY <3>1, RingByteIs DEF s
    <2> QED BY <2>1, <2>5 DEF Memcpy
  <1> QED BY <1>2, <1>3

(* The bytes from the off-th on, to the beginning of the socket buffer.    *)
LEMMA CopyShifts ==
  ASSUME NEW base \in Int, NEW n \in Nat, NEW off \in 0 .. n
  PROVE  Memcpy(0, off + base, n - off) = {<<k - off, base + k>> : k \in off .. n - 1}
  <1>1. ASSUME NEW k \in 0 .. n - off - 1
        PROVE  <<0 + k, (off + base) + k>> \in {<<i - off, base + i>> : i \in off .. n - 1}
    <2>1. off + k \in off .. n - 1 OBVIOUS
    <2>2. 0 + k = (off + k) - off /\ (off + base) + k = base + (off + k) OBVIOUS
    <2> QED BY <2>1, <2>2
  <1>2. ASSUME NEW i \in off .. n - 1
        PROVE  <<i - off, base + i>> \in Memcpy(0, off + base, n - off)
    <2>1. i - off \in 0 .. n - off - 1 OBVIOUS
    <2>2. i - off = 0 + (i - off) /\ base + i = (off + base) + (i - off) OBVIOUS
    <2> QED BY <2>1, <2>2 DEF Memcpy
  <1>3. Memcpy(0, off + base, n - off) \subseteq {<<i - off, base + i>> : i \in off .. n - 1}
    BY <1>1 DEF Memcpy
  <1> QED BY <1>2, <1>3

(* What a frame to receive is like: longer than the place for a tag, which *)
(* lies within one block, and at least a block shorter than the ring.      *)
LEMMA RxFrame ==
  ASSUME NEW c \in RxCalls
  PROVE  /\ c.block \in 0 .. NumBds - 1 /\ c.shadow \in BOOLEAN /\ c.timestamp \in BOOLEAN
         /\ c.length \in Nat /\ c.length <= RingBytes - BlockSize
         /\ StartOffset(c) \in Nat
         /\ StartOffset(c) < c.length /\ StartOffset(c) < BlockSize
         /\ RingBytes \in Nat /\ Collision \in Nat
         /\ c.block * BlockSize \in Nat
  <1>1. /\ c.block \in 0 .. NumBds - 1 /\ c.shadow \in BOOLEAN /\ c.timestamp \in BOOLEAN
        /\ c.length \in MinLength .. RingBytes - BlockSize
    BY DEF RxCalls
  <1>2. RingBytes \in Nat /\ c.block * BlockSize \in Nat BY <1>1, BlockBytes
  <1>3. StartOffset(c) = 0 \/ StartOffset(c) = TagSize BY DEF StartOffset
  <1> QED BY <1>1, <1>2, <1>3, BlockSizes DEF Collision

(* The first part is not empty, and is all of the frame or ends where the  *)
(* ring ends.                                                              *)
LEMMA FirstPartIs ==
  ASSUME NEW c \in RxCalls
  PROVE  LET m == FirstPart(c) + StartOffset(c)
         IN /\ FirstPart(c) \in Nat /\ m \in Nat
            /\ StartOffset(c) < m /\ m <= c.length
            /\ m = Least(c.length, (NumBds - c.block) * BlockSize)
            /\ \A k \in 0 .. m - 1 : RingByte(c.block, k) = c.block * BlockSize + k
            /\ \A k \in m .. c.length - 1 : RingByte(c.block, k) = k - m
  <1> DEFINE room == (NumBds - c.block) * BlockSize
             m == Least(c.length, room)
             off == StartOffset(c)
  <1>1. /\ c.block \in 0 .. NumBds - 1 /\ c.length \in Nat
        /\ c.length <= RingBytes - BlockSize /\ RingBytes \in Nat
        /\ off \in Nat /\ off < c.length /\ off < BlockSize
    BY RxFrame
  <1>2. c.length \in 0 .. RingBytes BY <1>1, BlockSizes
  <1>3. /\ room \in Nat /\ BlockSize <= room
        /\ m \in Nat /\ m <= c.length
        /\ \A k \in 0 .. m - 1 : RingByte(c.block, k) = c.block * BlockSize + k
        /\ \A k \in m .. c.length - 1 : RingByte(c.block, k) = k - m
    BY <1>1, <1>2, FrameInRing
  <1>4. FirstPart(c) = m - off BY DEF FirstPart
  <1>5. m = IF c.length < room THEN c.length ELSE room BY DEF Least
  <1> HIDE DEF m, off, room
  <1>6. off < m BY <1>1, <1>3, <1>5, BlockSizes
  <1>7. FirstPart(c) \in Nat /\ FirstPart(c) + off = m BY <1>1, <1>3, <1>4, <1>6
  <1> QED BY <1>3, <1>6, <1>7 DEF m, off, room

(* From the collision buffer everything is read in one go, in one part or  *)
(* in two.                                                                 *)
LEMMA ShadowCopy ==
  ASSUME NEW c \in RxCalls, c.shadow
  PROVE  /\ RxCopy(c).bytes = Memcpy(0, StartOffset(c) + Collision, c.length - StartOffset(c))
         /\ RxCopy(c).end = Collision + c.length
  <1> DEFINE off == StartOffset(c)
             first == FirstPart(c)
             actual == c.length - off
             src == off + Collision
  <1>1. c.length \in Nat /\ off \in Nat /\ off < c.length /\ Collision \in Nat BY RxFrame
  <1>2. first \in Nat /\ first + off <= c.length BY FirstPartIs
  <1>3. FirstSource(c) = src /\ SecondSource(c) = src + first BY DEF FirstSource, SecondSource
  <1>4. CASE Wrapped(c.block, RxBlocks(c))
    <2>1. /\ RxCopy(c).bytes = Memcpy(0, src, first) \cup Memcpy(first, src + first, actual - first)
          /\ RxCopy(c).end = (src + first) + (actual - first)
      BY <1>3, <1>4 DEF RxCopy
    <2> HIDE DEF first, off
    <2>2. actual \in Nat /\ src \in Int /\ first \in 0 .. actual /\ 0 + first = first
      BY <1>1, <1>2
    <2>3. (src + first) + (actual - first) = Collision + c.length BY <1>1, <1>2
    <2>4. Memcpy(0, src, first) \cup Memcpy(first, src + first, actual - first) = Memcpy(0, src, actual)
      <3> HIDE DEF actual, src
      <3>1. 0 \in Int OBVIOUS
      <3>2. Memcpy(0, src, first) \cup Memcpy(0 + first, src + first, actual - first) = Memcpy(0, src, actual)
        BY <2>2, <3>1, CopyJoins
      <3> QED BY <2>2, <3>2
    <2> QED BY <2>1, <2>3, <2>4 DEF off
  <1>5. CASE ~Wrapped(c.block, RxBlocks(c))
    <2>1. RxCopy(c).bytes = Memcpy(0, src, actual) /\ RxCopy(c).end = src + actual
      BY <1>3, <1>5 DEF RxCopy
    <2>2. src + actual = Collision + c.length
      <3> HIDE DEF off
      <3> QED BY <1>1
    <2> QED BY <2>1, <2>2
  <1> QED BY <1>4, <1>5

(* From the ring it is read up to the end and then from the beginning.     *)
LEMMA RingCopy ==
  ASSUME NEW c \in RxCalls, ~c.shadow
  PROVE  RxCopy(c).bytes =
           {<<k - StartOffset(c), RingByte(c.block, k)>> : k \in StartOffset(c) .. c.length - 1}
  <1> DEFINE off == StartOffset(c)
             first == FirstPart(c)
             m == first + off
             n == c.length
             s == c.block * BlockSize
             S == {<<k - off, RingByte(c.block, k)>> : k \in off .. n - 1}
  <1>1. n \in Nat /\ off \in Nat /\ off < n /\ s \in Nat BY RxFrame
  <1>2. /\ first \in Nat /\ m \in Nat /\ off < m /\ m <= n
        /\ \A k \in 0 .. m - 1 : RingByte(c.block, k) = s + k
        /\ \A k \in m .. n - 1 : RingByte(c.block, k) = k - m
    BY FirstPartIs
  <1>3. FirstSource(c) = off + s /\ SecondSource(c) = 0 BY DEF FirstSource, SecondSource
  <1>4. CASE Wrapped(c.block, RxBlocks(c))
    <2> DEFINE rest == (n - off) - first
    <2>1. RxCopy(c).bytes = Memcpy(0, off + s, first) \cup Memcpy(first, 0, rest)
      BY <1>3, <1>4 DEF RxCopy
    <2> HIDE DEF s, off, n, first
    <2>2. ASSUME NEW k \in 0 .. first - 1 PROVE <<0 + k, (off + s) + k>> \in S
      <3>1. off + k \in off .. n - 1 /\ off + k \in 0 .. m - 1 BY <1>1, <1>2
      <3>2. RingByte(c.block, off + k) = s + (off + k) BY <1>2, <3>1
      <3>3. 0 + k = (off + k) - off /\ (off + s) + k = s + (off + k) BY <1>1
      <3> QED BY <3>1, <3>2, <3>3
    <2>3. ASSUME NEW k \in 0 .. rest - 1 PROVE <<first + k, 0 + k>> \in S
      <3>1. m + k \in off .. n - 1 /\ m + k \in m .. n - 1 BY <1>1, <1>2
      <3>2. RingByte(c.block, m + k) = (m + k) - m BY <1>2, <3>1
      <3>3. first + k = (m + k) - off /\ 0 + k = (m + k) - m BY <1>1, <1>2
      <3> HIDE DEF m
      <3> QED BY <3>1, <3>2, <3>3
    <2>4. ASSUME NEW k \in off .. n - 1
          PROVE  <<k - off, RingByte(c.block, k)>>
                   \in Memcpy(0, off + s, first) \cup Memcpy(first, 0, rest)
      <3>1. CASE k < m
        <4>1. k \in 0 .. m - 1 /\ k - off \in 0 .. first - 1 BY <1>1, <1>2, <3>1
        <4>2. k - off = 0 + (k - off) /\ s + k = (off + s) + (k - off) BY <1>1
        <4>3. RingByte(c.block, k) = s + k BY <1>2, <4>1
        <4> QED BY <4>1, <4>2, <4>3 DEF Memcpy
      <3>2. CASE ~(k < m)
        <4>1. k \in m .. n - 1 /\ k - m \in 0 .. rest - 1 BY <1>1, <1>2, <3>2
        <4>2. k - off = first + (k - m) /\ k - m = 0 + (k - m) BY <1>1, <1>2
        <4>3. RingByte(c.block, k) = k - m BY <1>2, <4>1
        <4> HIDE DEF m, rest
        <4> QED BY <4>1, <4>2, <4>3 DEF Memcpy
      <3> QED BY <3>1, <3>2
    <2> HIDE DEF S, rest
    <2>5. Memcpy(0, off + s, first) \subseteq S BY <2>2 DEF Memcpy
    <2>6. Memcpy(first, 0, rest) \subseteq S BY <2>3 DEF Memcpy
    <2>7. S \subseteq Memcpy(0, off + s, first) \cup Memcpy(first, 0, rest) BY <2>4 DEF S
    <2> QED BY <2>1, <2>5, <2>6, <2>7 DEF S, off, n
  <1>5. CASE ~Wrapped(c.block, RxBlocks(c))
    <2> DEFINE q == DivRoundUp(n, BlockSize)
    <2>1. RxCopy(c).bytes = Memcpy(0, off + s, n - off) BY <1>3, <1>5 DEF RxCopy
    <2>2. q \in Nat BY <1>1, BlocksCover
    <2>3. c.block \in 0 .. NumBds - 1 /\ RingBytes \in Nat BY RxFrame
    <2>4. RxBlocks(c) = q + (IF c.timestamp THEN 1 ELSE 0) BY DEF RxBlocks
    <2>5. ~(c.block + RxBlocks(c) >= NumBds) BY <1>5 DEF Wrapped
    <2> HIDE DEF q
    <2>6. c.block + q < NumBds
      <3>1. RxBlocks(c) \in Nat /\ q <= RxBlocks(c) BY <2>2, <2>4
      <3> QED BY <2>2, <2>3, <2>5, <3>1, BlockSizes
    <2>7. s + n < RingBytes BY <1>1, <2>3, <2>6, EndOfFrame DEF q
    <2> HIDE DEF s, off, n
    <2>8. ASSUME NEW k \in off .. n - 1 PROVE RingByte(c.block, k) = s + k
      <3>1. k \in 0 .. RingBytes - 1 /\ s + k < RingBytes BY <1>1, <2>3, <2>7
      <3> QED BY <2>3, <3>1, RingByteIs DEF s
    <2>9. Memcpy(0, off + s, n - off) = {<<k - off, s + k>> : k \in off .. n - 1}
      <3>1. s \in Int /\ n \in Nat /\ off \in 0 .. n BY <1>1
      <3> QED BY <3>1, CopyShifts
    <2>10. {<<k - off, s + k>> : k \in off .. n - 1} = S BY <2>8
    <2> QED BY <2>1, <2>9, <2>10 DEF off, n
  <1> QED BY <1>4, <1>5

(* All of emac_rx_packet()'s copying.                                      *)
LEMMA RxCopyIs ==
  ASSUME NEW c \in RxCalls
  PROVE  RxCopy(c).bytes =
           {<<k - StartOffset(c), IF c.shadow THEN Collision + k ELSE RingByte(c.block, k)>> :
              k \in StartOffset(c) .. c.length - 1}
  <1>1. CASE c.shadow
    <2>1. /\ Collision \in Int /\ c.length \in Nat
          /\ StartOffset(c) \in 0 .. c.length
      BY RxFrame
    <2>2. RxCopy(c).bytes = Memcpy(0, StartOffset(c) + Collision, c.length - StartOffset(c))
      BY <1>1, ShadowCopy
    <2>3. RxCopy(c).bytes = {<<k - StartOffset(c), Collision + k>> :
                               k \in StartOffset(c) .. c.length - 1}
      BY <2>1, <2>2, CopyShifts
    <2> QED BY <1>1, <2>3
  <1>2. CASE ~c.shadow BY <1>2, RingCopy
  <1> QED BY <1>1, <1>2

(* The time stamp of a frame in the ring.                                  *)
LEMMA RingStamp ==
  ASSUME NEW c \in RxCalls, ~c.shadow, c.timestamp, StampBlock(c) # NumBds - 1
  PROVE  RoundUp(RxCopy(c).end, BlockSize) = (StampBlock(c) % NumBds) * BlockSize
  <1> DEFINE off == StartOffset(c)
             first == FirstPart(c)
             m == first + off
             n == c.length
             b == c.block
             s == b * BlockSize
             q == DivRoundUp(n, BlockSize)
             room == (NumBds - b) * BlockSize
  <1>1. /\ n \in Nat /\ off \in Nat /\ off < n /\ s \in Nat
        /\ n <= RingBytes - BlockSize /\ RingBytes \in Nat /\ b \in 0 .. NumBds - 1
    BY RxFrame
  <1>2. first \in Nat /\ m \in Nat /\ off < m /\ m <= n /\ m = Least(n, room)
    BY FirstPartIs
  <1>3. FirstSource(c) = off + s /\ SecondSource(c) = 0 BY DEF FirstSource, SecondSource
  <1>4. q \in Nat /\ n <= q * BlockSize /\ q * BlockSize < n + BlockSize BY <1>1, BlocksCover
  <1>5. RxBlocks(c) = q + 1 /\ StampBlock(c) = b + q BY DEF RxBlocks, StampBlock
  <1>6. b + q # NumBds - 1 BY <1>5
  <1>7. RoundUp(n, BlockSize) = BlockSize * q BY DEF RoundUp
  <1>8. room = RingBytes - s /\ room \in Nat
    <2>1. room = RingBytes - s /\ s + BlockSize <= RingBytes BY <1>1, BlockBytes
    <2> HIDE DEF room, s
    <2> QED BY <1>1, <2>1, BlockSizes
  <1>9. CASE Wrapped(c.block, RxBlocks(c))
    <2>1. RxCopy(c).end = 0 + ((n - off) - first) BY <1>3, <1>9 DEF RxCopy
    <2>2. b + q >= NumBds
      <3>1. b + (q + 1) >= NumBds BY <1>5, <1>9 DEF Wrapped
      <3> HIDE DEF q, b
      <3> QED BY <1>1, <1>4, <1>6, <3>1, BlockSizes
    <2>3. q <= NumBds - 1
      <3> SUFFICES ASSUME ~(q <= NumBds - 1) PROVE FALSE
        OBVIOUS
      <3> HIDE DEF q, n
      <3>1. NumBds <= q BY <1>4, BlockSizes
      <3>2. NumBds * BlockSize <= q * BlockSize BY <1>4, <3>1, BlockSizes, TimesMonotone
      <3>3. q * BlockSize \in Nat BY <1>4, BlockSizes
      <3>4. RingBytes <= q * BlockSize BY <3>2 DEF RingBytes
      <3> QED BY <1>1, <1>4, <3>3, <3>4, BlockSizes
    <2> DEFINE i == b + q - NumBds
    <2>4. i \in Nat /\ i < NumBds BY <1>1, <1>4, <2>2, <2>3, BlockSizes
    <2>5. (b + q) % NumBds = i
      <3>1. b + q = i + NumBds BY <1>1, <1>4, BlockSizes
      <3> HIDE DEF i, b, q
      <3> QED BY <2>4, <3>1, BlockSizes
    <2>6. i * BlockSize = s + q * BlockSize - RingBytes
      BY <1>1, <1>4, BlockSizes DEF RingBytes
    <2> DEFINE rest == n - m
    <2>7. (n - off) - first = rest
      <3> HIDE DEF n, off, first
      <3> QED BY <1>1, <1>2
    <2>8. m = IF n < room THEN n ELSE room BY <1>2 DEF Least
    <2>9. rest \in Nat /\ rest <= i * BlockSize /\ i * BlockSize < rest + BlockSize
      <3>1. s + n <= RingBytes \/ s + n > RingBytes BY <1>1
      <3>2. b + q = NumBds \/ b + q > NumBds BY <1>1, <1>4, <2>2, BlockSizes
      <3>3. b + q = NumBds => s + n <= RingBytes BY <1>1, EndOfFrame
      <3>4. b + q > NumBds => s + n > RingBytes BY <1>1, EndOfFrame
      <3>5. q * BlockSize \in Nat BY <1>4, BlockSizes
      <3> HIDE DEF n, q, s, room, m
      <3>6. CASE b + q = NumBds
        <4>1. i = 0 BY <1>1, <1>4, <3>6, BlockSizes
        <4>2. i * BlockSize = 0 BY <4>1, BlockSizes
        <4>3. rest = 0 BY <1>1, <1>8, <2>8, <3>3, <3>6
        <4> QED BY <4>2, <4>3, BlockSizes
      <3>7. CASE b + q > NumBds
        <4>1. rest = n - room /\ room < n BY <1>1, <1>8, <2>8, <3>4, <3>7
        <4> HIDE DEF i, rest
        <4> QED BY <1>1, <1>4, <1>8, <2>6, <3>5, <4>1, BlockSizes
      <3> QED BY <3>2, <3>6, <3>7
    <2>10. RxCopy(c).end = rest
      <3> HIDE DEF rest, n, off, first
      <3> QED BY <2>1, <2>7, <2>9
    <2>11. DivRoundUp(rest, BlockSize) = i
      <3> HIDE DEF rest, i
      <3> QED BY <2>4, <2>9, BlocksUnique
    <2>12. RoundUp(rest, BlockSize) = BlockSize * i BY <2>11 DEF RoundUp
    <2>13. BlockSize * i = i * BlockSize
      <3> HIDE DEF i
      <3> QED BY <2>4, BlockSizes
    <2> QED BY <1>5, <2>5, <2>10, <2>12, <2>13
  <1>10. CASE ~Wrapped(c.block, RxBlocks(c))
    <2>1. RxCopy(c).end = (off + s) + (n - off) BY <1>3, <1>10 DEF RxCopy
    <2>2. ~(b + (q + 1) >= NumBds) BY <1>5, <1>10 DEF Wrapped
    <2>3. RxCopy(c).end = s + n
      <3> HIDE DEF off, s, n
      <3> QED BY <1>1, <2>1
    <2>4. RoundUp(s + n, BlockSize) = s + RoundUp(n, BlockSize)
      <3>1. b \in Nat /\ n \in Nat BY <1>1, BlockSizes
      <3> HIDE DEF b, n
      <3> QED BY <3>1, RoundUpShifts
    <2>5. (b + q) % NumBds = b + q
      <3>1. b + q \in Nat /\ b + q < NumBds BY <1>1, <1>4, <2>2, BlockSizes
      <3> HIDE DEF b, q
      <3> QED BY <3>1, BlockSizes
    <2>6. (b + q) * BlockSize = s + BlockSize * q BY <1>1, <1>4, BlockSizes
    <2> QED BY <1>5, <1>7, <2>3, <2>4, <2>5, <2>6
  <1> QED BY <1>9, <1>10

(* And of one in the collision buffer, which begins with a whole block.    *)
LEMMA ShadowStamp ==
  ASSUME NEW c \in RxCalls, c.shadow
  PROVE  RoundUp(RxCopy(c).end, BlockSize) = Collision + RoundUp(c.length, BlockSize)
  <1>1. RxCopy(c).end = Collision + c.length BY ShadowCopy
  <1>2. c.length \in Nat BY RxFrame
  <1>3. Collision = (NumBds + 1) * BlockSize BY BlockSizes DEF Collision, RingBytes
  <1>4. NumBds + 1 \in Nat BY BlockSizes
  <1> QED BY <1>1, <1>2, <1>3, <1>4, RoundUpShifts

LEMMA QueueIs ==
  ASSUME NEW mode \in Modes, NEW pcp \in {Untagged} \cup 0 .. 7
  PROVE  prueth_get_tx_queue_id(mode, pcp) \in 0 .. 4
  <1> DEFINE p == IF pcp = Untagged THEN 0 ELSE pcp
             k == 1 + (IF Lre(mode) THEN p \div 2 ELSE p)
  <1>1. p \in 0 .. 7 BY DEF Untagged
  <1>2. k \in 1 .. 8
    <2> HIDE DEF p
    <2>1. p \div 2 \in 0 .. 7 BY <1>1
    <2> QED BY <1>1, <2>1
  <1>3. \A i \in 1 .. 8 : emac_pcp_tx_priority_queue_map[i] \in 0 .. 4
    BY DEF emac_pcp_tx_priority_queue_map
  <1>4. prueth_get_tx_queue_id(mode, pcp) = emac_pcp_tx_priority_queue_map[k]
    BY DEF prueth_get_tx_queue_id
  <1> QED BY <1>2, <1>3, <1>4

LEMMA UpdateIs ==
  ASSUME NEW b \in Nat, NEW n \in Nat
  PROVE  Update(b, n) \in 0 .. NumBds - 1
  <1>1. NumBds \in Nat \ {0} /\ b + n \in Nat BY CopyAssumption
  <1> QED BY <1>1 DEF Update

(* The byte behind a frame is a number, and so is the block behind it.     *)
LEMMA StampIsNumber ==
  ASSUME NEW c \in RxCalls
  PROVE  RoundUp(RxCopy(c).end, BlockSize) \in Int
  <1>1. /\ BlockSize \in Nat \ {0} /\ NumBds \in Nat \ {0} /\ TagSize \in Nat
        /\ c.length \in Int /\ c.block \in Int
    BY CopyAssumption DEF RxCalls
  <1>2. c.block * BlockSize \in Int /\ (NumBds - c.block) * BlockSize \in Int /\ RingBytes \in Int
    BY <1>1 DEF RingBytes
  <1>3. StartOffset(c) \in Int BY <1>1 DEF StartOffset
  <1>4. FirstPart(c) \in Int BY <1>1, <1>2, <1>3 DEF FirstPart, Least
  <1>5. FirstSource(c) \in Int BY <1>1, <1>2, <1>3 DEF FirstSource, Collision
  <1>6. SecondSource(c) \in Int BY <1>4, <1>5 DEF SecondSource
  <1>7. RxCopy(c).end \in Int BY <1>1, <1>3, <1>4, <1>5, <1>6 DEF RxCopy
  <1>8. ASSUME NEW x \in Int PROVE RoundUp(x, BlockSize) \in Int
    <2>1. (x + BlockSize - 1) \div BlockSize \in Int BY <1>1
    <2> QED BY <1>1, <2>1 DEF RoundUp, DivRoundUp
  <1> QED BY <1>7, <1>8

(* Whatever is sent and received, the pointer is moved to a block of the   *)
(* ring and the queue is one of the four (prueth_tx_enqueue(),             *)
(* prueth_get_tx_queue_id(), emac_rx_packet()).                            *)
THEOREM CopyTypeCorrect == CopySpec => []CopyTypeOK
  <1>1. CopyInit => CopyTypeOK
    BY DEF CopyInit, CopyTypeOK, Unset
  <1>2. CopyTypeOK /\ [CopyNext]_copyVars => CopyTypeOK'
    <2> SUFFICES ASSUME CopyTypeOK, [CopyNext]_copyVars PROVE CopyTypeOK'
      OBVIOUS
    <2>1. CASE Transmit
      <3>1. call \in TxCalls BY <2>1 DEF Transmit, CopyTypeOK, TxCalls, RxCalls
      <3>2. call.mode \in Modes /\ call.pcp \in {Untagged} \cup 0 .. 7 BY <3>1 DEF TxCalls
      <3>3. queue' \in 0 .. 4 BY <2>1, <3>2, QueueIs DEF Transmit
      <3>4. call.block \in Nat /\ call.length \in Nat
        BY <3>1, CopyAssumption DEF TxCalls
      <3>5. DivRoundUp(call.length, BlockSize) \in Nat BY <3>4, BlocksCover
      <3>6. next' \in 0 .. NumBds - 1 BY <2>1, <3>4, <3>5, UpdateIs DEF Transmit
      <3> QED BY <2>1, <3>3, <3>6 DEF Transmit, CopyTypeOK
    <2>2. CASE Receive
      <3>1. call \in RxCalls BY <2>2 DEF Receive, CopyTypeOK, TxCalls, RxCalls
      <3>2. stamp' \in Int BY <2>2, <3>1, StampIsNumber DEF Receive, Unset
      <3>3. call.block \in Nat /\ call.length \in Nat
        BY <3>1, CopyAssumption DEF RxCalls
      <3>4. DivRoundUp(call.length, BlockSize) \in Nat BY <3>3, BlocksCover
      <3>5. RxBlocks(call) \in Nat BY <3>4 DEF RxBlocks
      <3>6. next' \in 0 .. NumBds - 1 BY <2>2, <3>3, <3>5, UpdateIs DEF Receive
      <3> QED BY <2>2, <3>2, <3>6 DEF Receive, CopyTypeOK
    <2>3. CASE UNCHANGED copyVars BY <2>3 DEF copyVars, CopyTypeOK
    <2> QED BY <2>1, <2>2, <2>3 DEF CopyNext
  <1> QED BY <1>1, <1>2, PTL DEF CopySpec

(* Whatever block a frame begins at, however long it is and whatever the   *)
(* mode, the tag and the time stamp: every byte of it, and no other, is    *)
(* copied to its place, around the end of the ring (TxCopyRight and        *)
(* RxCopyRight), and the time stamp is read from behind it (StampRight).   *)
THEOREM CopyRightAlways == CopySpec => []CopyRight
  <1> DEFINE Inv == call \in TxCalls \cup RxCalls /\ CopyRight
  <1>1. CopyInit => Inv
    BY DEF CopyInit, CopyRight, TxCopyRight, RxCopyRight, StampRight, Done
  <1>2. Inv /\ [CopyNext]_copyVars => Inv'
    <2> SUFFICES ASSUME Inv, [CopyNext]_copyVars PROVE Inv'
      OBVIOUS
    <2>1. CASE Transmit
      <3>1. call' = call /\ call.op = "tx" BY <2>1 DEF Transmit
      <3>2. call \in TxCalls BY <3>1 DEF TxCalls, RxCalls
      <3>3. call.block \in 0 .. NumBds - 1 /\ call.length \in MinLength .. RingBytes
        BY <3>2 DEF TxCalls
      <3>4. copied' = {<<RingByte(call.block, k), k>> : k \in 0 .. call.length - 1}
        BY <2>1, <3>3, TxCopyIs DEF Transmit
      <3> QED BY <3>1, <3>2, <3>4 DEF CopyRight, TxCopyRight, RxCopyRight, StampRight, Done
    <2>2. CASE Receive
      <3>1. call' = call /\ call.op = "rx" BY <2>2 DEF Receive
      <3>2. call \in RxCalls BY <3>1 DEF TxCalls, RxCalls
      <3>3. copied' = RxCopy(call).bytes BY <2>2 DEF Receive
      <3>4. call.timestamp => stamp' = RoundUp(RxCopy(call).end, BlockSize)
        BY <2>2 DEF Receive
      <3>5. TxCopyRight' BY <3>1 DEF TxCopyRight, Done
      <3>6. RxCopyRight' BY <3>1, <3>2, <3>3, RxCopyIs DEF RxCopyRight
      <3>7. StampRight'
        <4>1. CASE call.shadow
          BY <3>1, <3>2, <3>4, <4>1, ShadowStamp DEF StampRight
        <4>2. CASE ~call.shadow
          BY <3>1, <3>2, <3>4, <4>2, RingStamp DEF StampRight
        <4> QED BY <4>1, <4>2
      <3> QED BY <3>1, <3>5, <3>6, <3>7 DEF CopyRight
    <2>3. CASE UNCHANGED copyVars
      BY <2>3 DEF copyVars, CopyRight, TxCopyRight, RxCopyRight, StampRight, Done
    <2> QED BY <2>1, <2>2, <2>3 DEF CopyNext
  <1>3. Inv => CopyRight
    OBVIOUS
  <1> QED BY <1>1, <1>2, <1>3, PTL DEF CopySpec

-----------------------------------------------------------------------------
(* PruethProbe: what is held at every step of the probe, of its unwinding  *)
(* and of the removal.                                                     *)

\* The step of the probe behind which a resource is held, the label and the step
\* of the removal behind which it is not any more.
GotAt(r) ==
  CASE r[1] = "node" -> 1
    [] r[1] = "pru" -> 2 + r[2]
    [] r[1] = "pruss" -> 5
    [] r[1] = "ocp" -> 6
    [] r[1] = "dram" -> 6 + r[2]
    [] r[1] = "shared" -> 9
    [] r[1] = "ocmc" -> 10
    [] r[1] = "phy" -> 11 + r[2]
    [] r[1] = "iep" -> 14
    [] r[1] = "ecap" -> 15
    [] r[1] = "netdev" -> 15 + r[2]
    [] r[1] = "notifiers" -> 19
    [] OTHER -> 0

PutAt(r) ==
  CASE r[1] = "node" -> 11
    [] r[1] = "pru" -> 11 - r[2]
    [] r[1] = "pruss" -> 8
    [] r[1] \in {"ocp", "dram", "shared"} -> 7
    [] r[1] = "ocmc" -> 6
    [] r[1] = "phy" -> 5
    [] r[1] = "iep" -> 4
    [] r[1] = "ecap" -> 3
    [] r[1] = "netdev" -> r[2]
    [] OTHER -> 0

RemovedAt(r) ==
  CASE r[1] = "pru" -> 11
    [] r[1] = "pruss" -> 10
    [] r[1] = "iep" -> 9
    [] r[1] = "ecap" -> 8
    [] r[1] \in {"dram", "shared"} -> 7
    [] r[1] = "ocmc" -> 6
    [] r[1] \in {"node", "phy"} -> 5
    [] r[1] = "netdev" -> 2 + r[2]
    [] r[1] = "notifiers" -> 2
    [] OTHER -> 12

\* A resource of a port is there only if the port is.
Mine(r) == r[1] \in {"node", "pru", "dram", "phy", "netdev"} => r[2] \in nodes

\* Where a resource may be held, if until is the last label at which it may.
Due(r, until) ==
  \/ phase = "probe" /\ GotAt(r) < at
  \/ phase = "unwind" /\ at <= until
  \/ phase = "bound"
  \/ phase = "remove" /\ at <= RemovedAt(r)

\* What is held is due, or is among what the code forgets.
HeldIsDue ==
  \A r \in held : r \in Forgotten \/ (Mine(r) /\ Due(r, PutAt(r)))

\* Not all of it has been acquired when a step before the label has failed: the
\* memory of the ports and the PHYs.
Until(r) == IF r[1] \in {"dram", "shared"} THEN 6 ELSE IF r[1] = "phy" THEN 4 ELSE PutAt(r)

DueIsHeld ==
  \A r \in Resources :
    r[1] \notin {"phy_node", "ecap", "netdev"} /\ Mine(r) /\ Due(r, Until(r)) => r \in held

PortInv == emac \subseteq nodes /\ \A p \in Ports : <<"phy", p>> \in held <=> p \in emac

UserInv ==
  /\ \A p \in open : <<"netdev", p>> \in held
  /\ eth_type # "EMAC" => nodes = Ports
  /\ timer = "active" => open # {} /\ eth_type = "HSR"

ProbeInv ==
  /\ ProbeTypeOK /\ PutOnlyHeld /\ PortsThere
  /\ phase = "oops" => InUseIsHeld
  /\ phase # "oops" => HeldIsDue /\ DueIsHeld /\ PortInv /\ UserInv

(* The steps of the three phases by their numbers.                         *)
LEMMA PlanIs ==
  /\ Len(Plan) = 19 /\ DOMAIN Plan = 1 .. 19
  /\ Plan[1] = "nodes" /\ Plan[2] = "mii_rt" /\ Plan[3] = "pru0" /\ Plan[4] = "pru1"
  /\ Plan[5] = "pruss" /\ Plan[6] = "ocp" /\ Plan[7] = "dram0" /\ Plan[8] = "dram1"
  /\ Plan[9] = "shared" /\ Plan[10] = "ocmc" /\ Plan[11] = "lre" /\ Plan[12] = "netdev0"
  /\ Plan[13] = "netdev1" /\ Plan[14] = "iep" /\ Plan[15] = "ecap"
  /\ Plan[16] = "register0" /\ Plan[17] = "register1" /\ Plan[18] = "timer"
  /\ Plan[19] = "notifiers"
  BY DEF Plan

LEMMA LabelsAre ==
  /\ Len(Labels) = 11 /\ DOMAIN Labels = 1 .. 11
  /\ Labels[1] = "netdev_unregister0" /\ Labels[2] = "netdev_unregister1"
  /\ Labels[3] = "ecap_put" /\ Labels[4] = "iep_put" /\ Labels[5] = "netdev_exit"
  /\ Labels[6] = "free_pool" /\ Labels[7] = "put_mem" /\ Labels[8] = "put_pruss"
  /\ Labels[9] = "put_pru1" /\ Labels[10] = "put_pru0" /\ Labels[11] = "put_node"
  BY DEF Labels

LEMMA RemovalIs ==
  /\ Len(Removal) = 11 /\ DOMAIN Removal = 1 .. 11
  /\ Removal[1] = "cancel" /\ Removal[2] = "notifiers" /\ Removal[3] = "unregister0"
  /\ Removal[4] = "unregister1" /\ Removal[5] = "netdev_exit" /\ Removal[6] = "pool"
  /\ Removal[7] = "mem" /\ Removal[8] = "ecap" /\ Removal[9] = "iep"
  /\ Removal[10] = "pruss" /\ Removal[11] = "prus"
  BY DEF Removal

LEMMA LabelIs ==
  ASSUME NEW i \in 1 .. 11
  PROVE  Label(Labels[i]) = i
  <1>1. \A j \in 1 .. 11 : Labels[j] = Labels[i] => j = i BY LabelsAre
  <1>2. i \in DOMAIN Labels /\ DOMAIN Labels = 1 .. 11 BY LabelsAre
  <1> QED BY <1>1, <1>2 DEF Label

LEMMA ResourceCases ==
  ASSUME NEW r \in Resources
  PROVE  \/ \E p \in Ports :
              \/ r = <<"node", p>> \/ r = <<"pru", p>> \/ r = <<"dram", p>>
              \/ r = <<"phy_node", p>> \/ r = <<"phy", p>> \/ r = <<"netdev", p>>
         \/ r = <<"pruss">> \/ r = <<"ocp">> \/ r = <<"shared">> \/ r = <<"ocmc">>
         \/ r = <<"iep">> \/ r = <<"ecap">> \/ r = <<"notifiers">>
  BY DEF Resources, Of

LEMMA AreResources ==
  /\ \A name \in {"node", "pru", "dram", "phy_node", "phy", "netdev"}, p \in Ports :
       <<name, p>> \in Resources
  /\ \A name \in {"pruss", "ocp", "shared", "ocmc", "iep", "ecap", "notifiers"} :
       <<name>> \in Resources
  BY DEF Resources, Of

(* What a step of the probe acquires.                                      *)
LEMMA GetsIs ==
  ASSUME ProbeTypeOK, phase = "probe", NEW r \in Gets(Plan[at])
  PROVE  r \in Resources /\ Mine(r) /\ GotAt(r) = at /\ r[1] \notin {"phy", "phy_node"}
  <1>1. at \in 1 .. 19 /\ nodes \subseteq Ports BY PlanIs DEF ProbeTypeOK
  <1>2. CASE at = 1
    <2>1. PICK p \in nodes : r = <<"node", p>> BY <1>2, PlanIs DEF Gets
    <2> QED BY <1>1, <1>2, <2>1, AreResources DEF Mine, GotAt
  <1>3. CASE at \in {3, 4}
    <2>1. PICK p \in nodes : r = <<"pru", p>> /\ at = 2 + p BY <1>1, <1>3, PlanIs DEF Gets, Ports
    <2> QED BY <1>1, <2>1, AreResources DEF Mine, GotAt
  <1>4. CASE at \in {7, 8}
    <2>1. PICK p \in nodes : r = <<"dram", p>> /\ at = 6 + p BY <1>1, <1>4, PlanIs DEF Gets, Ports
    <2> QED BY <1>1, <2>1, AreResources DEF Mine, GotAt
  <1>5. CASE at \in {16, 17}
    <2>1. PICK p \in nodes : r = <<"netdev", p>> /\ at = 15 + p
      BY <1>1, <1>5, PlanIs DEF Gets, Ports
    <2> QED BY <1>1, <2>1, AreResources DEF Mine, GotAt
  <1>6. CASE at \in {5, 6, 9, 10, 14, 15, 19}
    <2>1. CASE at \in {5, 6, 9}
      BY <1>6, <2>1, PlanIs, AreResources DEF Gets, Mine, GotAt
    <2>2. CASE at \in {10, 14, 15, 19}
      BY <1>6, <2>2, PlanIs, AreResources DEF Gets, Mine, GotAt
    <2> QED BY <1>6, <2>1, <2>2
  <1>7. CASE at \in {2, 11, 12, 13, 18}
    BY <1>7, PlanIs DEF Gets
  <1> QED BY <1>1, <1>2, <1>3, <1>4, <1>5, <1>6, <1>7

LEMMA GetsAll ==
  ASSUME ProbeTypeOK, phase = "probe", NEW r \in Resources,
         r[1] \notin {"phy", "phy_node"}, Mine(r), GotAt(r) = at
  PROVE  r \in Gets(Plan[at])
  <1>1. CASE r \in {<<"pruss">>, <<"ocp">>, <<"shared">>, <<"ocmc">>, <<"iep">>, <<"ecap">>,
                    <<"notifiers">>}
    BY <1>1, PlanIs DEF Gets, GotAt
  <1>2. CASE \E p \in Ports : r = <<"node", p>> \/ r = <<"pru", p>>
    BY <1>2, PlanIs DEF Gets, GotAt, Mine, Ports
  <1>3. CASE \E p \in Ports : r = <<"dram", p>> \/ r = <<"netdev", p>>
    BY <1>3, PlanIs DEF Gets, GotAt, Mine, Ports
  <1>4. CASE \E p \in Ports : r = <<"phy", p>> \/ r = <<"phy_node", p>>
    BY <1>4
  <1> QED BY <1>1, <1>2, <1>3, <1>4, ResourceCases
(* What a label, or a step of the removal, releases: what it is there for, *)
(* and all of it.                                                          *)
PutNow(r) == IF phase = "remove" THEN RemovedAt(r) ELSE PutAt(r)

StepNow == IF phase = "remove" THEN Removal[at] ELSE Labels[at]

LEMMA PutsIs ==
  ASSUME ProbeTypeOK, phase \in {"unwind", "remove"}, NEW r \in Puts(StepNow)
  PROVE  PutNow(r) = at
  <1>1. at \in 1 .. 11 /\ nodes \subseteq Ports BY LabelsAre, RemovalIs DEF ProbeTypeOK
  <1>2. CASE phase = "unwind"
    <2>1. CASE at \in {1, 2, 3, 4}
      BY <1>2, <2>1, LabelsAre DEF Puts, StepNow, PutNow, PutAt
    <2>2. CASE at \in {5, 6, 7, 8}
      BY <1>2, <2>2, LabelsAre DEF Puts, StepNow, PutNow, PutAt, Of
    <2>3. CASE at \in {9, 10, 11}
      BY <1>2, <2>3, LabelsAre DEF Puts, StepNow, PutNow, PutAt
    <2> QED BY <1>1, <2>1, <2>2, <2>3
  <1>3. CASE phase = "remove"
    <2>1. CASE at \in {1, 2, 3, 4}
      BY <1>3, <2>1, RemovalIs DEF Puts, StepNow, PutNow, RemovedAt
    <2>2. CASE at \in {5, 6, 7, 8}
      BY <1>3, <2>2, RemovalIs DEF Puts, StepNow, PutNow, RemovedAt, Of
    <2>3. CASE at \in {9, 10, 11}
      BY <1>3, <2>3, RemovalIs DEF Puts, StepNow, PutNow, RemovedAt, Of
    <2> QED BY <1>1, <2>1, <2>2, <2>3
  <1> QED BY <1>2, <1>3

LEMMA PutsAll ==
  ASSUME ProbeTypeOK, PortInv, phase \in {"unwind", "remove"},
         NEW r \in held, Mine(r), PutNow(r) = at,
         phase = "remove" /\ r[1] = "pru" => nodes = Ports
  PROVE  r \in Puts(StepNow)
  <1>1. at \in 1 .. 11 /\ nodes \subseteq Ports /\ r \in Resources
    BY LabelsAre, RemovalIs DEF ProbeTypeOK
  <1>2. CASE r \in {<<"pruss">>, <<"ocp">>, <<"shared">>, <<"ocmc">>, <<"iep">>, <<"ecap">>,
                    <<"notifiers">>}
    <2>1. CASE phase = "unwind"
      BY <1>1, <1>2, <2>1, LabelsAre DEF Puts, StepNow, PutNow, PutAt
    <2>2. CASE phase = "remove"
      BY <1>1, <1>2, <2>2, RemovalIs DEF Puts, StepNow, PutNow, RemovedAt
    <2> QED BY <2>1, <2>2
  <1>3. CASE \E p \in Ports : r = <<"node", p>> \/ r = <<"pru", p>> \/ r = <<"phy_node", p>>
    <2>1. CASE phase = "unwind"
      BY <1>1, <1>3, <2>1, LabelsAre DEF Puts, StepNow, PutNow, PutAt, Mine, Ports
    <2>2. CASE phase = "remove"
      BY <1>1, <1>3, <2>2, RemovalIs DEF Puts, StepNow, PutNow, RemovedAt, Mine, Ports, Of
    <2> QED BY <2>1, <2>2
  <1>4. CASE \E p \in Ports : r = <<"dram", p>> \/ r = <<"netdev", p>>
    <2>1. CASE phase = "unwind"
      BY <1>1, <1>4, <2>1, LabelsAre DEF Puts, StepNow, PutNow, PutAt, Mine, Ports, Of
    <2>2. CASE phase = "remove"
      BY <1>1, <1>4, <2>2, RemovalIs DEF Puts, StepNow, PutNow, RemovedAt, Mine, Ports, Of
    <2> QED BY <2>1, <2>2
  <1>5. CASE \E p \in Ports : r = <<"phy", p>>
    <2>1. PICK p \in Ports : r = <<"phy", p>> BY <1>5
    <2>2. p \in nodes \cap emac BY <2>1 DEF PortInv, Mine
    <2>3. CASE phase = "unwind"
      BY <1>1, <2>1, <2>2, <2>3, LabelsAre DEF Puts, StepNow, PutNow, PutAt
    <2>4. CASE phase = "remove"
      BY <1>1, <2>1, <2>2, <2>4, RemovalIs DEF Puts, StepNow, PutNow, RemovedAt
    <2> QED BY <2>3, <2>4
  <1> QED BY <1>1, <1>2, <1>3, <1>4, <1>5, ResourceCases

(* And nothing that is not held.                                           *)
LEMMA PutsHeld ==
  ASSUME ProbeTypeOK, PortInv, DueIsHeld, phase \in {"unwind", "remove"}
  PROVE  Puts(StepNow) \subseteq held
  <1>1. at \in 1 .. 11 /\ nodes \subseteq Ports BY LabelsAre, RemovalIs DEF ProbeTypeOK
  <1>2. ASSUME NEW name \in {"node", "pru"}, NEW p \in nodes,
               Due(<<name, p>>, PutAt(<<name, p>>))
        PROVE  <<name, p>> \in held
    BY <1>1, <1>2, AreResources DEF DueIsHeld, Mine, Until
  <1>3. ASSUME NEW name \in {"pruss", "ocp", "ocmc", "iep", "notifiers"},
               Due(<<name>>, PutAt(<<name>>))
        PROVE  <<name>> \in held
    BY <1>3, AreResources DEF DueIsHeld, Mine, Until
  <1>4. \A p \in emac : <<"phy", p>> \in held BY <1>1 DEF PortInv
  <1>5. CASE phase = "unwind"
    <2>1. CASE at \in {1, 2, 3} BY <1>5, <2>1, LabelsAre DEF Puts, StepNow
    <2>2. CASE at \in {4, 5, 6} BY <1>3, <1>4, <1>5, <2>2, LabelsAre DEF Puts, StepNow, Due, PutAt
    <2>3. CASE at \in {7, 8} BY <1>3, <1>5, <2>3, LabelsAre DEF Puts, StepNow, Due, PutAt
    <2>4. CASE at \in {9, 10, 11} BY <1>2, <1>5, <2>4, LabelsAre DEF Puts, StepNow, Due, PutAt
    <2> QED BY <1>1, <2>1, <2>2, <2>3, <2>4
  <1>6. CASE phase = "remove"
    <2>1. CASE at \in {1, 3, 4, 7, 8} BY <1>6, <2>1, RemovalIs DEF Puts, StepNow
    <2>2. CASE at \in {2, 6, 9, 10} BY <1>3, <1>6, <2>2, RemovalIs DEF Puts, StepNow, Due, RemovedAt
    <2>3. CASE at = 5 BY <1>2, <1>4, <1>6, <2>3, RemovalIs DEF Puts, StepNow, Due, RemovedAt
    <2>4. CASE at = 11 BY <1>2, <1>6, <2>4, RemovalIs DEF Puts, StepNow, Due, RemovedAt, Of
    <2> QED BY <1>1, <2>1, <2>2, <2>3, <2>4
  <1> QED BY <1>5, <1>6

(* What every step needs to know of the resources.                         *)
LEMMA ProbeParts ==
  ASSUME ProbeInv, phase # "oops"
  PROVE  ProbeTypeOK /\ strays = {} /\ HeldIsDue /\ DueIsHeld /\ PortInv /\ UserInv
  BY DEF ProbeInv, PutOnlyHeld

LEMMA AtBounds ==
  ASSUME ProbeTypeOK
  PROVE  /\ phase = "probe" => at \in 1 .. 19
         /\ phase \in {"unwind", "remove"} => at \in 1 .. 11
         /\ phase \notin {"probe", "unwind", "remove"} => at = 1
  BY PlanIs, LabelsAre, RemovalIs DEF ProbeTypeOK

LEMMA Places ==
  ASSUME NEW r \in Resources
  PROVE  /\ GotAt(r) \in 0 .. 19 /\ PutAt(r) \in 0 .. 11 /\ RemovedAt(r) \in 1 .. 12
         /\ Until(r) \in 0 .. 11 /\ Until(r) <= PutAt(r)
  <1>1. CASE r \in {<<"pruss">>, <<"ocp">>, <<"shared">>, <<"ocmc">>, <<"iep">>, <<"ecap">>,
                    <<"notifiers">>}
    BY <1>1 DEF GotAt, PutAt, RemovedAt, Until
  <1>2. CASE \E p \in Ports : r = <<"node", p>> \/ r = <<"pru", p>> \/ r = <<"phy_node", p>>
    BY <1>2 DEF GotAt, PutAt, RemovedAt, Until, Ports
  <1>3. CASE \E p \in Ports : r = <<"dram", p>> \/ r = <<"netdev", p>> \/ r = <<"phy", p>>
    BY <1>3 DEF GotAt, PutAt, RemovedAt, Until, Ports
  <1> QED BY <1>1, <1>2, <1>3, ResourceCases

LEMMA Remembered ==
  ASSUME NEW r, r[1] \notin {"phy_node", "node", "ocp", "pru"}
  PROVE  r \notin Forgotten
  BY DEF Forgotten, Of

(* A port is registered only while all that it uses is there.              *)
LEMMA RegisteredHolds ==
  ASSUME ProbeInv, phase # "oops", NEW p \in Ports, <<"netdev", p>> \in held
  PROVE  p \in nodes /\ Uses(p) \subseteq held
  <1>1. ProbeTypeOK /\ HeldIsDue /\ DueIsHeld /\ UserInv BY ProbeParts
  <1>2. <<"netdev", p>> \notin Forgotten BY Remembered
  <1>3. p \in nodes /\ Due(<<"netdev", p>>, p) BY <1>1, <1>2 DEF HeldIsDue, Mine, PutAt
  <1>4. /\ phase = "probe" => 16 <= at
        /\ phase = "unwind" => at <= 2
        /\ phase = "remove" => at <= 4
        /\ phase \in {"probe", "unwind", "bound", "remove"}
    BY <1>1, <1>3, AtBounds DEF Due, GotAt, RemovedAt, Ports
  <1>5. ASSUME NEW r \in Resources, r[1] \notin {"phy_node", "ecap", "netdev"}, Mine(r),
               GotAt(r) <= 14, Until(r) >= 4, RemovedAt(r) >= 5
        PROVE  r \in held
    <2>1. GotAt(r) \in Int /\ Until(r) \in Int /\ RemovedAt(r) \in Int BY Places
    <2>2. at \in Int BY <1>1, <1>4, AtBounds
    <2>3. Due(r, Until(r)) BY <1>4, <1>5, <2>1, <2>2 DEF Due
    <2> QED BY <1>1, <1>5, <2>3 DEF DueIsHeld
  <1>6. <<"phy", p>> \in held
    BY <1>3, <1>5, AreResources DEF Mine, GotAt, Until, RemovedAt, Ports
  <1>7. ASSUME NEW name \in {"pruss", "ocp", "shared", "ocmc", "iep"}
        PROVE  <<name>> \in held
    <2>1. CASE name \in {"pruss", "ocp", "shared"}
      BY <1>5, <2>1, AreResources DEF Mine, GotAt, Until, PutAt, RemovedAt
    <2>2. CASE name \in {"ocmc", "iep"}
      BY <1>5, <2>2, AreResources DEF Mine, GotAt, Until, PutAt, RemovedAt
    <2> QED BY <1>7, <2>1, <2>2
  <1>8. ASSUME NEW name \in {"pru", "dram"}, NEW q \in nodes
        PROVE  <<name, q>> \in held
    <2>1. q \in Ports BY <1>1 DEF ProbeTypeOK
    <2> QED BY <1>5, <1>8, <2>1, AreResources DEF Mine, GotAt, Until, PutAt, RemovedAt, Ports
  <1>9. eth_type # "EMAC" => nodes = Ports BY <1>1 DEF UserInv
  <1>10. ASSUME NEW name \in {"pru", "dram"}, NEW q \in IF eth_type = "EMAC" THEN {p} ELSE Ports
         PROVE  <<name, q>> \in held
    BY <1>3, <1>8, <1>9, <1>10
  <1> QED BY <1>3, <1>6, <1>7, <1>10 DEF Uses

LEMMA ProbeInUse ==
  ASSUME ProbeInv
  PROVE  InUseIsHeld
  <1>1. CASE phase = "oops" BY <1>1 DEF ProbeInv
  <1>2. CASE phase # "oops"
    <2>1. open \subseteq Ports /\ \A p \in open : <<"netdev", p>> \in held
      BY <1>2, ProbeParts DEF UserInv, ProbeTypeOK
    <2> QED BY <1>2, <2>1, RegisteredHolds DEF InUseIsHeld
  <1> QED BY <1>1, <1>2

(* The notifiers are registered only while both ports are there that can be. *)
LEMMA NotifiedPorts ==
  ASSUME ProbeInv, phase # "oops", <<"notifiers">> \in held
  PROVE  emac = nodes
  <1>1. ProbeTypeOK /\ HeldIsDue /\ DueIsHeld /\ PortInv BY ProbeParts
  <1>2. <<"notifiers">> \notin Forgotten BY Remembered
  <1>3. Due(<<"notifiers">>, 0) BY <1>1, <1>2 DEF HeldIsDue, PutAt
  <1>4. phase = "bound" \/ (phase = "remove" /\ at <= 2)
    BY <1>1, <1>3, AtBounds DEF Due, GotAt, RemovedAt
  <1>5. ASSUME NEW p \in nodes PROVE p \in emac
    <2>1. p \in Ports BY <1>1 DEF ProbeTypeOK
    <2>2. Due(<<"phy", p>>, Until(<<"phy", p>>))
      BY <1>1, <1>4, AtBounds DEF Due, RemovedAt
    <2>3. <<"phy", p>> \in held BY <1>1, <2>1, <2>2, AreResources DEF DueIsHeld, Mine
    <2> QED BY <1>1, <2>1, <2>3 DEF PortInv
  <1> QED BY <1>1, <1>5 DEF PortInv

(* Three kinds of step: one that follows a pointer that is not there, one  *)
(* of user space, and one of the probe that goes on.                       *)
LEMMA OopsKeeps ==
  ASSUME ProbeInv, phase # "oops", ProbeTypeOK', phase' = "oops", strays' = strays,
         PortsThere', InUseIsHeld'
  PROVE  ProbeInv'
  <1>1. strays = {} BY ProbeParts
  <1> QED BY <1>1 DEF ProbeInv, PutOnlyHeld

LEMMA QuietKeeps ==
  ASSUME ProbeInv, phase # "oops", ProbeTypeOK', UserInv',
         UNCHANGED <<nodes, phase, at, held, emac, strays, past>>
  PROVE  ProbeInv'
  <1>1. strays = {} /\ HeldIsDue /\ DueIsHeld /\ PortInv BY ProbeParts
  <1>2. HeldIsDue' BY <1>1 DEF HeldIsDue, Due, Mine, Forgotten
  <1>3. DueIsHeld' BY <1>1 DEF DueIsHeld, Due, Mine
  <1>4. PortInv' BY <1>1 DEF PortInv
  <1> QED BY <1>1, <1>2, <1>3, <1>4 DEF ProbeInv, PutOnlyHeld, PortsThere

LEMMA OnwardAt ==
  ASSUME ProbeTypeOK, phase = "probe", Onward
  PROVE  /\ \/ at = 19 /\ phase' = "bound" /\ at' = 1
            \/ at < 19 /\ phase' = "probe" /\ at' = at + 1
         /\ at' \in CASE phase' = "probe" -> DOMAIN Plan
                      [] phase' = "unwind" -> DOMAIN Labels
                      [] phase' = "remove" -> DOMAIN Removal
                      [] OTHER -> {1}
         /\ phase' \in {"probe", "bound"}
  <1>1. at \in 1 .. 19 BY AtBounds
  <1>2. CASE at = 19 BY <1>2, PlanIs DEF Onward
  <1>3. CASE at < 19 BY <1>1, <1>3, PlanIs DEF Onward
  <1> QED BY <1>1, <1>2, <1>3

LEMMA OnwardKeeps ==
  ASSUME ProbeInv, phase = "probe", ProbeTypeOK', Onward, UNCHANGED <<nodes, strays, past>>,
         held \subseteq held',
         \A r \in held' \ held : r \in Forgotten \/ (Mine(r) /\ GotAt(r) = at),
         \A r \in Resources : /\ r[1] \notin {"phy_node", "ecap", "netdev"}
                              /\ Mine(r) /\ GotAt(r) = at
                              => r \in held',
         PortInv', UserInv'
  PROVE  ProbeInv'
  <1>1. ProbeTypeOK /\ strays = {} /\ HeldIsDue /\ DueIsHeld BY ProbeParts
  <1>2. at \in 1 .. 19 BY <1>1, AtBounds
  <1>3. \/ at = 19 /\ phase' = "bound" /\ at' = 1
        \/ at < 19 /\ phase' = "probe" /\ at' = at + 1
    BY <1>1, OnwardAt
  <1>4. ASSUME NEW r \in Resources, GotAt(r) <= at, NEW u PROVE Due(r, u)'
    <2>1. GotAt(r) \in Int BY Places
    <2> QED BY <1>2, <1>3, <1>4, <2>1 DEF Due
  <1>5. HeldIsDue'
    <2> SUFFICES ASSUME NEW r \in held'
                 PROVE  r \in Forgotten' \/ (Mine(r)' /\ Due(r, PutAt(r))')
      BY Zenon DEF HeldIsDue
    <2>1. r \in Resources /\ GotAt(r) \in Int BY Places DEF ProbeTypeOK
    <2>2. r \in Forgotten \/ (Mine(r) /\ GotAt(r) <= at)
      <3>1. CASE r \in held BY <1>1, <1>2, <2>1, <3>1 DEF HeldIsDue, Due
      <3>2. CASE r \notin held BY <1>2, <3>2
      <3> QED BY <3>1, <3>2
    <2>3. CASE r \in Forgotten BY <2>3 DEF Forgotten
    <2>4. CASE Mine(r) /\ GotAt(r) <= at BY <1>4, <2>1, <2>4 DEF Mine
    <2> QED BY <2>2, <2>3, <2>4
  <1>6. DueIsHeld'
    <2> SUFFICES ASSUME NEW r \in Resources, r[1] \notin {"phy_node", "ecap", "netdev"},
                        Mine(r)', Due(r, Until(r))'
                 PROVE  r \in held'
      BY Zenon DEF DueIsHeld
    <2>1. GotAt(r) \in 0 .. 19 BY Places
    <2>2. Mine(r) BY DEF Mine
    <2>3. GotAt(r) <= at BY <1>2, <1>3, <2>1 DEF Due
    <2>4. CASE GotAt(r) = at BY <2>2, <2>4
    <2>5. CASE GotAt(r) < at BY <1>1, <2>2, <2>5 DEF DueIsHeld, Due
    <2> QED BY <1>2, <2>1, <2>3, <2>4, <2>5
  <1>7. phase' # "oops" BY <1>3
  <1> QED BY <1>1, <1>5, <1>6, <1>7 DEF ProbeInv, PutOnlyHeld, PortsThere

(* A step of the probe that fails: the label is the right one.             *)
LEMMA LabelNumbers ==
  /\ Label("netdev_unregister0") = 1 /\ Label("ecap_put") = 3 /\ Label("iep_put") = 4
  /\ Label("netdev_exit") = 5 /\ Label("free_pool") = 6 /\ Label("put_mem") = 7
  /\ Label("put_pruss") = 8 /\ Label("put_pru1") = 9 /\ Label("put_pru0") = 10
  /\ Label("put_node") = 11
  <1>1. \A i \in 1 .. 11 : Label(Labels[i]) = i BY LabelIs
  <1>2. /\ Label(Labels[1]) = 1 /\ Label(Labels[3]) = 3 /\ Label(Labels[4]) = 4
        /\ Label(Labels[5]) = 5 /\ Label(Labels[6]) = 6 /\ Label(Labels[7]) = 7
        /\ Label(Labels[8]) = 8 /\ Label(Labels[9]) = 9 /\ Label(Labels[10]) = 10
        /\ Label(Labels[11]) = 11
    BY <1>1
  <1> QED BY <1>2, LabelsAre

LEMMA FailsAt ==
  ASSUME ProbeTypeOK, phase = "probe", at \notin {2, 18}, at = 1 => nodes = {}
  PROVE  LET l == Label(FailsTo(Plan[at]))
         IN /\ l \in 1 .. 11
            /\ \A r \in Resources : r[1] # "phy_node" /\ GotAt(r) < at => l <= PutAt(r)
            /\ \A r \in Resources : /\ r[1] \notin {"phy_node", "ecap", "netdev"}
                                    /\ Mine(r) /\ l <= Until(r)
                                    => GotAt(r) < at
  <1> DEFINE l == Label(FailsTo(Plan[at]))
  <1>1. at \in 1 .. 19 BY AtBounds
  <1>2. \/ (at \in {1, 3} /\ l = 11) \/ (at = 4 /\ l = 10) \/ (at = 5 /\ l = 9)
        \/ (at = 6 /\ l = 8) \/ (at \in {7, 8, 9, 10} /\ l = 7)
        \/ (at \in {11, 12} /\ l = 6) \/ (at \in {13, 14} /\ l = 5)
        \/ (at = 15 /\ l = 4) \/ (at = 16 /\ l = 3) \/ (at \in {17, 19} /\ l = 1)
    <2>1. CASE at \in {1, 3, 4}
      BY <2>1, PlanIs, LabelNumbers DEF FailsTo
    <2>2. CASE at \in {5, 6}
      BY <2>2, PlanIs, LabelNumbers DEF FailsTo
    <2>3. CASE at \in {7, 8, 9, 10}
      BY <2>3, PlanIs, LabelNumbers DEF FailsTo
    <2>4. CASE at \in {11, 12, 13, 14}
      BY <2>4, PlanIs, LabelNumbers DEF FailsTo
    <2>5. CASE at \in {15, 16, 17, 19}
      BY <2>5, PlanIs, LabelNumbers DEF FailsTo
    <2> QED BY <1>1, <2>1, <2>2, <2>3, <2>4, <2>5
  <1> HIDE DEF l
  <1>3. ASSUME NEW r \in Resources
        PROVE  /\ r[1] # "phy_node" /\ GotAt(r) < at => l <= PutAt(r)
               /\ r[1] \notin {"phy_node", "ecap", "netdev"} /\ Mine(r) /\ l <= Until(r)
                  => GotAt(r) < at
    <2>1. CASE r \in {<<"pruss">>, <<"ocp">>, <<"shared">>, <<"ocmc">>}
      BY <1>1, <1>2, <2>1 DEF GotAt, PutAt, Until
    <2>2. CASE r \in {<<"iep">>, <<"ecap">>, <<"notifiers">>}
      BY <1>1, <1>2, <2>2 DEF GotAt, PutAt, Until
    <2>3. CASE \E p \in Ports : r = <<"node", p>> \/ r = <<"pru", p>> \/ r = <<"phy_node", p>>
      <3>1. CASE \E p \in Ports : r = <<"node", p>> \/ r = <<"phy_node", p>>
        BY <1>1, <1>2, <3>1 DEF GotAt, PutAt, Until, Mine
      <3>2. CASE \E p \in Ports : r = <<"pru", p>>
        <4>1. PICK p \in {1, 2} : r = <<"pru", p>> BY <3>2 DEF Ports
        <4>2. GotAt(r) = 2 + p /\ PutAt(r) = 11 - p /\ Until(r) = 11 - p /\ r[1] = "pru"
          BY <4>1 DEF GotAt, PutAt, Until
        <4> QED BY <1>1, <1>2, <4>2
      <3> QED BY <2>3, <3>1, <3>2
    <2>4. CASE \E p \in Ports : r = <<"dram", p>> \/ r = <<"netdev", p>> \/ r = <<"phy", p>>
      BY <1>1, <1>2, <2>4 DEF GotAt, PutAt, Until, Ports
    <2> QED BY <2>1, <2>2, <2>3, <2>4, ResourceCases
  <1>4. l \in 1 .. 11 BY <1>2
  <1> QED BY <1>3, <1>4 DEF l

LEMMA FailKeeps ==
  ASSUME ProbeInv, phase = "probe", at \notin {2, 18}, at = 1 => nodes = {}, ProbeTypeOK',
         phase' = "unwind", at' = Label(FailsTo(Plan[at])),
         UNCHANGED <<nodes, prueth, user, strays, past>>,
         held \subseteq held', held' \ held \subseteq Of("phy_node")
  PROVE  ProbeInv'
  <1>1. ProbeTypeOK /\ strays = {} /\ HeldIsDue /\ DueIsHeld /\ PortInv /\ UserInv BY ProbeParts
  <1>2. PICK l : l = Label(FailsTo(Plan[at])) OBVIOUS
  <1>3. /\ l \in 1 .. 11
        /\ \A r \in Resources : r[1] # "phy_node" /\ GotAt(r) < at => l <= PutAt(r)
        /\ \A r \in Resources : /\ r[1] \notin {"phy_node", "ecap", "netdev"}
                                /\ Mine(r) /\ l <= Until(r)
                                => GotAt(r) < at
    BY <1>1, <1>2, FailsAt
  <1>4. HeldIsDue'
    <2> SUFFICES ASSUME NEW r \in held'
                 PROVE  r \in Forgotten' \/ (Mine(r)' /\ Due(r, PutAt(r))')
      BY Zenon DEF HeldIsDue
    <2>1. r \in Resources BY DEF ProbeTypeOK
    <2>2. CASE r \in Forgotten BY <2>2 DEF Forgotten
    <2>3. CASE r \notin Forgotten
      <3>1. r \in held BY <2>3 DEF Forgotten
      <3>2. r[1] # "phy_node" BY <2>1, <2>3, ResourceCases DEF Forgotten, Of
      <3>3. Mine(r) /\ GotAt(r) < at BY <1>1, <2>3, <3>1 DEF HeldIsDue, Due
      <3> QED BY <1>2, <1>3, <2>1, <3>2, <3>3 DEF Mine, Due
    <2> QED BY <2>2, <2>3
  <1>5. DueIsHeld'
    <2> SUFFICES ASSUME NEW r \in Resources, r[1] \notin {"phy_node", "ecap", "netdev"},
                        Mine(r)', Due(r, Until(r))'
                 PROVE  r \in held'
      BY Zenon DEF DueIsHeld
    <2>1. l <= Until(r) BY <1>2 DEF Due
    <2>2. GotAt(r) < at BY <1>3, <2>1 DEF Mine
    <2> QED BY <1>1, <2>2 DEF DueIsHeld, Due, Mine
  <1>6. PortInv'
    <2>1. \A p \in Ports : <<"phy", p>> \in held' <=> <<"phy", p>> \in held BY DEF Of
    <2> QED BY <1>1, <2>1 DEF PortInv, prueth
  <1>7. UserInv' BY <1>1 DEF UserInv, prueth, user
  <1> QED BY <1>1, <1>4, <1>5, <1>6, <1>7 DEF ProbeInv, PutOnlyHeld, PortsThere

(* prueth_probe(), one action at a time.                                   *)
LEMMA ProbeKeeps ==
  ASSUME ProbeInv, Probe
  PROVE  ProbeInv'
  <1>1. phase = "unbound" BY DEF Probe
  <1>2. ProbeTypeOK /\ strays = {} /\ HeldIsDue BY <1>1, ProbeParts
  <1>3. held' = held /\ past' = past /\ nodes' = nodes /\ phase' = "probe" /\ at' = 1
    BY DEF Probe
  <1>4. ProbeTypeOK'
    <2>1. 1 \in DOMAIN Plan BY PlanIs
    <2> QED BY <1>2, <1>3, <2>1 DEF Probe, ProbeTypeOK
  <1>5. held \subseteq Forgotten BY <1>1, <1>2 DEF HeldIsDue, Due
  <1>6. HeldIsDue' BY <1>3, <1>5 DEF HeldIsDue, Forgotten
  <1>7. DueIsHeld'
    <2>1. ASSUME NEW r \in Resources, GotAt(r) < 1 PROVE r[1] = "phy_node"
      <3>1. CASE r \in {<<"pruss">>, <<"ocp">>, <<"shared">>, <<"ocmc">>, <<"iep">>, <<"ecap">>,
                        <<"notifiers">>}
        BY <2>1, <3>1 DEF GotAt
      <3>2. CASE \E p \in Ports : r = <<"node", p>> \/ r = <<"pru", p>> \/ r = <<"dram", p>>
        BY <2>1, <3>2 DEF GotAt, Ports
      <3>3. CASE \E p \in Ports : r = <<"phy_node", p>> \/ r = <<"phy", p>> \/ r = <<"netdev", p>>
        BY <2>1, <3>3 DEF GotAt, Ports
      <3> QED BY <3>1, <3>2, <3>3, ResourceCases
    <2> QED BY <1>3, <2>1 DEF DueIsHeld, Due
  <1>8. PortInv'
    <2>1. \A p \in Ports : <<"phy", p>> \notin held BY <1>5, Remembered
    <2> QED BY <1>3, <2>1 DEF Probe, PortInv
  <1>9. UserInv' BY DEF Probe, UserInv
  <1>10. strays' = strays BY DEF Probe
  <1> QED BY <1>2, <1>3, <1>4, <1>6, <1>7, <1>8, <1>9, <1>10
          DEF ProbeInv, PutOnlyHeld, PortsThere

LEMMA AcquireKeeps ==
  ASSUME ProbeInv, NEW step \in Plain, Acquire(step)
  PROVE  ProbeInv'
  <1>1. phase = "probe" /\ step = Plan[at] BY DEF Acquire, Doing
  <1>2. ProbeTypeOK /\ PortInv /\ UserInv BY <1>1, ProbeParts
  <1>3. /\ held' = held \cup Gets(Plan[at]) /\ Onward
        /\ UNCHANGED <<nodes, prueth, user, strays, past>>
    BY <1>1 DEF Acquire
  <1>4. Gets(Plan[at]) \subseteq Resources BY <1>1, <1>2, GetsIs
  <1>5. ProbeTypeOK' BY <1>1, <1>2, <1>3, <1>4, OnwardAt DEF ProbeTypeOK, prueth, user
  <1>6. \A r \in held' \ held : Mine(r) /\ GotAt(r) = at BY <1>1, <1>2, <1>3, GetsIs
  <1>7. at \notin {12, 13} BY <1>1, PlanIs DEF Plain
  <1>8. ASSUME NEW r \in Resources, r[1] \notin {"phy_node", "ecap", "netdev"}, Mine(r),
               GotAt(r) = at
        PROVE  r \in held'
    <2>1. r[1] # "phy"
      <3>1. SUFFICES ASSUME r[1] = "phy" PROVE FALSE OBVIOUS
      <3>2. PICK p \in Ports : r = <<"phy", p>> BY <3>1, ResourceCases
      <3> QED BY <1>7, <1>8, <3>2 DEF GotAt, Ports
    <2> QED BY <1>1, <1>2, <1>3, <1>8, <2>1, GetsAll
  <1>9. PortInv'
    <2>1. \A p \in Ports : <<"phy", p>> \in held' <=> <<"phy", p>> \in held
      BY <1>1, <1>2, <1>3, GetsIs
    <2> QED BY <1>2, <1>3, <2>1 DEF PortInv, prueth
  <1>10. UserInv' BY <1>2, <1>3 DEF UserInv, prueth, user
  <1> QED BY <1>1, <1>3, <1>5, <1>6, <1>8, <1>9, <1>10, OnwardKeeps

LEMMA RefusedKeeps ==
  ASSUME ProbeInv, NEW step \in Plain \cup {"lre"}, Refused(step)
  PROVE  ProbeInv'
  <1>1. phase = "probe" /\ step = Plan[at] BY DEF Refused, Doing
  <1>2. ProbeTypeOK /\ strays = {} /\ HeldIsDue /\ PortInv /\ UserInv BY <1>1, ProbeParts
  <1>3. at \in 1 .. 19 BY <1>1, <1>2, AtBounds
  <1>4. UNCHANGED <<nodes, held, prueth, user, strays>> BY DEF Refused
  <1>5. CASE step = "mii_rt"
    <2>1. at = 2
      <3>1. Plan[at] = "mii_rt" BY <1>1, <1>5
      <3> QED BY <1>3, <3>1, PlanIs
    <2>2. phase' = "unbound" /\ at' = 1 /\ past' = past \cup {"mii_rt"} BY <1>5 DEF Refused
    <2>3. ProbeTypeOK' BY <1>2, <1>4, <2>2 DEF ProbeTypeOK, prueth, user
    <2>4. ASSUME NEW r \in held PROVE r \in Forgotten'
      <3>1. CASE r \in Forgotten BY <1>4, <2>2, <3>1 DEF Forgotten
      <3>2. CASE r \notin Forgotten
        <4>1. r \in Resources /\ GotAt(r) < 2
          BY <1>1, <1>2, <2>1, <3>2 DEF HeldIsDue, Due, ProbeTypeOK
        <4>2. r[1] # "phy_node"
          <5>1. r \notin Of("phy_node") BY <3>2 DEF Forgotten
          <5> QED BY <4>1, <5>1, ResourceCases DEF Of
        <4>3. r \in Of("node")
          <5>1. CASE r \in {<<"pruss">>, <<"ocp">>, <<"shared">>, <<"ocmc">>, <<"iep">>,
                            <<"ecap">>, <<"notifiers">>}
            BY <4>1, <5>1 DEF GotAt
          <5>2. CASE \E p \in Ports : r = <<"node", p>> \/ r = <<"pru", p>> \/ r = <<"dram", p>>
            BY <4>1, <5>2 DEF GotAt, Ports, Of
          <5>3. CASE \E p \in Ports :
                       r = <<"phy_node", p>> \/ r = <<"phy", p>> \/ r = <<"netdev", p>>
            BY <4>1, <4>2, <5>3 DEF GotAt, Ports
          <5> QED BY <4>1, <5>1, <5>2, <5>3, ResourceCases
        <4> QED BY <2>2, <4>3 DEF Forgotten
      <3> QED BY <3>1, <3>2
    <2>5. HeldIsDue' BY <1>4, <2>4 DEF HeldIsDue
    <2>6. DueIsHeld' BY <2>2 DEF DueIsHeld, Due
    <2>7. PortInv' /\ UserInv' BY <1>2, <1>4 DEF PortInv, UserInv, prueth, user
    <2> QED BY <1>2, <1>4, <2>2, <2>3, <2>5, <2>6, <2>7 DEF ProbeInv, PutOnlyHeld, PortsThere
  <1>6. CASE step # "mii_rt"
    <2>1. phase' = "unwind" /\ at' = Label(FailsTo(Plan[at])) /\ past' = past
      BY <1>1, <1>6 DEF Refused
    <2>2. at \notin {2, 18} BY <1>1, <1>6, PlanIs DEF Plain
    <2>3. at = 1 => nodes = {} BY <1>1, PlanIs DEF Refused, MayFail
    <2>4. at' \in DOMAIN Labels BY <1>1, <1>2, <2>1, <2>2, <2>3, FailsAt, LabelsAre
    <2>5. ProbeTypeOK' BY <1>2, <1>4, <2>1, <2>4 DEF ProbeTypeOK, prueth, user
    <2> QED BY <1>1, <1>4, <2>1, <2>2, <2>3, <2>5, FailKeeps
  <1> QED BY <1>5, <1>6

LEMMA NoEcapKeeps ==
  ASSUME ProbeInv, NoEcap
  PROVE  ProbeInv'
  <1>1. phase = "probe" /\ "ecap" = Plan[at] BY DEF NoEcap, Doing
  <1>2. ProbeTypeOK /\ PortInv /\ UserInv BY <1>1, ProbeParts
  <1>3. at = 15 BY <1>1, <1>2, AtBounds, PlanIs
  <1>4. Onward /\ UNCHANGED <<nodes, held, prueth, user, strays, past>> BY DEF NoEcap
  <1>5. ProbeTypeOK' BY <1>1, <1>2, <1>4, OnwardAt DEF ProbeTypeOK, prueth, user
  <1>6. ASSUME NEW r \in Resources, r[1] \notin {"phy_node", "ecap", "netdev"}
        PROVE  GotAt(r) # at
    <2>1. CASE r \in {<<"pruss">>, <<"ocp">>, <<"shared">>, <<"ocmc">>, <<"iep">>,
                      <<"notifiers">>}
      BY <1>3, <2>1 DEF GotAt
    <2>2. CASE \E p \in Ports :
                 r = <<"node", p>> \/ r = <<"pru", p>> \/ r = <<"dram", p>> \/ r = <<"phy", p>>
      BY <1>3, <2>2 DEF GotAt, Ports
    <2> QED BY <1>6, <2>1, <2>2, ResourceCases
  <1>7. PortInv' /\ UserInv' BY <1>2, <1>4 DEF PortInv, UserInv, prueth, user
  <1> QED BY <1>1, <1>4, <1>5, <1>6, <1>7, OnwardKeeps

\* Steps that acquire nothing that is counted.
LEMMA NothingToGet ==
  ASSUME NEW r \in Resources, r[1] # "phy_node"
  PROVE  GotAt(r) \notin {11, 18}
  <1>1. CASE r \in {<<"pruss">>, <<"ocp">>, <<"shared">>, <<"ocmc">>, <<"iep">>, <<"ecap">>,
                    <<"notifiers">>}
    BY <1>1 DEF GotAt
  <1>2. CASE \E p \in Ports : r = <<"node", p>> \/ r = <<"pru", p>> \/ r = <<"dram", p>>
    BY <1>2 DEF GotAt, Ports
  <1>3. CASE \E p \in Ports : r = <<"phy", p>> \/ r = <<"netdev", p>>
    BY <1>3 DEF GotAt, Ports
  <1> QED BY <1>1, <1>2, <1>3, ResourceCases

LEMMA LreInitKeeps ==
  ASSUME ProbeInv, NEW on \in BOOLEAN, NEW got_lp \in BOOLEAN, LreInit(on, got_lp)
  PROVE  ProbeInv'
  <1>1. phase = "probe" /\ "lre" = Plan[at] BY DEF LreInit, Doing
  <1>2. ProbeTypeOK /\ PortInv /\ UserInv BY <1>1, ProbeParts
  <1>3. at = 11 BY <1>1, <1>2, AtBounds, PlanIs
  <1>4. /\ Onward /\ UNCHANGED <<nodes, held, emac, timer, user, strays, past>>
        /\ support_lre' = on /\ lp' = got_lp
    BY DEF LreInit
  <1>5. ProbeTypeOK' BY <1>1, <1>2, <1>4, OnwardAt DEF ProbeTypeOK, user
  <1>6. PortInv' /\ UserInv' BY <1>2, <1>4 DEF PortInv, UserInv, user
  <1> QED BY <1>1, <1>3, <1>4, <1>5, <1>6, NothingToGet, OnwardKeeps

LEMMA InitTimerKeeps ==
  ASSUME ProbeInv, InitTimer
  PROVE  ProbeInv'
  <1>1. phase = "probe" /\ "timer" = Plan[at] BY DEF InitTimer, Doing
  <1>2. ProbeTypeOK /\ PortInv /\ UserInv BY <1>1, ProbeParts
  <1>3. at = 18 BY <1>1, <1>2, AtBounds, PlanIs
  <1>4. /\ Onward /\ UNCHANGED <<nodes, held, emac, support_lre, lp, user, strays, past>>
        /\ timer' = "idle"
    BY DEF InitTimer
  <1>5. ProbeTypeOK' BY <1>1, <1>2, <1>4, OnwardAt DEF ProbeTypeOK, user
  <1>6. PortInv' /\ UserInv' BY <1>2, <1>4 DEF PortInv, UserInv, user
  <1> QED BY <1>1, <1>3, <1>4, <1>5, <1>6, NothingToGet, OnwardKeeps

LEMMA NetdevInitKeeps ==
  ASSUME ProbeInv, NEW p \in Ports, NEW step, NetdevInit(p, step),
         phase = "probe" /\ Plan[at] = step => at = 11 + p
  PROVE  ProbeInv'
  <1>1. phase = "probe" /\ at = 11 + p BY DEF NetdevInit, Doing
  <1>2. ProbeTypeOK /\ PortInv /\ UserInv BY <1>1, ProbeParts
  <1>3. UNCHANGED <<nodes, support_lre, lp, timer, user, strays, past>> BY DEF NetdevInit
  <1>4. PICK mine : mine = IF p \in nodes THEN {<<"phy_node", p>>, <<"phy", p>>} ELSE {} OBVIOUS
  <1>5. /\ held' = held \cup mine
        /\ emac' = emac \cup (IF p \in nodes THEN {p} ELSE {})
        /\ Onward \/ (phase' = "oops" /\ at' = 1 /\ support_lre /\ ~lp)
    BY <1>4 DEF NetdevInit
  <1>6. mine \subseteq Resources BY <1>4, AreResources
  <1>7. ProbeTypeOK'
    <2>1. /\ at' \in CASE phase' = "probe" -> DOMAIN Plan
                       [] phase' = "unwind" -> DOMAIN Labels
                       [] phase' = "remove" -> DOMAIN Removal
                       [] OTHER -> {1}
          /\ phase' \in {"probe", "bound", "oops"}
      BY <1>1, <1>2, <1>5, OnwardAt
    <2> QED BY <1>2, <1>3, <1>5, <1>6, <2>1 DEF ProbeTypeOK, user
  <1>8. CASE Onward
    <2>1. \A r \in held' \ held : r \in Forgotten \/ (Mine(r) /\ GotAt(r) = at)
      BY <1>1, <1>4, <1>5 DEF Forgotten, Of, Mine, GotAt
    <2>2. ASSUME NEW r \in Resources, r[1] \notin {"phy_node", "ecap", "netdev"}, Mine(r),
                 GotAt(r) = at
          PROVE  r \in held'
      <3>1. CASE r \in {<<"pruss">>, <<"ocp">>, <<"shared">>, <<"ocmc">>, <<"iep">>,
                        <<"notifiers">>}
        BY <1>1, <2>2, <3>1 DEF GotAt, Ports
      <3>2. CASE \E q \in Ports : r = <<"node", q>> \/ r = <<"pru", q>> \/ r = <<"dram", q>>
        BY <1>1, <2>2, <3>2 DEF GotAt, Ports
      <3>3. CASE \E q \in Ports : r = <<"phy", q>>
        <4>1. PICK q \in Ports : r = <<"phy", q>> BY <3>3
        <4>2. q = p BY <1>1, <2>2, <4>1 DEF GotAt, Ports
        <4> QED BY <1>4, <1>5, <2>2, <4>1, <4>2 DEF Mine
      <3> QED BY <2>2, <3>1, <3>2, <3>3, ResourceCases
    <2>3. PortInv'
      <3>1. emac' \subseteq nodes' BY <1>2, <1>3, <1>5 DEF PortInv
      <3>2. ASSUME NEW q \in Ports PROVE <<"phy", q>> \in held' <=> q \in emac'
        BY <1>2, <1>4, <1>5 DEF PortInv
      <3> QED BY <3>1, <3>2 DEF PortInv
    <2>4. UserInv' BY <1>2, <1>3, <1>5 DEF UserInv, user
    <2>5. held \subseteq held' BY <1>5
    <2> QED BY <1>1, <1>3, <1>7, <1>8, <2>1, <2>2, <2>3, <2>4, <2>5, OnwardKeeps
  <1>9. CASE phase' = "oops" /\ support_lre /\ ~lp
    <2>1. PortsThere' BY <1>3, <1>9 DEF PortsThere
    <2>2. InUseIsHeld' BY <1>3, <1>5, ProbeInUse DEF InUseIsHeld, Uses, user
    <2> QED BY <1>1, <1>3, <1>7, <1>9, <2>1, <2>2, OopsKeeps
  <1> QED BY <1>5, <1>8, <1>9

LEMMA NetdevFailsKeeps ==
  ASSUME ProbeInv, NEW p \in Ports, NEW step, NEW found \in BOOLEAN, NetdevFails(p, step, found),
         phase = "probe" /\ Plan[at] = step => at = 11 + p
  PROVE  ProbeInv'
  <1>1. phase = "probe" /\ at = 11 + p /\ step = Plan[at] BY DEF NetdevFails, Doing
  <1>2. ProbeTypeOK BY <1>1, ProbeParts
  <1>3. /\ phase' = "unwind" /\ at' = Label(FailsTo(Plan[at]))
        /\ UNCHANGED <<nodes, prueth, user, strays, past>>
        /\ held \subseteq held' /\ held' \ held \subseteq Of("phy_node")
    BY <1>1 DEF NetdevFails, Of
  <1>4. at \notin {1, 2, 18} BY <1>1 DEF Ports
  <1>5. at' \in DOMAIN Labels BY <1>1, <1>2, <1>3, <1>4, FailsAt, LabelsAre
  <1>6. Of("phy_node") \subseteq Resources BY AreResources DEF Of
  <1>7. ProbeTypeOK' BY <1>2, <1>3, <1>5, <1>6 DEF ProbeTypeOK, prueth, user
  <1> QED BY <1>1, <1>3, <1>4, <1>7, FailKeeps

(* The operations of user space.                                           *)
LEMMA OpenKeeps ==
  ASSUME ProbeInv, NEW p \in Ports, Open(p)
  PROVE  ProbeInv'
  <1>1. phase # "oops" /\ <<"netdev", p>> \in held BY DEF Open, Registered
  <1>2. ProbeTypeOK /\ UserInv BY <1>1, ProbeParts
  <1>3. /\ open' = open \cup {p}
        /\ UNCHANGED <<nodes, held, emac, support_lre, lp, eth_type, bridged, br_members,
                       strays, past>>
    BY DEF Open
  <1>4. CASE eth_type = "HSR" /\ timer = "none"
    <2>1. phase' = "oops" /\ at' = 1 /\ timer' = timer BY <1>4 DEF Open, Oops
    <2>2. ProbeTypeOK' BY <1>2, <1>3, <2>1 DEF ProbeTypeOK
    <2>3. PortsThere' BY <1>4, <2>1 DEF PortsThere
    <2>4. \A q \in open \cup {p} : Uses(q) \subseteq held
      BY <1>1, ProbeInUse, RegisteredHolds DEF InUseIsHeld
    <2>5. InUseIsHeld' BY <1>3, <2>4 DEF InUseIsHeld, Uses
    <2> QED BY <1>1, <1>3, <2>1, <2>2, <2>3, <2>5, OopsKeeps
  <1>5. CASE ~(eth_type = "HSR" /\ timer = "none")
    <2>1. /\ timer' = IF eth_type = "HSR" THEN "active" ELSE timer
          /\ phase' = phase /\ at' = at
      BY <1>5 DEF Open
    <2>2. ProbeTypeOK' BY <1>2, <1>3, <2>1 DEF ProbeTypeOK
    <2>3. UserInv' BY <1>1, <1>2, <1>3, <2>1 DEF UserInv
    <2> QED BY <1>1, <1>3, <2>1, <2>2, <2>3, QuietKeeps
  <1> QED BY <1>4, <1>5

\* The timer runs on only if another port is open.
LEMMA TimerStops ==
  ASSUME UserInv, NEW out \in SUBSET open, TimerAfter(out) = "active"
  PROVE  open \ out # {} /\ eth_type = "HSR" /\ timer = "active"
  <1>1. timer = "active" /\ open # {} /\ eth_type = "HSR" BY DEF TimerAfter, UserInv
  <1>2. ~(open = out /\ out # {}) BY <1>1 DEF TimerAfter
  <1> QED BY <1>1, <1>2

LEMMA CloseKeeps ==
  ASSUME ProbeInv, NEW p \in Ports, Close(p)
  PROVE  ProbeInv'
  <1>1. phase # "oops" /\ p \in open BY DEF Close, Registered
  <1>2. ProbeTypeOK /\ UserInv BY <1>1, ProbeParts
  <1>3. /\ open' = open \ {p} /\ timer' = TimerAfter({p})
        /\ UNCHANGED <<nodes, phase, at, held, emac, support_lre, lp, eth_type, bridged,
                       br_members, strays, past>>
    BY DEF Close
  <1>4. ProbeTypeOK' BY <1>2, <1>3 DEF ProbeTypeOK, TimerAfter
  <1>5. timer' = "active" => open' # {} /\ eth_type' = "HSR" BY <1>1, <1>2, <1>3, TimerStops
  <1>6. UserInv' BY <1>2, <1>3, <1>5 DEF UserInv
  <1> QED BY <1>1, <1>3, <1>4, <1>6, QuietKeeps

LEMMA SetHsrKeeps ==
  ASSUME ProbeInv, NEW on \in BOOLEAN, SetHsr(on)
  PROVE  ProbeInv'
  <1>1. /\ phase # "oops" /\ \A p \in Ports : <<"netdev", p>> \in held
        /\ open = {}
    BY DEF SetHsr, Registered, Ports
  <1>2. ProbeTypeOK /\ UserInv BY <1>1, ProbeParts
  <1>3. /\ eth_type' = IF on THEN "HSR" ELSE "EMAC"
        /\ UNCHANGED <<nodes, phase, at, held, prueth, open, bridged, br_members, strays, past>>
    BY DEF SetHsr
  <1>4. nodes = Ports
    <2>1. nodes \subseteq Ports BY <1>2 DEF ProbeTypeOK
    <2> QED BY <1>1, <2>1, RegisteredHolds
  <1>5. ProbeTypeOK' BY <1>2, <1>3 DEF ProbeTypeOK, prueth
  <1>6. UserInv' BY <1>1, <1>2, <1>3, <1>4 DEF UserInv, prueth
  <1> QED BY <1>1, <1>3, <1>5, <1>6, QuietKeeps DEF prueth

LEMMA BridgeKeeps ==
  ASSUME ProbeInv, phase # "oops", NEW ports \in SUBSET Ports, NEW members \in SUBSET Ports,
         Bridge(ports, members)
  PROVE  ProbeInv'
  <1>1. ProbeTypeOK /\ UserInv BY ProbeParts
  <1>2. bridged' = ports /\ UNCHANGED <<nodes, held, prueth, open, strays, past>>
    BY DEF Bridge
  <1>3. CASE <<"notifiers">> \in held /\ eth_type # "HSR"
    <2>1. br_members' = members BY <1>3 DEF Bridge, OffloadUpdate
    <2>2. emac = nodes BY <1>3, NotifiedPorts
    <2>3. CASE emac # Ports
      <3>1. phase' = "oops" /\ at' = 1 /\ eth_type' = eth_type
        BY <1>3, <2>3 DEF Bridge, OffloadUpdate, Oops
      <3>2. ProbeTypeOK' BY <1>1, <1>2, <2>1, <3>1 DEF ProbeTypeOK, prueth
      <3>3. PortsThere' BY <1>2, <2>2, <2>3 DEF PortsThere
      <3>4. InUseIsHeld' BY <1>2, <3>1, ProbeInUse DEF InUseIsHeld, Uses
      <3> QED BY <1>2, <3>1, <3>2, <3>3, <3>4, OopsKeeps
    <2>4. CASE emac = Ports
      <3>1. /\ eth_type' = CASE members = Ports -> "SWITCH"
                             [] members = {} -> "EMAC"
                             [] OTHER -> eth_type
            /\ phase' = phase /\ at' = at
        BY <1>3, <2>4 DEF Bridge, OffloadUpdate
      <3>2. eth_type' \in {"SWITCH", "EMAC", eth_type} BY <3>1
      <3>3. ProbeTypeOK' BY <1>1, <1>2, <2>1, <3>1, <3>2 DEF ProbeTypeOK, prueth
      <3>4. UserInv' BY <1>1, <1>2, <1>3, <2>2, <2>4 DEF UserInv, prueth
      <3> QED BY <1>2, <3>1, <3>3, <3>4, QuietKeeps DEF prueth
    <2> QED BY <2>3, <2>4
  <1>4. CASE ~(<<"notifiers">> \in held /\ eth_type # "HSR")
    <2>1. UNCHANGED <<br_members, eth_type, phase, at>> BY <1>4 DEF Bridge
    <2>2. ProbeTypeOK' BY <1>1, <1>2, <2>1 DEF ProbeTypeOK, prueth
    <2>3. UserInv' BY <1>1, <1>2, <2>1 DEF UserInv, prueth
    <2> QED BY <1>2, <2>1, <2>2, <2>3, QuietKeeps DEF prueth
  <1> QED BY <1>3, <1>4

LEMMA LinkKeeps ==
  ASSUME ProbeInv, NEW p \in Ports, Link(p) \/ Unlink(p)
  PROVE  ProbeInv'
  <1>1. phase # "oops" BY DEF Link, Unlink, Registered
  <1>2. bridged \subseteq Ports /\ br_members \subseteq Ports
    BY <1>1, ProbeParts DEF ProbeTypeOK
  <1>3. CASE Link(p)
    BY <1>1, <1>2, <1>3, BridgeKeeps DEF Link
  <1>4. CASE Unlink(p)
    BY <1>1, <1>2, <1>4, BridgeKeeps DEF Unlink
  <1> QED BY <1>3, <1>4

(* The labels of prueth_probe() and the steps of prueth_remove().          *)
LEMMA RemoveKeeps ==
  ASSUME ProbeInv, Remove
  PROVE  ProbeInv'
  <1>1. phase = "bound" /\ phase' = "remove" /\ at' = 1
        /\ UNCHANGED <<nodes, held, prueth, user, strays, past>>
    BY DEF Remove
  <1>2. ProbeTypeOK /\ strays = {} /\ HeldIsDue /\ DueIsHeld /\ PortInv /\ UserInv
    BY <1>1, ProbeParts
  <1>3. ProbeTypeOK'
    <2>1. 1 \in DOMAIN Removal BY RemovalIs
    <2> QED BY <1>1, <1>2, <2>1 DEF ProbeTypeOK, prueth, user
  <1>4. HeldIsDue'
    <2> SUFFICES ASSUME NEW r \in held'
                 PROVE  r \in Forgotten' \/ (Mine(r)' /\ Due(r, PutAt(r))')
      BY Zenon DEF HeldIsDue
    <2>1. r \in held /\ r \in Resources BY <1>1, <1>2 DEF ProbeTypeOK
    <2>2. RemovedAt(r) \in 1 .. 12 BY <2>1, Places
    <2>3. Due(r, PutAt(r))' BY <1>1, <2>2 DEF Due
    <2>4. r \in Forgotten \/ Mine(r) BY <1>2, <2>1 DEF HeldIsDue
    <2> QED BY <1>1, <2>3, <2>4 DEF Forgotten, Mine
  <1>5. DueIsHeld' BY <1>1, <1>2 DEF DueIsHeld, Due, Mine
  <1>6. PortInv' /\ UserInv' BY <1>1, <1>2 DEF PortInv, UserInv, prueth, user
  <1> QED BY <1>1, <1>2, <1>3, <1>4, <1>5, <1>6 DEF ProbeInv, PutOnlyHeld, PortsThere

\* Where a phase of releases goes on.
ReleasesOn ==
  \/ phase = "unwind" /\ at < 11 /\ phase' = "unwind" /\ at' = at + 1 /\ past' = past
  \/ phase = "unwind" /\ at = 11 /\ phase' = "unbound" /\ at' = 1 /\ past' = past
  \/ phase = "remove" /\ at < 11 /\ phase' = "remove" /\ at' = at + 1 /\ past' = past
  \/ phase = "remove" /\ at = 11 /\ phase' = "unbound" /\ at' = 1
     /\ past' = past \cup {"remove"}

LEMMA ReleaseDue ==
  ASSUME ProbeInv, phase \in {"unwind", "remove"}, ReleasesOn,
         nodes' = nodes, held' = held \ Puts(StepNow)
  PROVE  HeldIsDue' /\ DueIsHeld'
  <1>1. ProbeTypeOK /\ HeldIsDue /\ DueIsHeld /\ PortInv BY ProbeParts
  <1>2. at \in 1 .. 11 BY <1>1, AtBounds
  <1>3. HeldIsDue'
    <2> SUFFICES ASSUME NEW r \in held'
                 PROVE  r \in Forgotten' \/ (Mine(r)' /\ Due(r, PutAt(r))')
      BY Zenon DEF HeldIsDue
    <2>1. r \in held /\ r \in Resources /\ r \notin Puts(StepNow) BY <1>1 DEF ProbeTypeOK
    <2>2. PutAt(r) \in 0 .. 11 /\ RemovedAt(r) \in 1 .. 12 BY <2>1, Places
    <2>3. CASE r \in Forgotten
      <3>1. past \subseteq past' BY DEF ReleasesOn
      <3> QED BY <2>3, <3>1 DEF Forgotten
    <2>4. CASE r \notin Forgotten
      <3>1. Mine(r) /\ Due(r, PutAt(r)) BY <1>1, <2>1, <2>4 DEF HeldIsDue
      <3>2. Mine(r)' BY <3>1 DEF Mine
      <3>3. CASE phase = "unwind"
        <4>1. at <= PutAt(r) BY <3>1, <3>3 DEF Due
        <4>2. PutAt(r) # at BY <1>1, <2>1, <3>1, <3>3, PutsAll DEF PutNow
        <4>3. at < 11 /\ at + 1 <= PutAt(r) BY <1>2, <2>2, <4>1, <4>2
        <4> QED BY <3>2, <3>3, <4>3 DEF ReleasesOn, Due
      <3>4. CASE phase = "remove"
        <4>1. at <= RemovedAt(r) BY <3>1, <3>4 DEF Due
        <4>2. RemovedAt(r) # at \/ (r[1] = "pru" /\ nodes # Ports)
          BY <1>1, <2>1, <3>1, <3>4, PutsAll DEF PutNow
        <4>3. r[1] = "pru" => RemovedAt(r) = 11 BY DEF RemovedAt
        <4>4. CASE at < 11
          BY <1>2, <2>2, <3>2, <3>4, <4>1, <4>2, <4>3, <4>4 DEF ReleasesOn, Due
        <4>5. CASE at = 11
          <5>1. past' = past \cup {"remove"} BY <3>4, <4>5 DEF ReleasesOn
          <5>2. CASE r[1] = "pru"
            <6>1. nodes # Ports BY <1>1, <2>1, <3>1, <3>4, <4>3, <4>5, <5>2, PutsAll DEF PutNow
            <6>2. r \in Of("pru") BY <2>1, <5>2, ResourceCases DEF Of
            <6> QED BY <5>1, <6>1, <6>2 DEF Forgotten
          <5>3. CASE r[1] # "pru"
            <6>1. RemovedAt(r) = 12 BY <2>2, <4>1, <4>2, <4>5, <5>3
            <6>2. r \in Of("phy_node") \/ r = <<"ocp">>
              <7>1. CASE r \in {<<"pruss">>, <<"ocp">>, <<"shared">>, <<"ocmc">>, <<"iep">>,
                                <<"ecap">>, <<"notifiers">>}
                BY <6>1, <7>1 DEF RemovedAt
              <7>2. CASE \E p \in Ports : r = <<"node", p>> \/ r = <<"dram", p>> \/ r = <<"phy", p>>
                BY <6>1, <7>2 DEF RemovedAt
              <7>3. CASE \E p \in Ports : r = <<"netdev", p>>
                BY <6>1, <7>3 DEF RemovedAt, Ports
              <7>4. CASE \E p \in Ports : r = <<"phy_node", p>> \/ r = <<"pru", p>>
                BY <5>3, <7>4 DEF Of
              <7> QED BY <2>1, <7>1, <7>2, <7>3, <7>4, ResourceCases
            <6> QED BY <5>1, <6>2 DEF Forgotten
          <5> QED BY <5>2, <5>3
        <4> QED BY <1>2, <4>4, <4>5
      <3> QED BY <3>3, <3>4
    <2> QED BY <2>3, <2>4
  <1>4. DueIsHeld'
    <2> SUFFICES ASSUME NEW r \in Resources, r[1] \notin {"phy_node", "ecap", "netdev"},
                        Mine(r)', Due(r, Until(r))'
                 PROVE  r \in held'
      BY Zenon DEF DueIsHeld
    <2>1. /\ PutAt(r) \in 0 .. 11 /\ RemovedAt(r) \in 1 .. 12 /\ Until(r) \in 0 .. 11
          /\ Until(r) <= PutAt(r)
      BY Places
    <2>2. /\ phase = "unwind" => at + 1 <= Until(r)
          /\ phase = "remove" => at + 1 <= RemovedAt(r)
      BY DEF ReleasesOn, Due
    <2>3. Mine(r) BY DEF Mine
    <2>4. Due(r, Until(r)) BY <1>2, <2>1, <2>2 DEF Due
    <2>5. r \in held BY <1>1, <2>3, <2>4 DEF DueIsHeld
    <2>6. PutNow(r) # at BY <1>2, <2>1, <2>2 DEF PutNow
    <2>7. r \notin Puts(StepNow) BY <1>1, <2>6, PutsIs
    <2> QED BY <2>5, <2>7
  <1> QED BY <1>3, <1>4

LEMMA ReleaseKeeps ==
  ASSUME ProbeInv, phase \in {"unwind", "remove"}, Release(StepNow), ReleasesOn
  PROVE  ProbeInv'
  <1>1. ProbeTypeOK /\ strays = {} /\ PortInv /\ UserInv BY ProbeParts
  <1>2. at \in 1 .. 11 BY <1>1, AtBounds
  <1>3. PICK out : out = {p \in open : <<"netdev", p>> \in Puts(StepNow)} OBVIOUS
  <1>4. /\ held' = held \ Puts(StepNow)
        /\ strays' = strays \cup (Puts(StepNow) \ held)
        /\ open' = open \ out
        /\ bridged' \subseteq bridged
        /\ timer' = IF StepNow = "cancel" /\ timer = "active" THEN "idle" ELSE TimerAfter(out)
        /\ emac' = IF StepNow = "netdev_exit" THEN emac \ nodes ELSE emac
        /\ UNCHANGED <<nodes, support_lre, lp, eth_type, br_members>>
    BY <1>3 DEF Release
  <1>5. strays' = {} BY <1>1, <1>4, PutsHeld, ProbeParts
  <1>6. phase' \in {"unwind", "remove", "unbound"} BY DEF ReleasesOn
  <1>7. ProbeTypeOK'
    <2>1. at' \in CASE phase' = "probe" -> DOMAIN Plan
                    [] phase' = "unwind" -> DOMAIN Labels
                    [] phase' = "remove" -> DOMAIN Removal
                    [] OTHER -> {1}
      BY <1>2, LabelsAre, RemovalIs DEF ReleasesOn
    <2>2. past' \subseteq {"mii_rt", "remove"} BY <1>1 DEF ReleasesOn, ProbeTypeOK
    <2>3. timer' \in {"none", "idle", "active"} BY <1>1, <1>4 DEF TimerAfter, ProbeTypeOK
    <2>4. emac' \subseteq emac BY <1>4
    <2> QED BY <1>1, <1>4, <1>5, <1>6, <2>1, <2>2, <2>3, <2>4 DEF ProbeTypeOK
  <1>8. HeldIsDue' /\ DueIsHeld' BY <1>4, ReleaseDue
  <1>9. PortInv'
    <2>1. ASSUME NEW p \in Ports, <<"phy", p>> \in Puts(StepNow) PROVE at = 5
      BY <1>1, <2>1, PutsIs DEF PutNow, PutAt, RemovedAt
    <2>2. StepNow = "netdev_exit" <=> at = 5
      BY <1>2, LabelsAre, RemovalIs DEF StepNow
    <2>3. CASE at # 5
      BY <1>1, <1>4, <2>1, <2>2, <2>3 DEF PortInv
    <2>4. CASE at = 5
      <3>1. emac' = {} BY <1>1, <1>4, <2>2, <2>4 DEF PortInv
      <3>2. ASSUME NEW p \in Ports, <<"phy", p>> \in held PROVE <<"phy", p>> \in Puts(StepNow)
        BY <1>1, <2>4, <3>2, PutsAll DEF PortInv, PutNow, PutAt, RemovedAt, Mine
      <3> QED BY <1>4, <3>1, <3>2 DEF PortInv
    <2> QED BY <2>3, <2>4
  <1>10. UserInv'
    <2>1. \A p \in open' : <<"netdev", p>> \in held' BY <1>1, <1>3, <1>4 DEF UserInv
    <2>2. out \subseteq open BY <1>3
    <2>3. timer' = "active" => open' # {} /\ eth_type' = "HSR"
      BY <1>1, <1>4, <2>2, TimerStops
    <2> QED BY <1>1, <1>4, <2>1, <2>3 DEF UserInv
  <1> QED BY <1>5, <1>6, <1>7, <1>8, <1>9, <1>10 DEF ProbeInv, PutOnlyHeld, PortsThere

LEMMA UnwindKeeps ==
  ASSUME ProbeInv, Unwind \/ RemoveStep
  PROVE  ProbeInv'
  <1>1. phase \in {"unwind", "remove"} BY DEF Unwind, RemoveStep
  <1>2. at \in 1 .. 11 BY <1>1, ProbeParts, AtBounds
  <1>3. CASE Unwind
    <2>1. phase = "unwind" /\ Release(StepNow) BY <1>3 DEF Unwind, StepNow
    <2>2. ReleasesOn BY <1>2, <1>3, LabelsAre DEF Unwind, ReleasesOn
    <2> QED BY <2>1, <2>2, ReleaseKeeps
  <1>4. CASE RemoveStep
    <2>1. phase = "remove" /\ Release(StepNow) BY <1>4 DEF RemoveStep, StepNow
    <2>2. ReleasesOn BY <1>2, <1>4, RemovalIs DEF RemoveStep, ReleasesOn
    <2> QED BY <2>1, <2>2, ReleaseKeeps
  <1> QED BY <1>3, <1>4

LEMMA ProbeStarts ==
  ASSUME ProbeInit
  PROVE  ProbeInv
  <1>1. ProbeTypeOK BY DEF ProbeInit, ProbeTypeOK
  <1>2. HeldIsDue /\ DueIsHeld /\ PortInv /\ UserInv
    BY DEF ProbeInit, HeldIsDue, DueIsHeld, Due, PortInv, UserInv
  <1> QED BY <1>1, <1>2 DEF ProbeInit, ProbeInv, PutOnlyHeld, PortsThere

LEMMA ProbeNextKeeps ==
  ASSUME ProbeInv, [ProbeNext]_probeVars
  PROVE  ProbeInv'
  <1>1. CASE UNCHANGED probeVars
    BY <1>1 DEF probeVars, prueth, user, ProbeInv, ProbeTypeOK, PutOnlyHeld, PortsThere,
                InUseIsHeld, Uses, HeldIsDue, DueIsHeld, Due, Mine, Forgotten, PortInv, UserInv
  <1>2. CASE Probe BY <1>2, ProbeKeeps
  <1>3. CASE \E step \in Plain : Acquire(step) BY <1>3, AcquireKeeps
  <1>4. CASE \E step \in Plain \cup {"lre"} : Refused(step) BY <1>4, RefusedKeeps
  <1>5. CASE NoEcap BY <1>5, NoEcapKeeps
  <1>6. CASE \E on, got_lp \in BOOLEAN : LreInit(on, got_lp) BY <1>6, LreInitKeeps
  <1>7. \A i \in 1 .. 19 : /\ Plan[i] = "netdev0" => i = 11 + 1
                           /\ Plan[i] = "netdev1" => i = 11 + 2
    BY PlanIs
  <1>8. phase = "probe" => at \in 1 .. 19 BY ProbeParts, AtBounds
  <1>9. 1 \in Ports /\ 2 \in Ports BY DEF Ports
  <1>10. CASE NetdevInit(1, "netdev0") BY <1>7, <1>8, <1>9, <1>10, NetdevInitKeeps
  <1>11. CASE NetdevInit(2, "netdev1") BY <1>7, <1>8, <1>9, <1>11, NetdevInitKeeps
  <1>12. CASE \E found \in BOOLEAN : NetdevFails(1, "netdev0", found)
    BY <1>7, <1>8, <1>9, <1>12, NetdevFailsKeeps
  <1>13. CASE \E found \in BOOLEAN : NetdevFails(2, "netdev1", found)
    BY <1>7, <1>8, <1>9, <1>13, NetdevFailsKeeps
  <1>14. CASE InitTimer BY <1>14, InitTimerKeeps
  <1>15. CASE \E p \in Ports : Open(p) \/ Close(p) \/ Link(p) \/ Unlink(p)
    BY <1>15, OpenKeeps, CloseKeeps, LinkKeeps
  <1>16. CASE \E on \in BOOLEAN : SetHsr(on) BY <1>16, SetHsrKeeps
  <1>17. CASE Unwind \/ RemoveStep BY <1>17, UnwindKeeps
  <1>18. CASE Remove BY <1>18, RemoveKeeps
  <1> QED BY <1>1, <1>2, <1>3, <1>4, <1>5, <1>6, <1>10, <1>11, <1>12, <1>13, <1>14, <1>15,
             <1>16, <1>17, <1>18 DEF ProbeNext

\* At every step of prueth_probe(), of its labels and of prueth_remove(), with
\* user space at work between any two of them, exactly what was acquired up to
\* there is held.
THEOREM ProbeInvariant == ProbeSpec => []ProbeInv
  <1>1. ProbeInit => ProbeInv BY ProbeStarts
  <1>2. ProbeInv /\ [ProbeNext]_probeVars => ProbeInv' BY ProbeNextKeeps
  <1> QED BY <1>1, <1>2, PTL DEF ProbeSpec

\* What an open port uses is held, and with both ports available nobody follows
\* a pointer to a port that is not there, whenever a port is opened, closed or
\* put into the bridge while prueth_probe() or prueth_remove() is under way.
THEOREM UsesWhatIsThereAlways == ProbeSpec => []UsesWhatIsThere
  <1>1. ProbeInv => UsesWhatIsThere BY ProbeInUse DEF ProbeInv, UsesWhatIsThere
  <1> QED BY <1>1, ProbeInvariant, PTL

\* A failed prueth_probe(), at any step, and prueth_remove() release everything
\* but what the code forgets, nothing twice and nothing that was never acquired.
THEOREM ReleasedOnceAlways == ProbeSpec => []ReleasedOnce
  <1>1. ASSUME ProbeInv PROVE ReleasedOnce
    <2>1. PutOnlyHeld BY <1>1 DEF ProbeInv
    <2>2. ASSUME phase = "unbound" PROVE held \subseteq Forgotten /\ timer # "active"
      <3>1. HeldIsDue /\ UserInv BY <1>1, <2>2, ProbeParts
      <3>2. held \subseteq Forgotten BY <2>2, <3>1 DEF HeldIsDue, Due
      <3>3. ASSUME NEW p \in open PROVE FALSE
        <4>1. <<"netdev", p>> \in held BY <3>1 DEF UserInv
        <4> QED BY <3>2, <4>1, Remembered
      <3> QED BY <3>1, <3>2, <3>3 DEF UserInv
    <2> QED BY <2>1, <2>2 DEF ReleasedOnce, NothingKept
  <1> QED BY <1>1, ProbeInvariant, PTL
=============================================================================

------------------------ MODULE PruethTxRing_proofs -------------------------
(***************************************************************************)
(* Proofs about one transmit ring, for every size of the ring, every       *)
(* longest frame and every set of payloads.                                *)
(***************************************************************************)
EXTENDS PruethTxRing, TLAPS

(* ----------------------------- arithmetic ------------------------------ *)

\* Advancing stays within the ring, however far the frame reaches
\* (update_block in prueth_tx_enqueue and in the firmware).
LEMMA AdvanceType ==
  ASSUME NEW i \in Bd, NEW n \in Nat
  PROVE  Advance(i, n) \in Bd
  BY RingAssumption DEF Advance, Bd

\* By at most one lap, the modulus of update_block is a subtraction.
LEMMA AdvanceIs ==
  ASSUME NEW i \in Bd, NEW n \in 0 .. NumBds
  PROVE  Advance(i, n) = IF i + n >= NumBds THEN i + n - NumBds ELSE i + n
  BY RingAssumption DEF Advance, Bd

\* free_blocks is what is left of the ring behind the used part.
LEMMA FreeIs ==
  ASSUME NEW r \in Bd, NEW w \in Bd
  PROVE  /\ FreeBlocks(r, w) = NumBds - Distance(r, w)
         /\ Distance(r, w) \in 0 .. NumBds - 1
         /\ Distance(r, w) = 0 <=> r = w
  BY RingAssumption DEF FreeBlocks, Distance, Bd

\* A block n blocks behind s, less than a lap away, is at distance n from s
\* (the copy loop of prueth_tx_enqueue goes on at block 0 after the last).
LEMMA DistanceAdvance ==
  ASSUME NEW s \in Bd, NEW n \in 0 .. NumBds - 1
  PROVE  Distance(s, Advance(s, n)) = n
  <1>1. Advance(s, n) = IF s + n >= NumBds THEN s + n - NumBds ELSE s + n
    BY AdvanceIs, RingAssumption
  <1> QED BY <1>1, RingAssumption DEF Distance, Bd

\* Seen from r, a block n behind s is n further than s, within the lap.
LEMMA DistanceAdds ==
  ASSUME NEW r \in Bd, NEW s \in Bd, NEW n \in 0 .. NumBds,
         Distance(r, s) + n < NumBds
  PROVE  Distance(r, Advance(s, n)) = Distance(r, s) + n
  <1>1. Advance(s, n) = IF s + n >= NumBds THEN s + n - NumBds ELSE s + n
    BY AdvanceIs
  <1> QED BY <1>1, RingAssumption DEF Distance, Bd

\* A lap and no more leads back: a frame that takes all that is free ends at
\* the read pointer.
LEMMA AdvanceLap ==
  ASSUME NEW r \in Bd, NEW w \in Bd, NEW n \in 0 .. NumBds,
         Distance(r, w) + n <= NumBds, Advance(w, n) # r
  PROVE  n = 0 \/ Distance(r, w) + n < NumBds
  <1>1. Advance(w, n) = IF w + n >= NumBds THEN w + n - NumBds ELSE w + n
    BY AdvanceIs
  <1> QED BY <1>1, RingAssumption DEF Distance, Bd

\* When the read pointer moves n blocks on, what lies behind is n nearer.
LEMMA DistanceShift ==
  ASSUME NEW r \in Bd, NEW s \in Bd, NEW n \in 0 .. NumBds,
         n <= Distance(r, s)
  PROVE  Distance(Advance(r, n), s) = Distance(r, s) - n
  <1>1. Advance(r, n) = IF r + n >= NumBds THEN r + n - NumBds ELSE r + n
    BY AdvanceIs
  <1> QED BY <1>1, RingAssumption DEF Distance, Bd

\* A used block is not one that the next frame is copied to: seen from the
\* write pointer it lies behind all of the free part.
LEMMA UsedNotFree ==
  ASSUME NEW r \in Bd, NEW w \in Bd, NEW i \in Bd,
         Distance(r, i) < Distance(r, w)
  PROVE  Distance(w, i) >= NumBds - Distance(r, w)
  BY RingAssumption DEF Distance, Bd

(* --------------------------- type correctness -------------------------- *)

\* Every variable has its type in every reachable state; in particular both
\* pointers stay within the ring, whatever the firmware reads.
THEOREM TypeCorrect == Spec => []TypeOK
<1>1. Init => TypeOK
  <2> SUFFICES ASSUME Init PROVE TypeOK
    OBVIOUS
  <2>1. 0 \in Bd /\ 0 \in 0 .. MaxBlocks
    BY RingAssumption DEF Bd
  <2>2. NoBlock \in Block
    BY <2>1 DEF NoBlock, Block
  <2>3. bd \in [Bd -> 0 .. MaxBlocks] /\ buf \in [Bd -> Block]
    BY <2>1, <2>2 DEF Init
  <2>4. queue \in Seq(Entry)
    BY DEF Init
  <2> QED BY <2>1, <2>3, <2>4 DEF Init, TypeOK
<1>2. TypeOK /\ [Next]_vars => TypeOK'
  <2> SUFFICES ASSUME TypeOK, [Next]_vars PROVE TypeOK'
    OBVIOUS
  <2> USE RingAssumption
  <2>0. FrameBlocks \subseteq 0 .. MaxBlocks /\ FrameBlocks \subseteq Nat
        /\ 0 .. MaxBlocks \subseteq Nat
    BY DEF FrameBlocks
  <2>1. ASSUME NEW f \in Skb, Accept(f) PROVE TypeOK'
    BY <2>1 DEF Accept, TypeOK
  <2>2. CASE CopyData
    <3>1. ASSUME NEW i \in Bd, Distance(wr, i) < skb.blocks
          PROVE  <<skb.data, Distance(wr, i) + 1>> \in Block
      BY <3>1 DEF TypeOK, Skb, FrameBlocks, Block, Distance, Bd
    <3>2. buf' \in [Bd -> Block]
      BY <2>2, <3>1 DEF CopyData, TypeOK
    <3> QED BY <2>2, <3>2 DEF CopyData, TypeOK
  <2>3. CASE WriteDescriptor
    BY <2>3, <2>0 DEF WriteDescriptor, TypeOK, Skb
  <2>4. CASE Commit
    <3>1. wr' \in Bd
      BY <2>4, <2>0, AdvanceType DEF Commit, TypeOK, Skb
    <3>2. [data |-> skb.data, blocks |-> skb.blocks, start |-> wr] \in Entry
      BY DEF TypeOK, Skb, Entry
    <3>3. queue' \in Seq(Entry)
      BY <2>4, <3>2 DEF Commit, TypeOK
    <3> QED BY <2>4, <3>1, <3>3 DEF Commit, TypeOK
  <2>5. CASE FwFetch
    BY <2>5 DEF FwFetch, TypeOK
  <2>6. CASE FwTransmit
    <3>1. rd' \in Bd
      BY <2>6, <2>0, AdvanceType DEF FwTransmit, TypeOK
    <3>2. queue' \in Seq(Entry)
      BY <2>6 DEF FwTransmit, TypeOK
    <3> QED BY <2>6, <3>1, <3>2 DEF FwTransmit, TypeOK
  <2>7. CASE UNCHANGED vars
    BY <2>7 DEF vars, TypeOK
  <2> QED BY <2>1, <2>2, <2>3, <2>4, <2>5, <2>6, <2>7 DEF Next
<1> QED BY <1>1, <1>2, PTL DEF Spec

(* ----------------------- the inductive invariant ----------------------- *)

\* What the type invariant says of the numbers below.
LEMMA Typing ==
  ASSUME TypeOK
  PROVE  /\ rd \in Bd /\ wr \in Bd
         /\ \A j \in 1 .. Len(queue) : /\ queue[j] \in Entry
                                       /\ queue[j].start \in Bd
                                       /\ queue[j].blocks \in FrameBlocks
         /\ skb.blocks \in FrameBlocks
         /\ Len(queue) \in Nat
         /\ FrameBlocks \subseteq Nat \ {0}
         /\ Used \in 0 .. NumBds - 1
         /\ \A j \in 1 .. Len(queue) : From(queue[j]) \in 0 .. NumBds - 1
  <1>1. rd \in Bd /\ wr \in Bd /\ Len(queue) \in Nat /\ skb.blocks \in FrameBlocks
    BY DEF TypeOK, Skb
  <1>2. \A j \in 1 .. Len(queue) : queue[j] \in Entry
    BY DEF TypeOK
  <1>3. \A j \in 1 .. Len(queue) : queue[j].start \in Bd /\ queue[j].blocks \in FrameBlocks
    BY <1>2 DEF Entry
  <1>4. FrameBlocks \subseteq Nat \ {0}
    BY RingAssumption DEF FrameBlocks
  <1> QED BY <1>1, <1>2, <1>3, <1>4, FreeIs DEF Used, From

\* An accepted frame lies in the used part: no block of it is handed out to
\* the frame that is being written.
LEMMA EntryBlocks ==
  ASSUME TypeOK, Layout, NEW j \in 1 .. Len(queue), NEW k \in 1 .. queue[j].blocks
  PROVE  /\ Advance(queue[j].start, k - 1) \in Bd
         /\ Distance(rd, Advance(queue[j].start, k - 1)) < Used
         /\ Distance(wr, Advance(queue[j].start, k - 1)) >= FreeBlocks(rd, wr)
  <1> DEFINE s == queue[j].start
             i == Advance(s, k - 1)
  <1>1. s \in Bd /\ queue[j].blocks \in Nat /\ k - 1 \in Nat
    BY Typing
  <1>2. From(queue[j]) + queue[j].blocks <= Used /\ Used \in 0 .. NumBds - 1
    BY Typing DEF Layout
  <1>3. Distance(rd, s) + (k - 1) < Used /\ k - 1 \in 0 .. NumBds
    BY <1>1, <1>2, Typing, RingAssumption DEF From
  <1>4. i \in Bd
    BY <1>1, AdvanceType
  <1>5. Distance(rd, i) = Distance(rd, s) + (k - 1)
    BY <1>1, <1>2, <1>3, Typing, DistanceAdds, RingAssumption DEF From
  <1>6. Distance(rd, i) < Distance(rd, wr)
    BY <1>3, <1>5 DEF Used
  <1>7. Distance(wr, i) >= NumBds - Distance(rd, wr)
    BY <1>4, <1>6, Typing, UsedNotFree
  <1> QED BY <1>4, <1>6, <1>7, Typing, FreeIs DEF Used

\* CopyData leaves every accepted frame as it is.
LEMMA CopyKeepsFrames ==
  ASSUME TypeOK, Layout, Room, AllIntact, CopyData
  PROVE  AllIntact'
  <1> SUFFICES ASSUME NEW j \in 1 .. Len(queue)
               PROVE  FrameIntact(queue[j])'
    BY DEF AllIntact, CopyData
  <1>1. bd'[queue[j].start] = queue[j].blocks
    BY DEF CopyData, AllIntact, FrameIntact
  <1>2. ASSUME NEW k \in 1 .. queue[j].blocks
        PROVE  buf'[Advance(queue[j].start, k - 1)] = <<queue[j].data, k>>
    <2>1. skb.blocks <= FreeBlocks(rd, wr)
      BY DEF Room, CopyData
    <2>2. Advance(queue[j].start, k - 1) \in Bd
          /\ Distance(wr, Advance(queue[j].start, k - 1)) >= FreeBlocks(rd, wr)
      BY EntryBlocks
    <2>3. FreeBlocks(rd, wr) \in Nat /\ skb.blocks \in Nat
      BY Typing, FreeIs, RingAssumption
    <2>4a. Distance(wr, Advance(queue[j].start, k - 1)) \in Nat
      BY Typing, FreeIs, <2>2, RingAssumption
    <2>4. ~(Distance(wr, Advance(queue[j].start, k - 1)) < skb.blocks)
      BY <2>1, <2>2, <2>3, <2>4a
    <2>5. buf'[Advance(queue[j].start, k - 1)] = buf[Advance(queue[j].start, k - 1)]
      BY <2>2, <2>4 DEF CopyData
    <2> QED BY <2>5 DEF AllIntact, FrameIntact
  <1> QED BY <1>1, <1>2 DEF FrameIntact, CopyData

\* CopyData leaves the whole frame in the ring, in order.
LEMMA CopyWrites ==
  ASSUME TypeOK, Room, CopyData
  PROVE  Written'
  <1> SUFFICES ASSUME NEW k \in 1 .. skb.blocks
               PROVE  buf'[Advance(wr, k - 1)] = <<skb.data, k>>
    BY DEF Written, CopyData
  <1>0. rd \in Bd /\ wr \in Bd
    BY Typing
  <1>1. skb.blocks <= FreeBlocks(rd, wr) /\ FreeBlocks(rd, wr) <= NumBds
        /\ FreeBlocks(rd, wr) \in Nat
    BY <1>0, FreeIs, RingAssumption DEF Room, CopyData
  <1>2. k - 1 \in 0 .. NumBds - 1 /\ k - 1 \in Nat /\ wr \in Bd /\ skb.blocks \in Nat
    BY <1>1, Typing, RingAssumption
  <1>3. Advance(wr, k - 1) \in Bd /\ Distance(wr, Advance(wr, k - 1)) = k - 1
    BY <1>2, AdvanceType, DistanceAdvance
  <1>4. k - 1 < skb.blocks /\ (k - 1) + 1 = k
    BY <1>2
  <1> QED BY <1>3, <1>4 DEF CopyData

\* The descriptor written is not one of an accepted frame.
LEMMA DescriptorKeepsFrames ==
  ASSUME TypeOK, Layout, AllIntact, WriteDescriptor
  PROVE  AllIntact'
  <1> SUFFICES ASSUME NEW j \in 1 .. Len(queue)
               PROVE  FrameIntact(queue[j])'
    BY DEF AllIntact, WriteDescriptor
  <1>1. queue[j].start \in Bd /\ wr \in Bd /\ queue[j].blocks \in Nat \ {0}
    BY Typing
  <1>2. Distance(rd, queue[j].start) < Distance(rd, wr)
    BY <1>1, Typing, RingAssumption DEF Layout, From, Used
  <1>3. queue[j].start # wr
    BY <1>1, <1>2, Typing DEF Used
  <1>4. bd'[queue[j].start] = bd[queue[j].start]
    BY <1>1, <1>3 DEF WriteDescriptor, TypeOK
  <1> QED BY <1>4 DEF AllIntact, FrameIntact, WriteDescriptor

\* Commit puts the new frame behind the others, unless it fills the ring.
LEMMA CommitKeeps ==
  ASSUME TypeOK, ~full, Ends, Layout, Room, Written, Latched, AllIntact,
         Commit, ~full'
  PROVE  Ends' /\ Layout' /\ Room' /\ Written' /\ Latched' /\ AllIntact'
  <1> DEFINE n == Len(queue)
             b == skb.blocks
             e == [data |-> skb.data, blocks |-> b, start |-> wr]
  <1>1. /\ n \in Nat /\ b \in Nat \ {0} /\ rd \in Bd /\ wr \in Bd
        /\ Used \in 0 .. NumBds - 1
    BY Typing
  <1>2. /\ queue' = Append(queue, e) /\ Len(queue') = n + 1
        /\ \A j \in 1 .. n : queue'[j] = queue[j]
        /\ queue'[n + 1] = e
    BY <1>1 DEF Commit, TypeOK
  <1>3. /\ rd' = rd /\ wr' = Advance(wr, b) /\ wr' # rd /\ bd' = bd /\ buf' = buf
        /\ pc = "commit" /\ pc' = "idle" /\ fw' = fw /\ fwlen' = fwlen
    BY DEF Commit
  <1>4. b <= NumBds - Used /\ b \in 0 .. NumBds
    BY <1>1, <1>3, FreeIs, RingAssumption DEF Room, Used
  <1>5. Used + b < NumBds
    BY <1>1, <1>3, <1>4, AdvanceLap, RingAssumption DEF Used
  <1>6. Distance(rd, wr') = Used + b
    BY <1>1, <1>3, <1>4, <1>5, DistanceAdds DEF Used
  <1>7. Used' = Used + b
    BY <1>3, <1>6 DEF Used
  <1>8. /\ \A j \in 1 .. n : From(queue[j])' = From(queue[j])
        /\ \A j \in 1 .. n : Distance(rd', queue'[j].start) = From(queue[j])
        /\ Distance(rd', queue'[n + 1].start) = Used
    BY <1>2, <1>3 DEF From, Used
  <1>9. Ends'
    <2>1. queue' # <<>> /\ rd' # wr'
      BY <1>2, <1>3
    <2>2. queue'[1].start = rd'
      <3>1. CASE n = 0
        BY <3>1, <1>1, <1>2, <1>3 DEF Ends, TypeOK
      <3>2. CASE n # 0
        BY <3>2, <1>1, <1>2, <1>3 DEF Ends, TypeOK
      <3> QED BY <3>1, <3>2
    <2>3. ASSUME NEW j \in 1 .. n + 1
          PROVE  Advance(queue'[j].start, queue'[j].blocks)
                   = IF j = n + 1 THEN wr' ELSE queue'[j + 1].start
      <3>1. CASE j = n + 1
        BY <3>1, <1>2, <1>3
      <3>2. CASE j = n
        <4>1. n \in 1 .. n /\ queue'[n] = queue[n] /\ n # n + 1
          BY <3>2, <1>1, <1>2
        <4>2. Advance(queue[n].start, queue[n].blocks) = wr
          BY <4>1 DEF Ends, FrameEnd
        <4> QED BY <3>2, <4>1, <4>2, <1>2
      <3>3. CASE j \in 1 .. n - 1
        <4>1. j \in 1 .. n /\ j + 1 \in 1 .. n /\ j # n /\ j # n + 1
          BY <3>3, <1>1
        <4>2. Advance(queue[j].start, queue[j].blocks) = queue[j + 1].start
          BY <4>1 DEF Ends, FrameEnd
        <4> QED BY <4>1, <4>2, <1>2
      <3> QED BY <3>1, <3>2, <3>3, <1>1
    <2> QED BY <2>1, <2>2, <2>3, <1>2 DEF Ends, FrameEnd
  <1>10. Layout'
    <2>1. ASSUME NEW j \in 1 .. n + 1
          PROVE  Distance(rd', queue'[j].start) + queue'[j].blocks <= Used + b
      <3>1. CASE j = n + 1
        BY <3>1, <1>1, <1>2, <1>8
      <3>2. CASE j \in 1 .. n
        <4>1. From(queue[j]) + queue[j].blocks <= Used
          BY <3>2 DEF Layout
        <4>2. From(queue[j]) \in Nat /\ queue[j].blocks \in Nat
          BY <3>2, Typing
        <4> QED BY <3>2, <4>1, <4>2, <1>1, <1>2, <1>8
      <3> QED BY <3>1, <3>2, <1>1
    <2>2. ASSUME NEW i \in 1 .. n + 1, NEW j \in 1 .. n + 1, i < j
          PROVE  Distance(rd', queue'[i].start) + queue'[i].blocks
                   <= Distance(rd', queue'[j].start)
      <3>1. i \in 1 .. n
        BY <2>2, <1>1
      <3>2. CASE j = n + 1
        BY <3>1, <3>2, <1>2, <1>8 DEF Layout
      <3>3. CASE j \in 1 .. n
        BY <2>2, <3>1, <3>3, <1>2, <1>8 DEF Layout
      <3> QED BY <3>2, <3>3, <1>1
    <2> QED BY <2>1, <2>2, <1>2, <1>7 DEF Layout, From
  <1>11. Room' /\ Written'
    BY <1>3 DEF Room, Written
  <1>12. Latched'
    <2> SUFFICES ASSUME fw = "busy" PROVE queue' # <<>> /\ fwlen = queue'[1].blocks
      BY <1>3 DEF Latched
    <2>1. queue # <<>> /\ fwlen = queue[1].blocks
      BY DEF Latched
    <2>2. 1 \in 1 .. n
      BY <2>1, <1>1 DEF TypeOK
    <2> QED BY <2>1, <2>2, <1>1, <1>2
  <1>13. AllIntact'
    <2> SUFFICES ASSUME NEW j \in 1 .. n + 1
                 PROVE  FrameIntact(queue[j])'
      BY <1>2 DEF AllIntact
    <2>1. CASE j = n + 1
      BY <2>1, <1>2, <1>3 DEF FrameIntact, Written
    <2>2. CASE j \in 1 .. n
      BY <2>2, <1>2, <1>3 DEF FrameIntact, AllIntact
    <2> QED BY <2>1, <2>2, <1>1
  <1> QED BY <1>9, <1>10, <1>11, <1>12, <1>13

\* FwTransmit frees the oldest frame and leaves the others where they are.
LEMMA TransmitKeeps ==
  ASSUME TypeOK, Ends, Layout, Room, Written, Latched, AllIntact, FwTransmit
  PROVE  Ends' /\ Layout' /\ Room' /\ Written' /\ Latched' /\ AllIntact'
  <1> DEFINE n == Len(queue)
             b == queue[1].blocks
  <1>1. queue # <<>> /\ fwlen = b
    BY DEF FwTransmit, Latched
  <1>2. /\ n \in Nat \ {0} /\ 1 \in 1 .. n /\ b \in Nat \ {0} /\ rd \in Bd /\ wr \in Bd
        /\ Used \in 0 .. NumBds - 1
    BY <1>1, Typing DEF TypeOK
  <1>3. /\ Len(queue') = n - 1
        /\ \A j \in 1 .. n - 1 : j + 1 \in 1 .. n /\ queue'[j] = queue[j + 1]
    BY <1>1, <1>2 DEF FwTransmit, TypeOK
  <1>4. /\ rd' = Advance(rd, b) /\ wr' = wr /\ bd' = bd /\ buf' = buf
        /\ pc' = pc /\ skb' = skb /\ fw' = "idle"
    BY <1>1 DEF FwTransmit
  <1>5. queue[1].start = rd /\ From(queue[1]) = 0
    BY <1>1, <1>2, FreeIs DEF Ends, From
  <1>6. b <= Used /\ b \in 0 .. NumBds
    BY <1>2, <1>5, RingAssumption DEF Layout
  <1>7. rd' \in Bd /\ Used' = Used - b
    BY <1>2, <1>4, <1>6, AdvanceType, DistanceShift DEF Used
  <1>8. ASSUME NEW j \in 1 .. n - 1
        PROVE  Distance(rd', queue'[j].start) = From(queue[j + 1]) - b
               /\ From(queue[j + 1]) >= b
    <2>0. j + 1 \in 1 .. n /\ queue'[j] = queue[j + 1] /\ 1 < j + 1
      BY <1>2, <1>3
    <2>1. j + 1 \in 1 .. n /\ 1 < j + 1 /\ queue'[j] = queue[j + 1]
          /\ queue[j + 1].start \in Bd
      BY <2>0, Typing
    <2>2. From(queue[1]) + b <= From(queue[j + 1])
      BY <2>1, <1>2 DEF Layout
    <2>3. b <= Distance(rd, queue[j + 1].start)
      BY <2>2, <1>2, <1>5 DEF From
    <2>4. Distance(Advance(rd, b), queue[j + 1].start)
            = Distance(rd, queue[j + 1].start) - b
      BY <2>1, <2>3, <1>2, <1>6, DistanceShift
    <2> QED BY <2>1, <2>3, <2>4, <1>4 DEF From
  <1>9. rd' = IF n = 1 THEN wr ELSE queue[2].start
    <2>1. Advance(queue[1].start, b) = IF 1 = n THEN wr ELSE queue[1 + 1].start
      BY <1>2 DEF Ends, FrameEnd
    <2> QED BY <2>1, <1>4, <1>5
  <1>10. Layout'
    <2>1. ASSUME NEW j \in 1 .. n - 1
          PROVE  Distance(rd', queue'[j].start) + queue'[j].blocks <= Used - b
      <3>1. j + 1 \in 1 .. n /\ From(queue[j + 1]) + queue[j + 1].blocks <= Used
        BY <1>3 DEF Layout
      <3>2. From(queue[j + 1]) \in Nat /\ queue[j + 1].blocks \in Nat
        BY <3>1, Typing
      <3> QED BY <3>1, <3>2, <1>2, <1>3, <1>8
    <2>2. ASSUME NEW i \in 1 .. n - 1, NEW j \in 1 .. n - 1, i < j
          PROVE  Distance(rd', queue'[i].start) + queue'[i].blocks
                   <= Distance(rd', queue'[j].start)
      <3>1. i + 1 \in 1 .. n /\ j + 1 \in 1 .. n /\ i + 1 < j + 1
        BY <2>2, <1>2
      <3>2. From(queue[i + 1]) + queue[i + 1].blocks <= From(queue[j + 1])
        BY <3>1 DEF Layout
      <3>3. From(queue[i + 1]) \in Nat /\ queue[i + 1].blocks \in Nat
            /\ From(queue[j + 1]) \in Nat
        BY <3>1, Typing
      <3> QED BY <3>2, <3>3, <1>2, <1>3, <1>8
    <2> QED BY <2>1, <2>2, <1>3, <1>7 DEF Layout, From
  <1>11. Ends'
    <2>1. queue' \in Seq(Entry) /\ (queue' = <<>> <=> n = 1)
      <3>1. queue' = Tail(queue) /\ queue \in Seq(Entry)
        BY <1>1 DEF FwTransmit, TypeOK
      <3>2. queue' \in Seq(Entry)
        BY <3>1, <1>1
      <3>3. queue' = <<>> <=> Len(queue') = 0
        BY <3>2
      <3> QED BY <3>2, <3>3, <1>2, <1>3
    <2>2. rd' = wr' <=> n = 1
      <3>1. CASE n = 1
        BY <3>1, <1>4, <1>9
      <3>2. CASE n # 1
        <4>1. 2 \in 1 .. n /\ From(queue[2]) >= b /\ From(queue[2]) \in Nat
              /\ queue[2].blocks \in Nat \ {0}
          <5>1. 1 \in 1 .. n - 1 /\ 1 + 1 \in 1 .. n /\ 1 + 1 = 2
            BY <3>2, <1>2
          <5>2. From(queue[1 + 1]) >= b
            BY <5>1, <1>8
          <5> QED BY <5>1, <5>2, Typing
        <4>2. From(queue[2]) + queue[2].blocks <= Used
          BY <4>1 DEF Layout
        <4>3. Used' # 0
          BY <4>1, <4>2, <1>2, <1>7
        <4> QED BY <3>2, <4>3, <1>2, <1>4, <1>7, FreeIs DEF Used
      <3> QED BY <3>1, <3>2
    <2>3. queue' # <<>> => queue'[1].start = rd'
      BY <2>1, <1>2, <1>3, <1>9
    <2>4. ASSUME NEW j \in 1 .. n - 1
          PROVE  Advance(queue'[j].start, queue'[j].blocks)
                   = IF j = n - 1 THEN wr' ELSE queue'[j + 1].start
      <3>1. j + 1 \in 1 .. n /\ queue'[j] = queue[j + 1]
        BY <1>3
      <3>2. Advance(queue[j + 1].start, queue[j + 1].blocks)
              = IF j + 1 = n THEN wr ELSE queue[(j + 1) + 1].start
        BY <3>1 DEF Ends, FrameEnd
      <3>3. j + 1 = n <=> j = n - 1
        BY <1>2
      <3>4. j # n - 1 => j + 1 \in 1 .. n - 1 /\ queue'[j + 1] = queue[(j + 1) + 1]
        BY <1>2, <1>3
      <3> QED BY <3>1, <3>2, <3>3, <3>4, <1>4
    <2> QED BY <2>1, <2>2, <2>3, <2>4, <1>3 DEF Ends, FrameEnd
  <1>12. Room'
    <2>1. FreeBlocks(rd', wr') = NumBds - (Used - b) /\ FreeBlocks(rd, wr) = NumBds - Used
      BY <1>2, <1>4, <1>7, FreeIs DEF Used
    <2>2. skb.blocks \in Nat
      BY Typing
    <2> QED BY <2>1, <2>2, <1>2, <1>4, RingAssumption DEF Room
  <1>13. Written' /\ Latched'
    BY <1>4 DEF Written, Latched
  <1>14. AllIntact'
    <2> SUFFICES ASSUME NEW j \in 1 .. n - 1
                 PROVE  FrameIntact(queue[j])'
      BY <1>3 DEF AllIntact
    <2>1. j + 1 \in 1 .. n /\ queue'[j] = queue[j + 1]
      BY <1>3
    <2>2. FrameIntact(queue[j + 1])
      BY <2>1 DEF AllIntact
    <2> QED BY <2>1, <2>2, <1>4 DEF FrameIntact
  <1> QED BY <1>10, <1>11, <1>12, <1>13, <1>14

\* Accepting a frame that fits is the only thing Accept adds.
LEMMA AcceptKeeps ==
  ASSUME Ends, Layout, Latched, AllIntact, NEW f \in Skb, Accept(f)
  PROVE  Ends' /\ Layout' /\ Room' /\ Written' /\ Latched' /\ AllIntact'
  <1>1. /\ UNCHANGED <<rd, wr, bd, buf, fw, fwlen, queue>>
        /\ skb' = f /\ pc' = "copy" /\ f.blocks <= FreeBlocks(rd, wr)
    BY DEF Accept
  <1>2. Ends' /\ Layout'
    BY <1>1 DEF Ends, Layout, From, Used, FrameEnd
  <1>3. Room' /\ Written' /\ Latched' /\ AllIntact'
    BY <1>1 DEF Room, Written, Latched, AllIntact, FrameIntact
  <1> QED BY <1>2, <1>3

(* ------------------------------ theorems ------------------------------- *)

\* The invariant of the ring holds in every reachable state.
THEOREM RingInvariant == Spec => []RingInv
<1>1. Init => RingInv
  BY DEF Init, RingInv, Ends, Layout, Room, Written, Latched, AllIntact
<1>2. TypeOK /\ RingInv /\ [Next]_vars => RingInv'
  <2> SUFFICES ASSUME TypeOK, RingInv, [Next]_vars, ~full' PROVE
        Ends' /\ Layout' /\ Room' /\ Written' /\ Latched' /\ AllIntact'
    BY DEF RingInv
  <2>0. ~full
    BY DEF Next, Accept, CopyData, WriteDescriptor, Commit, FwFetch,
           FwTransmit, vars, TypeOK
  <2>1. Ends /\ Layout /\ Room /\ Written /\ Latched /\ AllIntact
    BY <2>0 DEF RingInv
  <2>2. ASSUME NEW f \in Skb, Accept(f)
        PROVE  Ends' /\ Layout' /\ Room' /\ Written' /\ Latched' /\ AllIntact'
    BY <2>1, <2>2, AcceptKeeps
  <2>3. CASE CopyData
    <3>1. AllIntact' /\ Written'
      BY <2>1, <2>3, CopyKeepsFrames, CopyWrites
    <3>2. Ends' /\ Layout' /\ Room' /\ Latched'
      BY <2>1, <2>3 DEF CopyData, Ends, Layout, Room, Latched, From, Used, FrameEnd
    <3> QED BY <3>1, <3>2
  <2>4. CASE WriteDescriptor
    <3>1. AllIntact'
      BY <2>1, <2>4, DescriptorKeepsFrames
    <3>2. Written'
      BY <2>1, <2>4 DEF WriteDescriptor, Written, TypeOK
    <3>3. Ends' /\ Layout' /\ Room' /\ Latched'
      BY <2>1, <2>4 DEF WriteDescriptor, Ends, Layout, Room, Latched, From, Used, FrameEnd
    <3> QED BY <3>1, <3>2, <3>3
  <2>5. CASE Commit
    BY <2>0, <2>1, <2>5, CommitKeeps
  <2>6. CASE FwFetch
    <3>1. Latched'
      BY <2>1, <2>6 DEF FwFetch, Latched, Ends, AllIntact, FrameIntact, TypeOK
    <3>2. Ends' /\ Layout' /\ Room' /\ Written' /\ AllIntact'
      BY <2>1, <2>6 DEF FwFetch, Ends, Layout, Room, Written, AllIntact,
                        FrameIntact, From, Used, FrameEnd
    <3> QED BY <3>1, <3>2
  <2>7. CASE FwTransmit
    BY <2>1, <2>7, TransmitKeeps
  <2>8. CASE UNCHANGED vars
    BY <2>1, <2>8 DEF vars, Ends, Layout, Room, Written, Latched, AllIntact,
                      FrameIntact, From, Used, FrameEnd
  <2> QED BY <2>2, <2>3, <2>4, <2>5, <2>6, <2>7, <2>8 DEF Next
<1> QED BY <1>1, <1>2, TypeCorrect, PTL DEF Spec

\* No accepted frame is damaged before it has been transmitted: the driver
\* never writes to a block or descriptor that the firmware has yet to read,
\* as long as no frame has filled the ring to its last block.
THEOREM UnsentFramesStayIntact == Spec => []UnsentIntact
<1>1. RingInv => UnsentIntact
  BY DEF RingInv, AllIntact, UnsentIntact
<1> QED BY <1>1, RingInvariant, PTL

\* The read pointer is at the oldest accepted frame, and meets the write
\* pointer only when every accepted frame has been transmitted.
THEOREM ReadPointerAtOldest == Spec => []ReadsFrameStart
<1>1. RingInv => ReadsFrameStart
  BY DEF RingInv, Ends, ReadsFrameStart
<1> QED BY <1>1, RingInvariant, PTL

(* ------------------------------ refinement ----------------------------- *)

\* A committed frame is the newest of the abstract queue.
LEMMA CommitPuts ==
  ASSUME TypeOK, ~full, Commit, ~full'
  PROVE  Fifo!Put(Image(skb))
  <1> DEFINE e == [data |-> skb.data, blocks |-> skb.blocks, start |-> wr]
             Q == [j \in 1 .. Len(queue) |-> Image(queue[j])]
             QN == [j \in 1 .. Len(queue') |-> Image(queue'[j])]
  <1>1. queue \in Seq(Entry) /\ Len(queue) \in Nat /\ wire' = wire
    BY DEF TypeOK, Commit
  <1>2. /\ Len(queue') = Len(queue) + 1
        /\ \A j \in 1 .. Len(queue) : queue'[j] = queue[j]
        /\ queue'[Len(queue) + 1] = e
    BY <1>1 DEF Commit
  <1>3. Image(e) = Image(skb)
    BY DEF Image
  <1>4. QN = Append(Q, Image(skb))
    <2> DEFINE m == Len(queue)
    <2>1. Len(Q) = m /\ m \in Nat
      BY <1>1
    <2>2. Append(Q, Image(skb))
            = [j \in 1 .. m + 1 |-> IF j = m + 1 THEN Image(skb) ELSE Q[j]]
      BY <2>1, SMT
    <2>3. ASSUME NEW j \in 1 .. m + 1
          PROVE  Image(queue'[j]) = IF j = m + 1 THEN Image(skb) ELSE Q[j]
      <3>1. CASE j = m + 1
        BY <3>1, <1>2, <1>3
      <3>2. CASE j # m + 1
        <4>1. j \in 1 .. m
          BY <3>2, <2>1
        <4> QED BY <3>2, <4>1, <1>2
      <3> QED BY <3>1, <3>2
    <2>4. QN = [j \in 1 .. m + 1 |-> Image(queue'[j])]
      BY <1>2
    <2> QED BY <2>2, <2>3, <2>4, Zenon
  <1> QED BY <1>1, <1>4 DEF Fifo!Put

\* What the firmware transmits is the oldest of the abstract queue.
LEMMA TransmitTakes ==
  ASSUME TypeOK, ~full, RingInv, FwTransmit
  PROVE  Fifo!Transmit
  <1> DEFINE Q == [j \in 1 .. Len(queue) |-> Image(queue[j])]
             QN == [j \in 1 .. Len(queue') |-> Image(queue'[j])]
             n == Len(queue)
  <1>1. Ends /\ Latched /\ AllIntact
    BY DEF RingInv
  <1>2. queue # <<>> /\ fwlen = queue[1].blocks /\ queue[1].start = rd
    BY <1>1 DEF Latched, Ends, FwTransmit
  <1>3. n \in Nat \ {0} /\ 1 \in 1 .. n /\ queue \in Seq(Entry) /\ full' = full
    BY <1>2 DEF TypeOK, FwTransmit
  <1>4. FrameIntact(queue[1])
    BY <1>1, <1>3 DEF AllIntact
  <1>5. ReadRing(rd, fwlen) = Image(queue[1])
    BY <1>2, <1>4 DEF ReadRing, Image, FrameIntact
  <1>6. Q # <<>> /\ Len(Q) = n
    BY <1>3
  <1>7. wire' = Head(Q)
    BY <1>3, <1>5, <1>6 DEF FwTransmit
  <1>8. Len(queue') = n - 1 /\ \A j \in 1 .. n - 1 : queue'[j] = queue[j + 1]
    BY <1>2, <1>3 DEF FwTransmit
  <1>9. Tail(Q) = [j \in 1 .. n - 1 |-> Q[j + 1]]
    BY <1>6, <1>3
  <1>10. ASSUME NEW j \in 1 .. n - 1 PROVE Image(queue'[j]) = Q[j + 1]
    <2>1. j + 1 \in 1 .. n
      BY <1>3
    <2> QED BY <2>1, <1>8
  <1>11. QN = Tail(Q)
    <2>1. QN = [j \in 1 .. n - 1 |-> Image(queue'[j])]
      BY <1>8
    <2> QED BY <2>1, <1>9, <1>10, Zenon
  <1> QED BY <1>3, <1>6, <1>7, <1>11 DEF Fifo!Transmit

\* A transmit ring is a FIFO of whole frames as long as no frame has filled
\* it to the last block: prueth_tx_enqueue() and a firmware that reads where
\* the descriptor says implement TxFifo.
THEOREM RingImplementsFifo == Spec => FifoSpec
<1>1. Init => Fifo!Init
  BY DEF Init, Fifo!Init
<1>2. TypeOK /\ RingInv /\ [Next]_vars => [Fifo!Next]_(Fifo!vars)
  <2> SUFFICES ASSUME TypeOK, RingInv, [Next]_vars
               PROVE  Fifo!Next \/ UNCHANGED Fifo!vars
    OBVIOUS
  <2>1. CASE full'
    BY <2>1 DEF Fifo!Next, Fifo!Overrun
  <2>2. CASE ~full'
    <3>1. ~full
      BY <2>2 DEF Next, Accept, CopyData, WriteDescriptor, Commit, FwFetch,
                  FwTransmit, vars, TypeOK
    <3>2. CASE Commit
      <4>1. Fifo!Put(Image(skb))
        BY <2>2, <3>1, <3>2, CommitPuts
      <4>2. Image(skb) \in {Image(f) : f \in Skb}
        BY DEF TypeOK
      <4> QED BY <4>1, <4>2 DEF Fifo!Next
    <3>3. CASE FwTransmit
      BY <3>1, <3>3, TransmitTakes DEF Fifo!Next
    <3>4. CASE ~Commit /\ ~FwTransmit
      <4>1. UNCHANGED <<queue, wire, full>>
        BY <3>4 DEF Next, Accept, CopyData, WriteDescriptor, FwFetch, vars
      <4> QED BY <4>1 DEF Fifo!vars
    <3> QED BY <3>2, <3>3, <3>4
  <2> QED BY <2>1, <2>2
<1> QED BY <1>1, <1>2, TypeCorrect, RingInvariant, PTL DEF Spec, FifoSpec, Fifo!Spec
=============================================================================

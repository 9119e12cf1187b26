---------------------------- MODULE PruethTxRing ----------------------------
(***************************************************************************)
(* One transmit queue of a port: the ring of buffer descriptors and 32     *)
(* byte blocks that prueth_tx_enqueue() fills and the PRU firmware drains. *)
(*                                                                         *)
(* The driver runs prueth_tx_enqueue() under the transmit lock of the net  *)
(* device, so one instance at a time, but the firmware runs on a processor *)
(* of its own: every shared access of the driver is a step of its own.     *)
(* Blocks are numbered from 0, as the driver does after it has subtracted  *)
(* buffer_desc_offset from the pointers.                                   *)
(***************************************************************************)
EXTENDS Naturals, Sequences

CONSTANTS NumBds,      \* buffer_desc_count, the blocks of the ring
          MaxBlocks,   \* the blocks of the longest frame
          Payload,     \* frame contents
          NoData,      \* what the buffer memory holds at first
          MaxQueued    \* bound: frames accepted and not yet transmitted

ASSUME RingAssumption ==
  /\ NumBds \in Nat \ {0}
  /\ MaxBlocks \in Nat \ {0}
  /\ MaxQueued \in Nat
  /\ NoData \notin Payload

Bd == 0 .. NumBds - 1
FrameBlocks == 1 .. MaxBlocks

VARIABLES rd,      \* rd_ptr of the queue descriptor: the firmware's side
          wr,      \* wr_ptr of the queue descriptor: the driver's side
          bd,      \* the length field of every buffer descriptor, in blocks
          buf,     \* the OCMC buffer: which block of which payload is where
          pc,      \* where prueth_tx_enqueue() is
          skb,     \* the frame it works on
          fw,      \* "idle", or "busy" transmitting a frame
          fwlen,   \* the length the firmware has read
          \* history
          queue,   \* the frames accepted and not transmitted, and their place
          wire,    \* the last frame the firmware transmitted
          full     \* an accepted frame has filled the ring to the last block

vars == <<rd, wr, bd, buf, pc, skb, fw, fwlen, queue, wire, full>>

Skb == [data : Payload, blocks : FrameBlocks]
Block == (Payload \cup {NoData}) \X (0 .. MaxBlocks)
NoBlock == <<NoData, 0>>

\* A slip: one block too many behind the write pointer.
FreeBlocksPlusOne(r, w) ==
  IF w > r THEN NumBds - w + r
  ELSE IF w < r THEN r - w + 1
  ELSE NumBds

\* free_blocks: the driver takes equal pointers for an empty ring.
FreeBlocks(r, w) ==
  IF w > r THEN NumBds - w + r
  ELSE IF w < r THEN r - w
  ELSE NumBds

\* update_block: n blocks further, around the end of the ring.
Advance(i, n) == IF i + n >= NumBds THEN (i + n) % NumBds ELSE i + n

\* The place of block i when counting from block s.
Distance(s, i) == IF i >= s THEN i - s ELSE NumBds + i - s

\* The blocks of a frame, as they are on the wire.
Image(f) == [k \in 1 .. f.blocks |-> <<f.data, k>>]

\* The frame of n blocks that the buffer holds from block s on.
ReadRing(s, n) == [k \in 1 .. n |-> buf[Advance(s, k - 1)]]

Init ==
  /\ rd = 0
  /\ wr = 0
  /\ bd = [i \in Bd |-> 0]
  /\ buf = [i \in Bd |-> NoBlock]
  /\ pc = "idle"
  /\ skb \in Skb
  /\ fw = "idle"
  /\ fwlen = 0
  /\ queue = <<>>
  /\ wire = <<>>
  /\ full = FALSE

-----------------------------------------------------------------------------
(* The driver.                                                             *)

\* A slip: no check for space.
AcceptUnchecked(f) ==
  /\ pc = "idle"
  /\ Len(queue) < MaxQueued
  /\ f.blocks <= NumBds
  /\ skb' = f
  /\ pc' = "copy"
  /\ UNCHANGED <<rd, wr, bd, buf, fw, fwlen, queue, wire, full>>

\* Reads both pointers.  A frame longer than the free part is refused with
\* -ENOBUFS: nothing changes, and the step is left out.
Accept(f) ==
  /\ pc = "idle"
  /\ Len(queue) < MaxQueued
  /\ f.blocks <= FreeBlocks(rd, wr)
  /\ skb' = f
  /\ pc' = "copy"
  /\ UNCHANGED <<rd, wr, bd, buf, fw, fwlen, queue, wire, full>>

\* A slip: the wrapped part copies the beginning of the frame again.
CopyDataTwice ==
  /\ pc = "copy"
  /\ buf' = [i \in Bd |-> IF Distance(wr, i) < skb.blocks
                          THEN <<skb.data, 1 + (IF i >= wr THEN i - wr ELSE i)>>
                          ELSE buf[i]]
  /\ pc' = "descriptor"
  /\ UNCHANGED <<rd, wr, bd, skb, fw, fwlen, queue, wire, full>>

\* The memcpy() to OCMC, in two parts when it wraps around.
CopyData ==
  /\ pc = "copy"
  /\ buf' = [i \in Bd |-> IF Distance(wr, i) < skb.blocks
                          THEN <<skb.data, Distance(wr, i) + 1>>
                          ELSE buf[i]]
  /\ pc' = "descriptor"
  /\ UNCHANGED <<rd, wr, bd, skb, fw, fwlen, queue, wire, full>>

\* A slip: the length is rounded down to whole blocks.
WriteDescriptorShort ==
  /\ pc = "descriptor"
  /\ bd' = [bd EXCEPT ![wr] = skb.blocks - 1]
  /\ pc' = "commit"
  /\ UNCHANGED <<rd, wr, buf, skb, fw, fwlen, queue, wire, full>>

\* Only the first descriptor of the frame is written.
WriteDescriptor ==
  /\ pc = "descriptor"
  /\ bd' = [bd EXCEPT ![wr] = skb.blocks]
  /\ pc' = "commit"
  /\ UNCHANGED <<rd, wr, buf, skb, fw, fwlen, queue, wire, full>>

\* The new write pointer is what the firmware polls for.
Commit ==
  /\ pc = "commit"
  /\ wr' = Advance(wr, skb.blocks)
  /\ queue' = Append(queue, [data |-> skb.data, blocks |-> skb.blocks,
                             start |-> wr])
  /\ full' = (full \/ wr' = rd)
  /\ pc' = "idle"
  /\ UNCHANGED <<rd, bd, buf, skb, fw, fwlen, wire>>

-----------------------------------------------------------------------------
(* The firmware (external): it polls for rd_ptr # wr_ptr, reads the length *)
(* in the descriptor at rd_ptr, transmits that many blocks and frees them. *)

FwFetch ==
  /\ fw = "idle"
  /\ rd # wr
  /\ fwlen' = bd[rd]
  /\ fw' = "busy"
  /\ UNCHANGED <<rd, wr, bd, buf, pc, skb, queue, wire, full>>

FwTransmit ==
  /\ fw = "busy"
  /\ wire' = ReadRing(rd, fwlen)
  /\ rd' = Advance(rd, fwlen)
  /\ queue' = IF queue = <<>> THEN queue ELSE Tail(queue)
  /\ fw' = "idle"
  /\ UNCHANGED <<wr, bd, buf, pc, skb, fwlen, full>>

-----------------------------------------------------------------------------
Next ==
  \/ \E f \in Skb : Accept(f)
  \/ CopyData
  \/ WriteDescriptor
  \/ Commit
  \/ FwFetch
  \/ FwTransmit

Spec == Init /\ [][Next]_vars

\* The driver's steps follow each other, and the firmware keeps polling.
FairSpec ==
  /\ Spec
  /\ WF_vars(CopyData \/ WriteDescriptor \/ Commit)
  /\ WF_vars(FwFetch \/ FwTransmit)

-----------------------------------------------------------------------------
Entry == [data : Payload, blocks : FrameBlocks, start : Bd]

\* Every variable has its type.
TypeOK ==
  /\ rd \in Bd
  /\ wr \in Bd
  /\ bd \in [Bd -> 0 .. MaxBlocks]
  /\ buf \in [Bd -> Block]
  /\ pc \in {"idle", "copy", "descriptor", "commit"}
  /\ skb \in Skb
  /\ fw \in {"idle", "busy"}
  /\ fwlen \in 0 .. MaxBlocks
  /\ queue \in Seq(Entry)
  /\ full \in BOOLEAN

\* The descriptor and the blocks of every accepted frame stay as the driver
\* wrote them until the firmware has transmitted the frame, whatever the
\* driver writes meanwhile (prueth_tx_enqueue() against the firmware), as
\* long as no frame has filled the ring to the last block.
FrameIntact(e) ==
  /\ bd[e.start] = e.blocks
  /\ \A k \in 1 .. e.blocks : buf[Advance(e.start, k - 1)] = <<e.data, k>>
UnsentIntact == ~full => \A j \in 1 .. Len(queue) : FrameIntact(queue[j])

\* What the firmware reads next is the oldest frame the driver has accepted:
\* rd_ptr never falls between two frames nor behind wr_ptr.
ReadsFrameStart ==
  ~full => IF queue = <<>> THEN rd = wr ELSE rd # wr /\ rd = queue[1].start

-----------------------------------------------------------------------------
(* The strengthening that makes UnsentIntact inductive, as long as the     *)
(* ring has not been filled: the accepted frames lie behind each other     *)
(* from rd_ptr to wr_ptr, and the frame being written fits in the rest.    *)

Used == Distance(rd, wr)
FrameEnd(e) == Advance(e.start, e.blocks)
From(e) == Distance(rd, e.start)

Ends ==
  /\ queue = <<>> <=> rd = wr
  /\ queue # <<>> => queue[1].start = rd
  /\ \A j \in 1 .. Len(queue) :
       FrameEnd(queue[j]) = IF j = Len(queue) THEN wr ELSE queue[j + 1].start

Layout ==
  /\ \A j \in 1 .. Len(queue) : From(queue[j]) + queue[j].blocks <= Used
  /\ \A i, j \in 1 .. Len(queue) :
       i < j => From(queue[i]) + queue[i].blocks <= From(queue[j])

Room == pc # "idle" => skb.blocks <= FreeBlocks(rd, wr)

Written ==
  /\ pc \in {"descriptor", "commit"} =>
       \A k \in 1 .. skb.blocks : buf[Advance(wr, k - 1)] = <<skb.data, k>>
  /\ pc = "commit" => bd[wr] = skb.blocks

Latched == fw = "busy" => queue # <<>> /\ fwlen = queue[1].blocks

AllIntact == \A j \in 1 .. Len(queue) : FrameIntact(queue[j])

RingInv == ~full => Ends /\ Layout /\ Room /\ Written /\ Latched /\ AllIntact

-----------------------------------------------------------------------------
\* "they are all free": equal pointers mean that no block of the ring is in
\* use (the comment on the last branch of the computation of free_blocks).
AllFree == rd = wr => queue = <<>>

\* A transmit queue implements the abstract FIFO.
Fifo == INSTANCE TxFifo
  WITH Frames  <- {Image(f) : f \in Skb},
       Nothing <- <<>>,
       queue   <- [j \in 1 .. Len(queue) |-> Image(queue[j])],
       wire    <- wire,
       ok      <- ~full
FifoSpec == Fifo!Spec

\* A frame whose room has been granted is on the wire in the end, however
\* many frames the driver keeps adding, unless a frame has filled the ring to
\* the last block.
Accepted(p) ==
  \/ pc # "idle" /\ skb.data = p
  \/ \E j \in 1 .. Len(queue) : queue[j].data = p
Carries(p) == wire # <<>> /\ wire[1][1] = p
TransmittedInTheEnd ==
  \A p \in Payload : (Accepted(p) /\ ~full) ~> (full \/ Carries(p))
=============================================================================

-------------------------- MODULE PruethFrameCopy ---------------------------
(***************************************************************************)
(* Which bytes the driver copies between a socket buffer and the ring of a *)
(* queue in OCMC RAM: the copying half of prueth_tx_enqueue() and of       *)
(* emac_rx_packet(), with the choice of the transmit queue, byte by byte   *)
(* and around the end of the ring.                                         *)
(*                                                                         *)
(* An address is the number of a byte, counted from the first byte of the  *)
(* ring; the collision buffer lies behind the ring.  A memcpy() is the set *)
(* of pairs <<destination, source>> of the bytes it copies.  One behaviour *)
(* is one call.                                                            *)
(***************************************************************************)
EXTENDS Integers

CONSTANTS BlockSize,    \* ICSS_BLOCK_SIZE, 32
          NumBds,       \* buffer_desc_count
          TagSize,      \* ICSS_LRE_TAG_RCT_SIZE, 6
          MinLength     \* the shortest frame

ASSUME CopyAssumption ==
  /\ {BlockSize, NumBds, TagSize, MinLength} \subseteq Nat \ {0}
  /\ TagSize < BlockSize /\ TagSize < MinLength

RingBytes == NumBds * BlockSize
Collision == RingBytes + BlockSize   \* P0_COL_BUFFER_OFFSET

DivRoundUp(n, d) == (n + d - 1) \div d
RoundUp(n, d) == d * DivRoundUp(n, d)

Memcpy(dst, src, n) == {<<dst + k, src + k>> : k \in 0 .. n - 1}
Least(m, n) == IF m < n THEN m ELSE n

VARIABLES call,   \* the call and its arguments
          copied, \* the bytes copied
          stamp,  \* where the time stamp has been read, or Unset
          next,   \* the block the pointer has been moved to
          queue   \* the transmit queue chosen, or 0

copyVars == <<call, copied, stamp, next, queue>>
Unset == -1

Modes == {"EMAC", "SWITCH", "HSR", "PRP"}
Untagged == -1
TxCalls == [op : {"tx"}, mode : Modes, pcp : {Untagged} \cup 0 .. 7,
            block : 0 .. NumBds - 1, length : MinLength .. RingBytes]
RxCalls == [op : {"rx"}, mode : Modes, start : BOOLEAN, timestamp : BOOLEAN,
            shadow : BOOLEAN, block : 0 .. NumBds - 1,
            length : MinLength .. RingBytes - BlockSize]

CopyInit ==
  /\ call \in TxCalls \cup RxCalls
  /\ copied = {}
  /\ stamp = Unset
  /\ next = Unset
  /\ queue = 0

Lre(mode) == mode \in {"HSR", "PRP"}

-----------------------------------------------------------------------------
(* prueth_get_tx_queue_id() and prueth_tx_enqueue().                       *)

emac_pcp_tx_priority_queue_map == <<4, 4, 3, 3, 2, 2, 1, 1>>

prueth_get_tx_queue_id(mode, tag) ==
  LET pcp == IF tag = Untagged THEN 0 ELSE tag
  IN emac_pcp_tx_priority_queue_map[1 + (IF Lre(mode) THEN pcp \div 2 ELSE pcp)]

\* The block behind n blocks from block b on, and whether the ring's end has
\* been reached.
Update(b, n) == (b + n) % NumBds
Wrapped(b, n) == b + n >= NumBds

\* A slip: the first part is not limited to the length of the frame.
TxCopyWhole(b, pktlen) ==
  LET dst == b * BlockSize
      bytes == (NumBds - b) * BlockSize
  IN IF Wrapped(b, DivRoundUp(pktlen, BlockSize))
     THEN Memcpy(dst, 0, bytes) \cup Memcpy(0, bytes, pktlen - bytes)
     ELSE Memcpy(dst, 0, pktlen)

TxCopy(b, pktlen) ==
  LET dst == b * BlockSize
      bytes == Least(pktlen, (NumBds - b) * BlockSize)
  IN IF Wrapped(b, DivRoundUp(pktlen, BlockSize))
     THEN Memcpy(dst, 0, bytes) \cup Memcpy(0, bytes, pktlen - bytes)
     ELSE Memcpy(dst, 0, pktlen)

Transmit ==
  /\ call.op = "tx"
  /\ next = Unset
  /\ queue' = prueth_get_tx_queue_id(call.mode, call.pcp)
  /\ copied' = TxCopy(call.block, call.length)
  /\ next' = Update(call.block, DivRoundUp(call.length, BlockSize))
  /\ UNCHANGED <<call, stamp>>

-----------------------------------------------------------------------------
(* emac_rx_packet().                                                       *)

RxBlocks(c) == DivRoundUp(c.length, BlockSize) + (IF c.timestamp THEN 1 ELSE 0)

\* start_offset: an HSR frame without a tag begins behind the place for it.
StartOffset(c) == IF c.mode = "HSR" /\ c.start THEN TagSize ELSE 0

\* The bytes of the first memcpy() when the ring's end has been reached.
FirstPart(c) ==
  Least(c.length, (NumBds - c.block) * BlockSize) - StartOffset(c)

FirstSource(c) ==
  StartOffset(c) + (IF c.shadow THEN Collision ELSE c.block * BlockSize)

SecondSource(c) == IF c.shadow THEN FirstSource(c) + FirstPart(c) ELSE 0

\* The source of the frame and the byte behind it.
RxCopy(c) ==
  LET actual == c.length - StartOffset(c)
      rest == actual - FirstPart(c)
  IN IF Wrapped(c.block, RxBlocks(c))
     THEN [bytes |-> Memcpy(0, FirstSource(c), FirstPart(c))
                       \cup Memcpy(FirstPart(c), SecondSource(c), rest),
           end |-> SecondSource(c) + rest]
     ELSE [bytes |-> Memcpy(0, FirstSource(c), actual),
           end |-> FirstSource(c) + actual]

Receive ==
  /\ call.op = "rx"
  /\ next = Unset
  /\ copied' = RxCopy(call).bytes
  /\ stamp' = IF call.timestamp THEN RoundUp(RxCopy(call).end, BlockSize) ELSE Unset
  /\ next' = Update(call.block, RxBlocks(call))
  /\ UNCHANGED <<call, queue>>

CopyNext == Transmit \/ Receive
CopySpec == CopyInit /\ [][CopyNext]_copyVars

-----------------------------------------------------------------------------
Done(op) == next # Unset /\ call.op = op

\* Every variable has its type.
CopyTypeOK ==
  /\ call \in TxCalls \cup RxCalls
  /\ next \in {Unset} \cup 0 .. NumBds - 1
  /\ queue \in 0 .. 4
  /\ stamp \in Int

\* The byte k places behind the first byte of block b, around the ring.
RingByte(b, k) == (b * BlockSize + k) % RingBytes

\* Every byte of a frame goes to its place in the ring, behind the byte
\* before it and around the end, and no other byte of the ring is written.
TxCopyRight ==
  Done("tx") =>
    copied = {<<RingByte(call.block, k), k>> : k \in 0 .. call.length - 1}

\* The stack gets the bytes of the frame in order, without the place for the
\* HSR tag, from the ring or from the collision buffer, and no other byte.
RxCopyRight ==
  Done("rx") =>
    LET off == StartOffset(call)
    IN copied = {<<k - off, IF call.shadow THEN Collision + k
                            ELSE RingByte(call.block, k)>> :
                   k \in off .. call.length - 1}

\* The time stamp is in the block behind the frame, and is read from there,
\* unless that is the last block of the ring.
StampBlock(c) == c.block + DivRoundUp(c.length, BlockSize)
StampRight ==
  Done("rx") /\ call.timestamp /\ (StampBlock(call) # NumBds - 1 \/ call.shadow) =>
    stamp = IF call.shadow
            THEN Collision + RoundUp(call.length, BlockSize)
            ELSE (StampBlock(call) % NumBds) * BlockSize

\* All three, at every block, with every length and in every mode.
CopyRight == TxCopyRight /\ RxCopyRight /\ StampRight
=============================================================================

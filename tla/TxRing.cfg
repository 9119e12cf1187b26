CONSTANTS
  a = a
  b = b
  NoData = NoData
  Payload <- MCPayload
  NumBds = 4
  MaxBlocks = 3
  MaxQueued = 3
SPECIFICATION FairSpec
CHECK_DEADLOCK FALSE
INVARIANTS
  UnsentIntact
  RingInv
PROPERTIES
  FifoSpec
  TransmittedInTheEnd

CONSTANTS
  a = a
  b = b
  NoData = NoData
  Payload <- MCPayload
  NumBds = 4
  MaxBlocks = 3
  MaxQueued = 4
SPECIFICATION Spec
INVARIANT AllFree
CHECK_DEADLOCK FALSE

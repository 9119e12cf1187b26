CONSTANTS
  s1 = s1
  s2 = s2
  s3 = s3
  high = high
  low = low
  Skbs <- MCSkbs
  Queues <- MCQueues
  QueueOf <- MCQueueOf
  HwSize = 1
SPECIFICATION FairSpec
INVARIANTS
  RetryIsSafe
  FreedOnce
  FrameInv
PROPERTIES
  NoStall

CONSTANTS
  Ports = {1, 2}
  NumQueues = 2
  RxQueueStart <- MCQueue
  RxQueueEnd <- MCQueue
  Modes = {TRUE, FALSE}
  Smp = FALSE
  RingSize = 3
  Quota = 2
  AllocMayFail = TRUE
  LongFrames = TRUE
  MaxFrames = 3
CHECK_DEADLOCK FALSE
SPECIFICATION FairSpec
INVARIANTS
  FramesOnce
  MisroutedOnlyBehind
  NeverOvercounts
  PollUnlessStalled
PROPERTIES
  TakenOut

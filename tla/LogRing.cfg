CONSTANTS
  HdrLen = 1
  LogAlign = 1
  LineMax = 3
  BufLen = 10
  BigLen = 14
  TimeLen = 1
  PrefixMax = 4
  Messages <- MCMessages
  Sizes = {3, 9}
  Kinds = {"devkmsg", "syslog", "all", "lines"}
  MaxSaid = 4
  MaxLost = 1
  MaxTimeSet = 1
CHECK_DEADLOCK FALSE
SPECIFICATION Spec
INVARIANTS
  RingHoldsLog
  TextKept
  NothingSkipped
  FitsBuffer
PROPERTY ReadInOrder

CONSTANTS
  BlockSize = 4
  NumBds = 4
  TagSize = 2
  MinLength = 3
SPECIFICATION CopySpec
CHECK_DEADLOCK FALSE
INVARIANTS
  CopyRight

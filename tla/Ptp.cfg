CONSTANTS
  sync1 = sync1
  sync2 = sync2
  ct1 = ct1
  None = None
  TxSkbs <- MCTx
  CtSkbs <- MCCt
  NumEvents = 2
  Event <- MCEvent
CHECK_DEADLOCK FALSE
SPECIFICATION Spec
INVARIANTS
  RefsRight
  StampOwn
  HandedOverOnce
  StampToCome

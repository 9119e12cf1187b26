CONSTANTS
  Clients = {c1, c2}
  None = None
  MaxMessages = 2
  MaxSignals = 2
SPECIFICATION EchoSpec
CHECK_DEADLOCK FALSE
INVARIANT NoSocketKept
PROPERTIES
  ServerEnds
  AnswerOrEnd
  ChildEnds

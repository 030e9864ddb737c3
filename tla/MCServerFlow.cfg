CONSTANTS
  Size = 2
  Messages = {1, 2, 3, 4}
  NoMessage = NoMessage
  MaxConns = 3
  PsAllocNum = 1
  MaxSends = 1
SPECIFICATION FlowSpec
INVARIANTS HeardInOrder
PROPERTIES NotToTheNext
CHECK_DEADLOCK FALSE

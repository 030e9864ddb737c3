CONSTANTS
  Conns = {c1, c2}
  NoConn = NoConn
  SendLoop = SendLoop
  INVALID_PEER_ID = INVALID_PEER_ID
  PsAllocNum = 1
  PpAllocNum = 1
  SingleThread = FALSE
  MaxObjects = 3
  MaxSends = 2
  MaxDisc = 1
  Outgoing = {}
SPECIFICATION FairSpec
INVARIANTS TypeOK NotReused CountsExact NoneForgotten DiscIsLast
PROPERTIES ImplementsConnections EndsAreReported
CHECK_DEADLOCK FALSE
